--------------------------- MODULE ContentStatus ---------------------------
(***************************************************************************)
(* The state machine of an uploaded file                                   *)
(* (state_machines/machines/content_machine.py): which status may follow   *)
(* which, and the status a stuck one is turned into.  "deleted" is not a   *)
(* status of the code: it stands for the row being gone.                   *)
(***************************************************************************)

Processing == {"QUEUED", "PULLING", "PROCESSING", "OCR_PROCESSING",
               "SUMMARY_QUEUED", "SUMMARIZING"}
Terminal == {"COMPLETED", "DOWNLOAD_FAILED", "ASR_FAILED", "OCR_FAILED",
             "SUMMARY_FAILED", "CANCELLED"}
Statuses == Processing \union Terminal

Transitions ==
    [s \in Statuses |->
        CASE s = "QUEUED" -> {"PULLING", "PROCESSING", "OCR_PROCESSING",
                              "ASR_FAILED", "OCR_FAILED", "CANCELLED"}
          [] s = "PULLING" -> {"QUEUED", "PROCESSING", "DOWNLOAD_FAILED",
                               "ASR_FAILED", "CANCELLED"}
          [] s = "PROCESSING" -> {"SUMMARY_QUEUED", "ASR_FAILED", "CANCELLED"}
          [] s = "OCR_PROCESSING" -> {"SUMMARY_QUEUED", "OCR_FAILED", "CANCELLED"}
          [] s = "SUMMARY_QUEUED" -> {"SUMMARIZING", "COMPLETED",
                                      "SUMMARY_FAILED", "CANCELLED"}
          [] s = "SUMMARIZING" -> {"COMPLETED", "SUMMARY_FAILED", "CANCELLED"}
          [] OTHER -> {}]

\* can_transition
CanTransition(s, t) == s \in Statuses /\ t \in Transitions[s]

\* Faulty variant: the two reading phases fall to the default.
FailureStateForDefault(s) ==
    CASE s = "PULLING" -> "DOWNLOAD_FAILED"
      [] OTHER -> "SUMMARY_FAILED"

\* get_failure_state_for
FailureStateFor(s) ==
    CASE s \in {"QUEUED", "PROCESSING"} -> "ASR_FAILED"
      [] s = "PULLING" -> "DOWNLOAD_FAILED"
      [] s = "OCR_PROCESSING" -> "OCR_FAILED"
      [] OTHER -> "SUMMARY_FAILED"

\* The statuses of the two kinds of file while a worker reads them.
WorkingStatus(kind) == IF kind = "audio" THEN "PROCESSING" ELSE "OCR_PROCESSING"
FailedStatus(kind) == IF kind = "audio" THEN "ASR_FAILED" ELSE "OCR_FAILED"
=============================================================================
