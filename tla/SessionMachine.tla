---------------------------- MODULE SessionMachine ----------------------------
(***************************************************************************)
(* What domain/state_machine.py promises of one session: its status only   *)
(* ever moves along ALLOWED_TRANSITIONS, and the terminal states are final.*)
(* A transaction makes one transition, or the two or three that take a     *)
(* session that is still capturing to LOCKED.                              *)
(***************************************************************************)
VARIABLE status

AllowedTransitions ==
  [CREATED               |-> {"CAPTURING", "CANCELLED"},
   CAPTURING             |-> {"CAPTURE_END_CANDIDATE", "CANCELLED", "FAILED_RECOVERABLE"},
   CAPTURE_END_CANDIDATE |-> {"CAPTURING", "CAPTURE_LOCKING", "CANCELLED"},
   CAPTURE_LOCKING       |-> {"LOCKED", "FAILED_RECOVERABLE", "CANCELLED"},
   LOCKED                |-> {"IMAGE_PROCESSING", "CANCELLED"},
   IMAGE_PROCESSING      |-> {"OCR_PROCESSING", "FAILED_RECOVERABLE"},
   OCR_PROCESSING        |-> {"RECONSTRUCTING", "FAILED_RECOVERABLE"},
   RECONSTRUCTING        |-> {"RESCUE_PROCESSING", "GATE_1", "FAILED_RECOVERABLE"},
   RESCUE_PROCESSING     |-> {"GATE_1", "FAILED_RECOVERABLE"},
   GATE_1                |-> {"BLOCKED_GATE_1", "RAG_RETRIEVING"},
   BLOCKED_GATE_1        |-> {"STATUS_AUDIO", "FAILED_FATAL"},
   RAG_RETRIEVING        |-> {"SOLVING", "FAILED_RECOVERABLE"},
   SOLVING               |-> {"VERIFYING", "FAILED_RECOVERABLE"},
   VERIFYING             |-> {"ARBITRATING", "GATE_2", "FAILED_RECOVERABLE"},
   ARBITRATING           |-> {"GATE_2", "RESCUE_PROCESSING", "FAILED_RECOVERABLE"},
   GATE_2                |-> {"BLOCKED_GATE_2", "STATUS_AUDIO", "TTS_GENERATING"},
   BLOCKED_GATE_2        |-> {"STATUS_AUDIO", "FAILED_FATAL"},
   STATUS_AUDIO          |-> {"TTS_GENERATING", "COMPLETED", "FAILED_FATAL"},
   TTS_GENERATING        |-> {"AUDIO_ASSEMBLING", "FAILED_RECOVERABLE"},
   AUDIO_ASSEMBLING      |-> {"AUDIO_VALIDATING", "FAILED_RECOVERABLE"},
   AUDIO_VALIDATING      |-> {"READY", "FAILED_RECOVERABLE"},
   READY                 |-> {"COMPLETED"},
   FAILED_RECOVERABLE    |-> {"IMAGE_PROCESSING", "OCR_PROCESSING", "RECONSTRUCTING",
                              "RESCUE_PROCESSING", "RAG_RETRIEVING", "SOLVING",
                              "VERIFYING", "ARBITRATING", "AUDIO_ASSEMBLING",
                              "AUDIO_VALIDATING", "FAILED_FATAL", "CANCELLED"},
   COMPLETED             |-> {},
   FAILED_FATAL          |-> {},
   CANCELLED             |-> {}]

States == DOMAIN AllowedTransitions

(* SessionState.is_terminal                                                *)
Terminal == {"COMPLETED", "FAILED_FATAL", "CANCELLED"}

-------------------------------------------------------------------------------

(* session_start creates the session in CAPTURING.                         *)
Init == status = "CAPTURING"

Transition == status' \in AllowedTransitions[status]

(* Closing the capture walks to LOCKED in one transaction.                 *)
LockCapture ==
  /\ status' = "LOCKED"
  /\ \E p \in AllowedTransitions[status] : \E q \in AllowedTransitions[p] :
       "LOCKED" \in AllowedTransitions[p] \cup AllowedTransitions[q]

Next == Transition \/ LockCapture

Spec == Init /\ [][Next]_status

===============================================================================
