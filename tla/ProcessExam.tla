----------------------------- MODULE ProcessExam -----------------------------
(***************************************************************************)
(* The life of one exam session: the capture is locked, an outbox row      *)
(* carries the intention to process it to Temporal, and workflow runs      *)
(* drive the session through its states while the administrator may cancel *)
(* or retry it.                                                            *)
(*                                                                         *)
(* Several actors write the one sessions row.  Every writer locks it, but  *)
(* the workflow activities load it first without the lock, and the locking *)
(* read of the ORM then returns the entity already loaded: what is         *)
(* validated is the status of the first read.  An HTTP request commits     *)
(* after its handler, so a workflow the handler starts runs before the     *)
(* request has committed, and whether or not it will.                      *)
(***************************************************************************)
EXTENDS Naturals, FiniteSets

CONSTANTS
  RetryKeys,     \* values of Idempotency-Key on the retry endpoint
  RetryStages,   \* from_stage values the administrator asks for
  SessionTypes,  \* "EXAM", "HANDWRITTEN_WORD"
  MayCancel,     \* whether the administrator may cancel
  MaxOrphans,    \* bound on activities that outlive their run at one time
  Faults         \* "activity": attempts fail, are lost or time out;
                 \* "dispatch": the dispatcher dies before it commits;
                 \* "request": a request fails to commit

VARIABLES
  status,      \* sessions.status, committed
  type,        \* sessions.session_type
  cancelledBy, \* which request last wrote CANCELLED, or "none"
  outbox,      \* status of the workflow_outbox row, "NONE": no row
  dispatching, \* the dispatcher has started the workflow, has not committed
  runs,        \* the last run of each workflow id
  attempt,     \* per workflow id, the transition an activity has read for
  orphans,     \* transitions read by activities whose run is closed
  tx,          \* what the open request holding the session row will write
  delivery,    \* command of the result delivery row
  retried,     \* keys with an ADMIN_SESSION_RETRY audit event
  passed       \* gates some evaluation found passed

vars == <<status, type, cancelledBy, outbox, dispatching, runs, attempt, orphans, tx,
          delivery, retried, passed>>

Machine == INSTANCE SessionMachine
States == Machine!States
Allowed == Machine!AllowedTransitions

WorkflowIds == {"main"} \cup RetryKeys

ASSUME ProcessExamAssumption ==
  /\ "main" \notin RetryKeys
  /\ RetryStages \subseteq States
  /\ SessionTypes \subseteq {"EXAM", "HANDWRITTEN_WORD"}
  /\ MayCancel \in BOOLEAN
  /\ MaxOrphans \in Nat
  /\ Faults \subseteq {"activity", "dispatch", "request"}

Capturing == {"CAPTURING", "CAPTURE_END_CANDIDATE", "CAPTURE_LOCKING"}
NotLocked == Capturing \cup {"CREATED"}
Final == {"RGB_SEQUENCE_READY", "RESULT_CANCELLED"}
Commands == Final \cup {"ABSENT", "RESULT_PROCESSING"}
OutboxStatuses == {"NONE", "PENDING", "FAILED", "DISPATCHED"}

-------------------------------------------------------------------------------
(* The program of ProcessExamWorkflow.  A step named like a session state  *)
(* is the activity that moves the session there, the others are named for  *)
(* their activity.  validate_final_audio answers valid = False whatever    *)
(* its input, so the steps behind a valid audio are never reached.         *)

Advances == {"IMAGE_PROCESSING", "OCR_PROCESSING", "RECONSTRUCTING", "GATE_1",
             "RAG_RETRIEVING", "BLOCKED_GATE_1", "SOLVING", "VERIFYING",
             "ARBITRATING", "GATE_2", "BLOCKED_GATE_2", "STATUS_AUDIO",
             "TTS_GENERATING", "AUDIO_ASSEMBLING", "AUDIO_VALIDATING",
             "FAILED_RECOVERABLE"}

(* Activities that only check the cancellation fence and their inputs.     *)
Works == {"materialize", "preprocess", "ocr", "reconstruct", "rescue", "retrieve",
          "solve", "verify", "arbitrate", "rescue_failed", "generate", "assemble",
          "validate_audio"}

Steps == Advances \cup Works \cup
         {"mark", "validate", "gate1", "gate2", "publish", "COMPLETED"}

Straight ==
  [mark |-> "validate", validate |-> "IMAGE_PROCESSING",
   IMAGE_PROCESSING |-> "materialize", materialize |-> "preprocess",
   preprocess |-> "OCR_PROCESSING", OCR_PROCESSING |-> "ocr",
   ocr |-> "RECONSTRUCTING", RECONSTRUCTING |-> "reconstruct",
   reconstruct |-> "rescue", rescue |-> "GATE_1", GATE_1 |-> "gate1",
   BLOCKED_GATE_1 |-> "STATUS_AUDIO", RAG_RETRIEVING |-> "retrieve",
   retrieve |-> "SOLVING", SOLVING |-> "solve", solve |-> "VERIFYING",
   VERIFYING |-> "verify", verify |-> "ARBITRATING", ARBITRATING |-> "arbitrate",
   arbitrate |-> "GATE_2", GATE_2 |-> "rescue_failed", rescue_failed |-> "gate2",
   BLOCKED_GATE_2 |-> "STATUS_AUDIO", TTS_GENERATING |-> "publish",
   generate |-> "AUDIO_ASSEMBLING", AUDIO_ASSEMBLING |-> "assemble",
   assemble |-> "AUDIO_VALIDATING", AUDIO_VALIDATING |-> "validate_audio",
   validate_audio |-> "FAILED_RECOVERABLE", FAILED_RECOVERABLE |-> "CLOSED",
   COMPLETED |-> "CLOSED"]

(* The step after this one, for the gate the run has just evaluated or,    *)
(* behind gate 2, for the value of gate2_passed it remembers.              *)
StepAfter(step, gate) ==
  IF step \in DOMAIN Straight THEN Straight[step]
  ELSE CASE step = "gate1" -> IF gate THEN "RAG_RETRIEVING" ELSE "BLOCKED_GATE_1"
         [] step = "gate2" -> IF gate THEN "STATUS_AUDIO" ELSE "BLOCKED_GATE_2"
         [] step = "STATUS_AUDIO" -> IF gate THEN "TTS_GENERATING" ELSE "publish"
         [] step = "publish" -> IF gate THEN "generate" ELSE "COMPLETED"

Run == [at : Steps \cup {"NONE", "CLOSED"}, gate2 : BOOLEAN]
NoRun == [at |-> "NONE", gate2 |-> FALSE]
Attempt == [from : States, to : States]
NoAttempt == [from |-> "NONE", to |-> "NONE"]
Request == [op : {"end", "cancel", "retry"}, status : States, delivery : Commands,
            outbox : OutboxStatuses, key : RetryKeys \cup {"NONE"}]
NoTx == [op |-> "none", status |-> "NONE", delivery |-> "NONE", outbox |-> "NONE",
         key |-> "NONE"]

Running(r) == runs[r].at \in Steps

(* The runs once a start of workflow id r is accepted: a start is ignored  *)
(* while a run is open, and begins another when the last one is closed.    *)
Started(r) ==
  IF Running(r) THEN runs
  ELSE [runs EXCEPT ![r] = [at |-> "mark", gate2 |-> FALSE]]

(* What mark_result_processing leaves of a delivery.                       *)
Marked(command) ==
  IF status = "CANCELLED" THEN "RESULT_CANCELLED"
  ELSE IF command \in Final THEN command ELSE "RESULT_PROCESSING"

(* The run goes on after the activity, or the report of the activity is    *)
(* lost and it will be attempted again.  gate2_passed starts as False.     *)
Report(r, gate) ==
  \/ runs' = [runs EXCEPT ![r] = [at |-> StepAfter(runs[r].at, gate),
                                  gate2 |-> gate /\ runs[r].at # "gate1"]]
  \/ "activity" \in Faults /\ UNCHANGED runs

(* A run is closed from outside.  The attempt it waits for dies or goes on.*)
Close(r) ==
  /\ runs' = [runs EXCEPT ![r].at = "CLOSED"]
  /\ attempt' = [attempt EXCEPT ![r] = NoAttempt]
  /\ \/ UNCHANGED orphans
     \/ /\ attempt[r] # NoAttempt
        /\ orphans' = orphans \cup {attempt[r]}
        /\ Cardinality(orphans') <= MaxOrphans

-------------------------------------------------------------------------------

Init ==
  /\ status = "CAPTURING"
  /\ type \in SessionTypes
  /\ cancelledBy = "none"
  /\ outbox = "NONE"
  /\ dispatching = FALSE
  /\ runs = [r \in WorkflowIds |-> NoRun]
  /\ attempt = [r \in WorkflowIds |-> NoAttempt]
  /\ orphans = {}
  /\ tx = NoTx
  /\ delivery = "ABSENT"
  /\ retried = {}
  /\ passed = {}

(* Mutant: the intention to process is left to a later request.            *)
EndSignalNoIntent ==
  /\ tx = NoTx
  /\ status \notin Machine!Terminal
  /\ delivery' = Marked(delivery)
  /\ status' = IF status \in Capturing THEN "LOCKED" ELSE status
  /\ UNCHANGED <<type, cancelledBy, outbox, dispatching, runs, attempt, orphans, tx,
                 retried, passed>>

(* The gateway closes the capture of a session, or repeats that for one    *)
(* that is being processed: lock, mark and enqueue in one transaction.     *)
(* For a session that is LOCKED both endpoints only mark.                  *)
EndSignal ==
  /\ tx = NoTx
  /\ status # "LOCKED" => ~dispatching
  /\ status \notin Machine!Terminal
  /\ delivery' = Marked(delivery)
  /\ status' = IF status \in Capturing THEN "LOCKED" ELSE status
  /\ outbox' = IF outbox = "NONE" /\ status # "LOCKED" THEN "PENDING" ELSE outbox
  /\ UNCHANGED <<type, cancelledBy, dispatching, runs, attempt, orphans, tx, retried,
                 passed>>

(* The handwritten endpoint does the same and also sends the intent to     *)
(* Temporal, from inside its open transaction.                             *)
HandwrittenEndSignal ==
  /\ type = "HANDWRITTEN_WORD"
  /\ tx = NoTx /\ ~dispatching
  /\ status \notin Machine!Terminal \cup {"LOCKED"}
  /\ \E sent \in BOOLEAN :
       /\ tx' = [op |-> "end", delivery |-> Marked(delivery), key |-> "NONE",
                 status |-> IF status \in Capturing THEN "LOCKED" ELSE status,
                 outbox |-> IF outbox = "DISPATCHED" \/ sent THEN "DISPATCHED"
                            ELSE "FAILED"]
       /\ runs' = IF outbox # "DISPATCHED" /\ sent THEN Started("main") ELSE runs
  /\ UNCHANGED <<status, type, cancelledBy, outbox, dispatching, attempt, orphans,
                 delivery,
                 retried, passed>>

(* Mutant: the delivery is left as it is.                                  *)
CancelStatusOnly ==
  /\ MayCancel
  /\ tx = NoTx
  /\ "CANCELLED" \in Allowed[status]
  /\ tx' = [op |-> "cancel", status |-> "CANCELLED", delivery |-> delivery,
            outbox |-> "NONE", key |-> "NONE"]
  /\ UNCHANGED <<status, type, cancelledBy, outbox, dispatching, runs, attempt,
                 orphans, delivery,
                 retried, passed>>

(* The administrator cancels.  The Temporal cancellation is requested      *)
(* before the commit; it closes the run of the main workflow id, if it     *)
(* arrives, but not the activity that run is waiting for.                  *)
CancelSession ==
  /\ MayCancel
  /\ tx = NoTx
  /\ "CANCELLED" \in Allowed[status]
  /\ tx' = [op |-> "cancel", status |-> "CANCELLED", delivery |-> "RESULT_CANCELLED",
            outbox |-> "NONE", key |-> "NONE"]
  /\ \/ UNCHANGED <<runs, attempt, orphans>>
     \/ Running("main") /\ Close("main")
  /\ UNCHANGED <<status, type, cancelledBy, outbox, dispatching, delivery, retried,
                 passed>>

(* The administrator retries a recoverable failure from some stage: a new  *)
(* workflow is started under an id made from the idempotency key.          *)
RetrySession(k, stage) ==
  /\ tx = NoTx
  /\ k \notin retried
  /\ status = "FAILED_RECOVERABLE"
  /\ stage \in Allowed[status]
  /\ tx' = [op |-> "retry", status |-> stage, delivery |-> delivery,
            outbox |-> "NONE", key |-> k]
  /\ runs' = Started(k)
  /\ UNCHANGED <<status, type, cancelledBy, outbox, dispatching, attempt, orphans,
                 delivery,
                 retried, passed>>

(* The transaction of the open request commits, or is lost.                *)
CommitRequest ==
  /\ tx # NoTx
  /\ status' = tx.status
  /\ delivery' = tx.delivery
  /\ outbox' = IF tx.op = "end" THEN tx.outbox ELSE outbox
  /\ retried' = IF tx.op = "retry" THEN retried \cup {tx.key} ELSE retried
  /\ cancelledBy' = IF tx.status = "CANCELLED" THEN tx.op ELSE cancelledBy
  /\ tx' = NoTx
  /\ UNCHANGED <<type, dispatching, runs, attempt, orphans, passed>>

LoseRequest ==
  /\ "request" \in Faults
  /\ tx # NoTx
  /\ tx' = NoTx
  /\ UNCHANGED <<status, type, cancelledBy, outbox, dispatching, runs, attempt,
                 orphans, delivery,
                 retried, passed>>

-------------------------------------------------------------------------------
(* The dispatcher: it locks an unsent intent, skipping one that is locked, *)
(* starts the workflow, and commits.                                       *)

(* Mutant: an intent whose first send failed is not sent again.            *)
UnsentOnce == outbox = "PENDING" /\ ~dispatching /\ tx.op # "end"

Unsent == outbox \in {"PENDING", "FAILED"} /\ ~dispatching /\ tx.op # "end"

DispatchStart ==
  /\ Unsent
  /\ runs' = Started("main")
  /\ dispatching' = TRUE
  /\ UNCHANGED <<status, type, cancelledBy, outbox, attempt, orphans, tx, delivery,
                 retried, passed>>

DispatchRefused ==
  /\ Unsent
  /\ outbox' = "FAILED"
  /\ UNCHANGED <<status, type, cancelledBy, dispatching, runs, attempt, orphans, tx,
                 delivery,
                 retried, passed>>

DispatchCommit ==
  /\ dispatching
  /\ outbox' = "DISPATCHED"
  /\ dispatching' = FALSE
  /\ UNCHANGED <<status, type, cancelledBy, runs, attempt, orphans, tx, delivery,
                 retried, passed>>

DispatchLost ==
  /\ "dispatch" \in Faults
  /\ dispatching
  /\ dispatching' = FALSE
  /\ UNCHANGED <<status, type, cancelledBy, outbox, runs, attempt, orphans, tx,
                 delivery, retried,
                 passed>>

-------------------------------------------------------------------------------
(* The activities of a run.                                                *)

MarkProcessing(r) ==
  /\ runs[r].at = "mark"
  /\ tx = NoTx
  /\ delivery' = Marked(delivery)
  /\ Report(r, FALSE)
  /\ UNCHANGED <<status, type, cancelledBy, outbox, dispatching, attempt, orphans, tx,
                 retried, passed>>

ValidateLocked(r) ==
  /\ runs[r].at = "validate"
  /\ status \notin NotLocked \cup {"CANCELLED"}
  /\ Report(r, FALSE)
  /\ UNCHANGED <<status, type, cancelledBy, outbox, dispatching, attempt, orphans, tx,
                 delivery,
                 retried, passed>>

Work(r) ==
  /\ runs[r].at \in Works
  /\ status # "CANCELLED"
  /\ Report(r, runs[r].gate2)
  /\ UNCHANGED <<status, type, cancelledBy, outbox, dispatching, attempt, orphans, tx,
                 delivery,
                 retried, passed>>

(* Mutant: the workflow goes on whatever the gate says.                    *)
EvaluateOpenGate(r) ==
  /\ runs[r].at \in {"gate1", "gate2"}
  /\ status # "CANCELLED"
  /\ \E pass \in BOOLEAN :
       /\ passed' = IF pass THEN passed \cup {runs[r].at} ELSE passed
       /\ Report(r, TRUE)
  /\ UNCHANGED <<status, type, cancelledBy, outbox, dispatching, attempt, orphans, tx,
                 delivery,
                 retried>>

(* How many questions are READY, or answers validated, is written by parts *)
(* outside the workflow: an evaluation may find either outcome.            *)
EvaluateGate(r) ==
  /\ runs[r].at \in {"gate1", "gate2"}
  /\ status # "CANCELLED"
  /\ \E pass \in BOOLEAN :
       /\ passed' = IF pass THEN passed \cup {runs[r].at} ELSE passed
       /\ Report(r, pass)
  /\ UNCHANGED <<status, type, cancelledBy, outbox, dispatching, attempt, orphans, tx,
                 delivery,
                 retried>>

(* Mutant: incomplete answers are skipped instead of being cancelled.      *)
PublishOrSkip(r) ==
  /\ runs[r].at = "publish"
  /\ tx = NoTx
  /\ delivery' \in {delivery, "RGB_SEQUENCE_READY"}
  /\ Report(r, runs[r].gate2)
  /\ UNCHANGED <<status, type, cancelledBy, outbox, dispatching, attempt, orphans, tx,
                 retried, passed>>

PublishResult(r) ==
  /\ runs[r].at = "publish"
  /\ tx = NoTx
  /\ delivery' \in IF status = "CANCELLED" THEN {"RESULT_CANCELLED"} ELSE Final
  /\ Report(r, runs[r].gate2)
  /\ UNCHANGED <<status, type, cancelledBy, outbox, dispatching, attempt, orphans, tx,
                 retried, passed>>

(* advance_session_state and complete_session load the session without a   *)
(* lock; complete_session checks the fence on what it has loaded.          *)
LoadSession(r) ==
  /\ runs[r].at \in Advances \cup {"COMPLETED"}
  /\ attempt[r] = NoAttempt
  /\ runs[r].at = "COMPLETED" => status # "CANCELLED"
  /\ attempt' = [attempt EXCEPT ![r] = [from |-> status, to |-> runs[r].at]]
  /\ UNCHANGED <<status, type, cancelledBy, outbox, dispatching, runs, orphans, tx,
                 delivery,
                 retried, passed>>

AlreadyThere(a) == a.from = a.to /\ a.to # "COMPLETED"

(* Mutant: any state of the machine is accepted as a target.               *)
ValidTarget(a) == a.to \in States

Valid(a) == a.to \in Allowed[a.from]

(* The transition of an attempt: nothing to do, or the row is locked, the  *)
(* status it has loaded is validated, and the target is written.           *)
Transition(a) ==
  \/ AlreadyThere(a) /\ UNCHANGED status
  \/ ~AlreadyThere(a) /\ tx = NoTx /\ Valid(a) /\ status' = a.to

WriteSession(r) ==
  /\ attempt[r] # NoAttempt
  /\ Transition(attempt[r])
  /\ attempt' = [attempt EXCEPT ![r] = NoAttempt]
  /\ Report(r, runs[r].gate2)
  /\ UNCHANGED <<type, cancelledBy, outbox, dispatching, orphans, tx, delivery,
                 retried, passed>>

(* An attempt that is refused is rolled back and tried again.              *)
RetryAttempt(r) ==
  /\ attempt[r] # NoAttempt
  /\ ~AlreadyThere(attempt[r]) /\ ~Valid(attempt[r])
  /\ attempt' = [attempt EXCEPT ![r] = NoAttempt]
  /\ UNCHANGED <<status, type, cancelledBy, outbox, dispatching, runs, orphans, tx,
                 delivery,
                 retried, passed>>

(* The activity a run waits for cannot succeed on the session as it is.    *)
Blocked(r) ==
  /\ attempt[r] = NoAttempt
  /\ \/ runs[r].at = "validate" /\ status \in NotLocked \cup {"CANCELLED"}
     \/ runs[r].at \in Works \cup {"gate1", "gate2"} /\ status = "CANCELLED"
     \/ /\ runs[r].at \in Advances \cup {"COMPLETED"}
        /\ LET a == [from |-> status, to |-> runs[r].at]
           IN  ~AlreadyThere(a) /\ ~Valid(a)

(* Its attempts are exhausted: the run fails, the session stays as it is.  *)
GiveUp(r) ==
  /\ Blocked(r)
  /\ runs' = [runs EXCEPT ![r].at = "CLOSED"]
  /\ UNCHANGED <<status, type, cancelledBy, outbox, dispatching, attempt, orphans, tx,
                 delivery,
                 retried, passed>>

(* An activity fails for a reason of its own until its attempts are        *)
(* exhausted, or its time is up while an attempt is still working.         *)
FailRun(r) ==
  /\ "activity" \in Faults
  /\ Running(r)
  /\ Close(r)
  /\ UNCHANGED <<status, type, cancelledBy, outbox, dispatching, tx, delivery, retried,
                 passed>>

(* The attempt of a closed run commits what it read for, or dies.          *)
Orphan(a) ==
  /\ orphans' = orphans \ {a}
  /\ Transition(a) \/ UNCHANGED status
  /\ UNCHANGED <<type, cancelledBy, outbox, dispatching, runs, attempt, tx, delivery,
                 retried, passed>>

Activity(r) ==
  \/ MarkProcessing(r) \/ ValidateLocked(r) \/ Work(r) \/ EvaluateGate(r)
  \/ PublishResult(r) \/ LoadSession(r) \/ WriteSession(r)

Next ==
  \/ EndSignal
  \/ HandwrittenEndSignal
  \/ CancelSession
  \/ \E k \in RetryKeys, stage \in RetryStages : RetrySession(k, stage)
  \/ CommitRequest
  \/ LoseRequest
  \/ DispatchStart
  \/ DispatchRefused
  \/ DispatchCommit
  \/ DispatchLost
  \/ \E r \in WorkflowIds : Activity(r) \/ RetryAttempt(r) \/ GiveUp(r) \/ FailRun(r)
  \/ \E a \in orphans : Orphan(a)

Spec == Init /\ [][Next]_vars

(* The dispatcher polls the outbox every 30 s, Temporal schedules every    *)
(* pending activity, and an open request ends.  Fairness of the activities *)
(* is strong: a row lock is granted to its waiters in turn, so requests    *)
(* that keep taking the lock do not starve an activity.                    *)
FairSpec ==
  /\ Spec
  /\ WF_vars(CommitRequest)
  /\ WF_vars(DispatchStart)
  /\ WF_vars(DispatchCommit)
  /\ \A r \in WorkflowIds : SF_vars(Activity(r)) /\ WF_vars(RetryAttempt(r) \/ GiveUp(r))

-------------------------------------------------------------------------------
(* Properties *)

TypeOK ==
  /\ status \in States
  /\ type \in SessionTypes
  /\ cancelledBy \in {"none", "cancel", "retry"}
  /\ outbox \in OutboxStatuses
  /\ dispatching \in BOOLEAN
  /\ runs \in [WorkflowIds -> Run]
  /\ attempt \in [WorkflowIds -> Attempt \cup {NoAttempt}]
  /\ orphans \subseteq Attempt
  /\ tx \in Request \cup {NoTx}
  /\ delivery \in Commands
  /\ retried \subseteq RetryKeys
  /\ passed \subseteq {"gate1", "gate2"}

Solver == {"RAG_RETRIEVING", "SOLVING", "VERIFYING", "ARBITRATING", "GATE_2",
           "BLOCKED_GATE_2"}
Audio == {"TTS_GENERATING", "AUDIO_ASSEMBLING", "AUDIO_VALIDATING", "READY"}

(* Invariants 5 and 6 of the implementation plan: no session is in a state *)
(* of the solver that never passed gate 1, or in a state of the answer     *)
(* audio that never passed gate 2, whichever runs, retries from a later    *)
(* stage or delayed activities brought it there.                           *)
GatesGuardStates ==
  /\ status \in Solver => "gate1" \in passed
  /\ status \in Audio => {"gate1", "gate2"} \subseteq passed

(* No session is processed without a durable intention to process it, so   *)
(* none is locked and forgotten when Temporal cannot be reached.           *)
IntentBehindLock ==
  status \notin {"CAPTURING", "CANCELLED"} => outbox # "NONE"

(* A session the workflow has ended, well or for a retry, has given the    *)
(* device its final answer: it is not left waiting at RESULT_PROCESSING.   *)
ResultBeforeEnd ==
  status \in {"COMPLETED", "FAILED_RECOVERABLE"} => delivery \in Final

(* A session its cancellation left CANCELLED shows the device              *)
(* RESULT_CANCELLED, also when runs go on beside it.  A retry may cancel   *)
(* it too, by asking for the stage CANCELLED; that request leaves the      *)
(* device the final answer it had.                                         *)
CancelReachesDevice ==
  status = "CANCELLED" =>
    \/ delivery = "RESULT_CANCELLED"
    \/ cancelledBy = "retry" /\ delivery \in Final

(* The promise of the state machine: transition_session keeps every writer *)
(* on ALLOWED_TRANSITIONS.                                                 *)
LegalTransitions == Machine!Spec

(* If no activity fails on its own, a locked session is processed to its   *)
(* end: the intent reaches Temporal and no gate outcome leaves it stuck.   *)
ExamFinishes ==
  status = "LOCKED" ~> status \in {"COMPLETED", "FAILED_RECOVERABLE", "CANCELLED"}

(* The integration contract: nothing that comes late revives a cancelled   *)
(* session.                                                                *)
CancelIsDurable ==
  [][status = "CANCELLED" => status' = "CANCELLED"]_vars

===============================================================================
