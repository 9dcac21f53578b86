-------------------------- MODULE ProcessExam_proofs --------------------------
(***************************************************************************)
(* Proofs about ProcessExam for every set of retry keys and stages, every  *)
(* set of faults and any number of activities that outlive their runs.     *)
(*                                                                         *)
(* A property of sessions.status is not inductive by itself: the status    *)
(* that will be written is already decided in a run, in an attempt that    *)
(* has read the session, in an attempt whose run is gone, or in a request  *)
(* that has not committed.  Inv asks of each of these places what Licensed *)
(* asks of the status, and the three conditions of Licensed only grow.     *)
(***************************************************************************)
EXTENDS ProcessExam, TLAPS

SolverSteps == Solver \cup {"retrieve", "solve", "verify", "arbitrate",
                            "rescue_failed", "gate2"}
AudioSteps == Audio \cup {"FAILED_RECOVERABLE", "generate", "assemble", "validate_audio"}
AfterPublish == {"COMPLETED", "generate", "AUDIO_ASSEMBLING", "assemble",
                 "AUDIO_VALIDATING", "validate_audio", "FAILED_RECOVERABLE"}
Targets == Advances \cup {"COMPLETED"}
Gates == {"gate1", "gate2"}

(* What the gates must have said of a session in state s.                  *)
PassedFor(s) ==
  /\ s \in Solver => "gate1" \in passed
  /\ s \in Audio \cup {"FAILED_RECOVERABLE"} => Gates \subseteq passed

(* What must be true of the session before its status may be s.            *)
Licensed(s) ==
  /\ PassedFor(s)
  /\ s \notin {"CAPTURING", "CANCELLED"} => outbox # "NONE"
  /\ s \in {"COMPLETED", "FAILED_RECOVERABLE"} => delivery \in Final

(* What must be true of the session while a run stands at a step.          *)
LicensedRun(run) ==
  /\ run.at \in SolverSteps => "gate1" \in passed
  /\ run.at \in AudioSteps \/ run.gate2 => Gates \subseteq passed
  /\ run.at \in Steps \ {"mark", "validate"} => outbox # "NONE"
  /\ run.at \in AfterPublish => delivery \in Final

(* What must be true of the transaction of an open request.                *)
LicensedTx ==
  /\ PassedFor(tx.status)
  /\ tx.op = "end" => tx.outbox # "NONE" /\ tx.status # "CANCELLED"
  /\ tx.op = "cancel" => tx.status = "CANCELLED"
  /\ tx.op = "retry" => outbox # "NONE" /\ tx.key \in RetryKeys
  /\ delivery \in Final => tx.delivery \in Final
  /\ tx.status \in {"COMPLETED", "FAILED_RECOVERABLE"} => tx.delivery \in Final

Inv ==
  /\ TypeOK
  /\ Licensed(status)
  /\ \A r \in WorkflowIds :
       /\ LicensedRun(runs[r])
       /\ attempt[r] # NoAttempt => attempt[r].to = runs[r].at /\ runs[r].at \in Targets
  /\ \A a \in orphans : a.to \in Targets /\ Licensed(a.to)
  /\ tx # NoTx => LicensedTx

(* A step after which every licence given before is still good.            *)
Grows ==
  /\ passed \subseteq passed'
  /\ outbox # "NONE" => outbox' # "NONE"
  /\ delivery \in Final => delivery' \in Final

-------------------------------------------------------------------------------

(* The only ways into the steps behind a gate lead through the gate, and   *)
(* the only way behind publication leads through publication.              *)
LEMMA StepAfterProgram ==
  ASSUME NEW step \in Steps, NEW gate \in BOOLEAN
  PROVE  /\ StepAfter(step, gate) \in (Steps \ {"mark"}) \cup {"CLOSED"}
         /\ StepAfter(step, gate) \in SolverSteps =>
              step \in SolverSteps \/ (step = "gate1" /\ gate)
         /\ StepAfter(step, gate) \in AudioSteps =>
              step \in AudioSteps \/ (step # "gate1" /\ gate)
         /\ StepAfter(step, gate) \in AfterPublish => step \in AfterPublish \cup {"publish"}
         /\ StepAfter(step, gate) \notin {"CLOSED", "validate"} =>
              step # "mark"
  BY DEF StepAfter, Steps, Advances, Works, Straight, SolverSteps, AudioSteps, Solver,
         Audio, AfterPublish

LEMMA StateNames ==
  /\ Targets \subseteq States
  /\ Targets \subseteq Steps
  /\ {"CAPTURING", "LOCKED", "CANCELLED", "FAILED_RECOVERABLE"} \subseteq States
  /\ \A s \in States : Allowed[s] \subseteq States
  /\ "NONE" \notin States
BY DEF Targets, Advances, Works, Steps, States, Allowed, Machine!States,
       Machine!AllowedTransitions

LEMMA Sentinels ==
  /\ NoAttempt \notin Attempt
  /\ NoTx \notin Request
  /\ NoRun \in Run
BY StateNames DEF NoAttempt, Attempt, NoTx, Request, NoRun, Run

-------------------------------------------------------------------------------

LEMMA InitInv == Init => Inv
<1> SUFFICES ASSUME Init PROVE Inv
  OBVIOUS
<1>1. TypeOK
  BY StateNames, Sentinels DEF Init, TypeOK, OutboxStatuses, Commands
<1>2. Licensed(status)
  BY DEF Init, Licensed, PassedFor, Solver, Audio
<1>3. ASSUME NEW r \in WorkflowIds
      PROVE  LicensedRun(runs[r]) /\ attempt[r] = NoAttempt
  BY DEF Init, NoRun, LicensedRun, SolverSteps, Solver, AudioSteps, Audio, Steps,
         Advances, Works, AfterPublish
<1> QED
  BY <1>1, <1>2, <1>3 DEF Inv, Init

(* The runs after an activity of run r, when the activity has established  *)
(* what the next step of r needs.                                          *)
LEMMA ReportLicensed ==
  ASSUME Inv, Grows, NEW r \in WorkflowIds, NEW gate \in BOOLEAN,
         runs[r].at \in Steps, Report(r, gate),
         gate /\ runs[r].at = "gate1" => "gate1" \in passed',
         gate /\ runs[r].at # "gate1" => Gates \subseteq passed',
         runs[r].at = "validate" => outbox # "NONE",
         runs[r].at = "publish" => delivery' \in Final
  PROVE  /\ runs' \in [WorkflowIds -> Run]
         /\ \A q \in WorkflowIds : LicensedRun(runs[q])'
         /\ \A q \in WorkflowIds : q # r => runs'[q] = runs[q]
<1> DEFINE next == StepAfter(runs[r].at, gate)
           keep == gate /\ runs[r].at # "gate1"
<1>0. /\ runs \in [WorkflowIds -> Run]
      /\ \A q \in WorkflowIds : LicensedRun(runs[q])
  BY DEF Inv, TypeOK
<1>1. ASSUME NEW q \in WorkflowIds, runs'[q] = runs[q]
      PROVE  LicensedRun(runs[q])'
  BY <1>0, <1>1 DEF LicensedRun, Grows
<1>2. CASE UNCHANGED runs
  BY <1>0, <1>1, <1>2
<1>3. CASE runs' = [runs EXCEPT ![r] = [at |-> next, gate2 |-> keep]]
  <2>1. /\ next \in (Steps \ {"mark"}) \cup {"CLOSED"}
        /\ next \in SolverSteps =>
             runs[r].at \in SolverSteps \/ (runs[r].at = "gate1" /\ gate)
        /\ next \in AudioSteps => runs[r].at \in AudioSteps \/ (runs[r].at # "gate1" /\ gate)
        /\ next \in AfterPublish => runs[r].at \in AfterPublish \cup {"publish"}
        /\ next \notin {"CLOSED", "validate"} => runs[r].at # "mark"
    BY StepAfterProgram
  <2>2. [at |-> next, gate2 |-> keep] \in Run
    <3>1. next \in Steps \cup {"NONE", "CLOSED"}
      BY <2>1
    <3>2. keep \in BOOLEAN
      OBVIOUS
    <3> HIDE DEF next, keep
    <3> QED
      BY <3>1, <3>2 DEF Run
  <2> HIDE DEF next
  <2>3. /\ runs' \in [WorkflowIds -> Run]
        /\ \A q \in WorkflowIds : q # r => runs'[q] = runs[q]
        /\ runs'[r] = [at |-> next, gate2 |-> keep]
    BY <1>0, <1>3, <2>2
  <2>4. LicensedRun(runs[r])'
    <3>1. runs'[r].at = next /\ (runs'[r].gate2 => keep)
      <4>1. runs'[r].at = next
        BY <2>3
      <4>2. CASE ~keep
        <5>1. keep = FALSE
          BY <4>2
        <5> HIDE DEF keep
        <5>2. runs'[r] = [at |-> next, gate2 |-> FALSE]
          BY <2>3, <5>1, Zenon
        <5>3. ~runs'[r].gate2
          BY <5>2
        <5> QED
          BY <4>1, <5>3
      <4> QED
        BY <4>1, <4>2
    <3>2. /\ next \in SolverSteps => "gate1" \in passed'
          /\ next \in AudioSteps => Gates \subseteq passed'
          /\ keep => Gates \subseteq passed'
      BY <1>0, <2>1 DEF LicensedRun, Grows
    <3>3. next \in Steps \ {"mark", "validate"} => outbox' # "NONE"
      <4>1. next \in Steps => next # "CLOSED"
        BY DEF Steps, Advances, Works
      <4> QED
        BY <1>0, <2>1, <4>1 DEF LicensedRun, Grows
    <3>4. next \in AfterPublish => delivery' \in Final
      BY <1>0, <2>1 DEF LicensedRun, Grows
    <3> QED
      BY <3>1, <3>2, <3>3, <3>4 DEF LicensedRun
  <2> QED
    BY <1>1, <2>3, <2>4
<1> QED
  BY <1>2, <1>3 DEF Report

(* What a run stands at licenses the status it is about to write.          *)
LEMMA TargetLicensed ==
  ASSUME NEW run \in Run, LicensedRun(run), run.at \in Targets
  PROVE  Licensed(run.at)
BY DEF LicensedRun, Licensed, PassedFor, Targets, SolverSteps, AudioSteps, AfterPublish,
       Advances, Steps, Works

(* The parts of Inv a step leaves as they are.                             *)
LEMMA StatusKept ==
  ASSUME Inv, Grows, UNCHANGED status
  PROVE  Licensed(status)'
BY DEF Inv, Licensed, PassedFor, Grows

LEMMA RunsKept ==
  ASSUME Inv, Grows, UNCHANGED runs
  PROVE  \A q \in WorkflowIds : LicensedRun(runs[q])'
BY DEF Inv, LicensedRun, Grows

LEMMA OrphansKept ==
  ASSUME Inv, Grows, orphans' \subseteq orphans
  PROVE  (\A a \in orphans : a.to \in Targets /\ Licensed(a.to))'
BY DEF Inv, Licensed, PassedFor, Grows

LEMMA TxKept ==
  ASSUME Inv, Grows, UNCHANGED tx, tx = NoTx \/ UNCHANGED delivery
  PROVE  (tx # NoTx => LicensedTx)'
BY DEF Inv, LicensedTx, PassedFor, Grows

LEMMA StartedLicensed ==
  ASSUME Inv, Grows, NEW r \in WorkflowIds, runs' = Started(r)
  PROVE  /\ runs' \in [WorkflowIds -> Run]
         /\ \A q \in WorkflowIds : LicensedRun(runs[q])'
         /\ \A q \in WorkflowIds : attempt[q] # NoAttempt => runs'[q] = runs[q]
<1>0. runs \in [WorkflowIds -> Run]
  BY DEF Inv, TypeOK
<1>1. CASE Running(r)
  <2>1. UNCHANGED runs
    BY <1>1 DEF Started
  <2> QED
    BY <1>0, <2>1, RunsKept
<1>2. CASE ~Running(r)
  <2> DEFINE first == [at |-> "mark", gate2 |-> FALSE]
  <2>1. first \in Run
    BY DEF Run, Steps
  <2>2. runs' = [runs EXCEPT ![r] = first]
    BY <1>2 DEF Started
  <2>3. ASSUME NEW q \in WorkflowIds PROVE LicensedRun(runs[q])'
    <3>1. CASE q = r
      <4>1. runs'[q] = first
        BY <1>0, <2>2, <3>1
      <4> QED
        BY <4>1 DEF LicensedRun, SolverSteps, Solver, AudioSteps, Audio, AfterPublish
    <3>2. CASE q # r
      <4>1. runs'[q] = runs[q]
        BY <1>0, <2>2, <3>2
      <4> QED
        BY <4>1 DEF Inv, LicensedRun, Grows
    <3> QED
      BY <3>1, <3>2
  <2>4. attempt[r] = NoAttempt
    BY <1>2, StateNames DEF Running, Inv
  <2> HIDE DEF first
  <2> QED
    BY <1>0, <2>1, <2>2, <2>3, <2>4
<1> QED
  BY <1>1, <1>2

LEMMA ClosedLicensed ==
  ASSUME Inv, Grows, NEW r \in WorkflowIds, Running(r), Close(r)
  PROVE  /\ runs' \in [WorkflowIds -> Run]
         /\ attempt' \in [WorkflowIds -> Attempt \cup {NoAttempt}]
         /\ orphans' \subseteq Attempt
         /\ \A q \in WorkflowIds :
              /\ LicensedRun(runs[q])'
              /\ attempt'[q] # NoAttempt => attempt'[q] = attempt[q] /\ runs'[q] = runs[q]
         /\ (\A a \in orphans : a.to \in Targets /\ Licensed(a.to))'
<1>0. /\ runs \in [WorkflowIds -> Run]
      /\ attempt \in [WorkflowIds -> Attempt \cup {NoAttempt}]
      /\ orphans \subseteq Attempt
  BY DEF Inv, TypeOK
<1>1. /\ runs' = [runs EXCEPT ![r].at = "CLOSED"]
      /\ attempt' = [attempt EXCEPT ![r] = NoAttempt]
  BY DEF Close
<1>2. /\ runs'[r].at = "CLOSED"
      /\ runs'[r].gate2 => runs[r].gate2
      /\ \A q \in WorkflowIds : q # r => runs'[q] = runs[q]
      /\ runs' \in [WorkflowIds -> Run]
  BY <1>0, <1>1 DEF Run
<1>3. ASSUME NEW q \in WorkflowIds PROVE LicensedRun(runs[q])'
  <2>1. CASE q = r
    BY <1>2, <2>1 DEF Inv, LicensedRun, Grows, SolverSteps, Solver, AudioSteps, Audio,
                      AfterPublish, Steps, Advances, Works
  <2>2. CASE q # r
    BY <1>2, <2>2 DEF Inv, LicensedRun, Grows
  <2> QED
    BY <2>1, <2>2
<1>4. ASSUME NEW a \in orphans' PROVE a \in Attempt /\ a.to \in Targets /\ Licensed(a.to)'
  <2>1. CASE a \in orphans
    BY <1>0, <2>1 DEF Inv, Licensed, PassedFor, Grows
  <2>2. CASE a \notin orphans
    <3>1. a = attempt[r] /\ a # NoAttempt
      BY <2>2 DEF Close
    <3>2. a.to = runs[r].at /\ runs[r].at \in Targets /\ a \in Attempt
      BY <1>0, <3>1 DEF Inv
    <3>3. Licensed(a.to)
      BY <1>0, <3>2, TargetLicensed DEF Inv
    <3> QED
      BY <3>2, <3>3 DEF Licensed, PassedFor, Grows
  <2> QED
    BY <2>1, <2>2
<1> QED
  BY <1>0, <1>1, <1>2, <1>3, <1>4

-------------------------------------------------------------------------------
(* The requests.                                                           *)

LEMMA MarkedCommand ==
  ASSUME NEW command \in Commands
  PROVE  Marked(command) \in Commands /\ (command \in Final => Marked(command) \in Final)
BY DEF Marked, Commands, Final

LEMMA EndSignalInv == Inv /\ EndSignal => Inv'
<1> SUFFICES ASSUME Inv, EndSignal PROVE Inv'
  OBVIOUS
<1>1. delivery' \in Commands /\ (delivery \in Final => delivery' \in Final)
  BY MarkedCommand DEF EndSignal, Inv, TypeOK
<1>2. Grows
  BY <1>1 DEF EndSignal, Grows
<1>3. TypeOK'
  BY <1>1, StateNames DEF EndSignal, Inv, TypeOK, OutboxStatuses
<1>4. Licensed(status)'
  <2>1. CASE status' = status
    BY <1>2, <2>1, StatusKept
  <2>2. CASE status' # status
    BY <2>2 DEF EndSignal, Licensed, PassedFor, Capturing, Solver, Audio
  <2> QED
    BY <2>1, <2>2
<1> QED
  BY <1>2, <1>3, <1>4, RunsKept, OrphansKept, TxKept DEF EndSignal, Inv

LEMMA HandwrittenInv == Inv /\ HandwrittenEndSignal => Inv'
<1> SUFFICES ASSUME Inv, HandwrittenEndSignal PROVE Inv'
  OBVIOUS
<1>1. Marked(delivery) \in Commands /\ (delivery \in Final => Marked(delivery) \in Final)
  BY MarkedCommand DEF Inv, TypeOK
<1>2. Grows
  BY DEF HandwrittenEndSignal, Grows
<1>3. runs' = Started("main") \/ UNCHANGED runs
  BY DEF HandwrittenEndSignal
<1>4. /\ runs' \in [WorkflowIds -> Run]
      /\ \A q \in WorkflowIds : LicensedRun(runs[q])'
      /\ \A q \in WorkflowIds : attempt[q] # NoAttempt => runs'[q] = runs[q]
  BY <1>2, <1>3, StartedLicensed, RunsKept DEF WorkflowIds, Inv, TypeOK
<1>5. PICK sent \in BOOLEAN :
        tx' = [op |-> "end", delivery |-> Marked(delivery), key |-> "NONE",
               status |-> IF status \in Capturing THEN "LOCKED" ELSE status,
               outbox |-> IF outbox = "DISPATCHED" \/ sent THEN "DISPATCHED" ELSE "FAILED"]
  BY DEF HandwrittenEndSignal
<1>6. tx' \in Request
  BY <1>1, <1>5, StateNames DEF Request, OutboxStatuses, Inv, TypeOK
<1>7. LicensedTx'
  <2>1. PassedFor(IF status \in Capturing THEN "LOCKED" ELSE status)
    BY DEF Inv, Licensed, PassedFor, Solver, Audio
  <2> QED
    BY <1>1, <1>5, <2>1
    DEF HandwrittenEndSignal, Inv, Licensed, LicensedTx, PassedFor, Capturing,
        Machine!Terminal
<1>8. TypeOK'
  BY <1>4, <1>6 DEF HandwrittenEndSignal, Inv, TypeOK
<1> QED
  BY <1>2, <1>4, <1>7, <1>8, StatusKept, OrphansKept DEF HandwrittenEndSignal, Inv

LEMMA CancelInv == Inv /\ CancelSession => Inv'
<1> SUFFICES ASSUME Inv, CancelSession PROVE Inv'
  OBVIOUS
<1>1. Grows
  BY DEF CancelSession, Grows
<1>2. tx' \in Request /\ LicensedTx'
  BY StateNames DEF CancelSession, Request, OutboxStatuses, Commands, Final, LicensedTx,
                    PassedFor, Solver, Audio
<1>3. CASE UNCHANGED <<runs, attempt, orphans>>
  <2>1. TypeOK'
    BY <1>2, <1>3 DEF CancelSession, Inv, TypeOK
  <2> QED
    BY <1>1, <1>2, <1>3, <2>1, StatusKept, RunsKept, OrphansKept DEF CancelSession, Inv
<1>4. CASE Running("main") /\ Close("main")
  <2>1. "main" \in WorkflowIds
    BY DEF WorkflowIds
  <2>2. TypeOK'
    BY <1>1, <1>2, <1>4, <2>1, ClosedLicensed DEF CancelSession, Inv, TypeOK
  <2> QED
    BY <1>1, <1>2, <1>4, <2>1, <2>2, StatusKept, ClosedLicensed DEF CancelSession, Inv
<1> QED
  BY <1>3, <1>4 DEF CancelSession

LEMMA RetryInv ==
  ASSUME Inv, NEW k \in RetryKeys, NEW stage \in RetryStages, RetrySession(k, stage)
  PROVE  Inv'
<1>1. Grows
  BY DEF RetrySession, Grows
<1>2. k \in WorkflowIds /\ stage \in States
  BY ProcessExamAssumption DEF WorkflowIds
<1>3. /\ runs' \in [WorkflowIds -> Run]
      /\ \A q \in WorkflowIds : LicensedRun(runs[q])'
      /\ \A q \in WorkflowIds : attempt[q] # NoAttempt => runs'[q] = runs[q]
  BY <1>1, <1>2, StartedLicensed DEF RetrySession
<1>4. tx' \in Request
  BY <1>2 DEF RetrySession, Request, OutboxStatuses, Inv, TypeOK
<1>5. LicensedTx'
  BY DEF RetrySession, Inv, Licensed, LicensedTx, PassedFor, Gates
<1>6. TypeOK'
  BY <1>3, <1>4 DEF RetrySession, Inv, TypeOK
<1> QED
  BY <1>1, <1>3, <1>5, <1>6, StatusKept, OrphansKept DEF RetrySession, Inv

LEMMA CommitInv == Inv /\ CommitRequest => Inv'
<1> SUFFICES ASSUME Inv, CommitRequest PROVE Inv'
  OBVIOUS
<1>1. LicensedTx /\ tx \in Request
  BY DEF Inv, TypeOK, CommitRequest
<1>2. Grows
  BY <1>1 DEF CommitRequest, Grows, LicensedTx
<1>3. TypeOK'
  BY <1>1 DEF CommitRequest, Inv, TypeOK, Request, LicensedTx
<1>4. Licensed(status)'
  <2>1. PassedFor(tx.status)
    BY <1>1 DEF LicensedTx
  <2>2. status' \notin {"CAPTURING", "CANCELLED"} => outbox' # "NONE"
    BY <1>1 DEF CommitRequest, LicensedTx, Request
  <2>3. status' \in {"COMPLETED", "FAILED_RECOVERABLE"} => delivery' \in Final
    BY <1>1 DEF CommitRequest, LicensedTx
  <2> QED
    BY <2>1, <2>2, <2>3 DEF CommitRequest, Licensed, PassedFor
<1> QED
  BY <1>2, <1>3, <1>4, RunsKept, OrphansKept DEF CommitRequest, Inv

LEMMA LoseInv == Inv /\ LoseRequest => Inv'
<1> SUFFICES ASSUME Inv, LoseRequest PROVE Inv'
  OBVIOUS
<1>1. Grows
  BY DEF LoseRequest, Grows
<1>2. TypeOK'
  BY DEF LoseRequest, Inv, TypeOK
<1> QED
  BY <1>1, <1>2, StatusKept, RunsKept, OrphansKept DEF LoseRequest, Inv

LEMMA DispatchInv ==
  ASSUME Inv, DispatchStart \/ DispatchRefused \/ DispatchCommit \/ DispatchLost
  PROVE  Inv'
<1>1. Grows
  BY DEF DispatchStart, DispatchRefused, DispatchCommit, DispatchLost, Grows
<1>2. CASE DispatchStart
  <2>1. /\ runs' \in [WorkflowIds -> Run]
        /\ \A q \in WorkflowIds : LicensedRun(runs[q])'
        /\ \A q \in WorkflowIds : attempt[q] # NoAttempt => runs'[q] = runs[q]
    BY <1>1, <1>2, StartedLicensed DEF DispatchStart, WorkflowIds
  <2>2. TypeOK'
    BY <1>2, <2>1 DEF DispatchStart, Inv, TypeOK
  <2> QED
    BY <1>1, <1>2, <2>1, <2>2, StatusKept, OrphansKept, TxKept DEF DispatchStart, Inv
<1>3. CASE DispatchRefused \/ DispatchCommit \/ DispatchLost
  <2>1. TypeOK'
    BY <1>3 DEF DispatchRefused, DispatchCommit, DispatchLost, Inv, TypeOK, OutboxStatuses
  <2> QED
    BY <1>1, <1>3, <2>1, StatusKept, RunsKept, OrphansKept, TxKept
    DEF DispatchRefused, DispatchCommit, DispatchLost, Inv
<1> QED
  BY <1>2, <1>3

-------------------------------------------------------------------------------
(* The activities.                                                         *)

(* An activity that reports leaves runs licensed, and the attempts of the  *)
(* other runs as they are; its own run has none when it is not a target.   *)
LEMMA MarkInv ==
  ASSUME Inv, NEW r \in WorkflowIds, MarkProcessing(r)
  PROVE  Inv'
<1>1. delivery' \in Commands /\ (delivery \in Final => delivery' \in Final)
  BY MarkedCommand DEF MarkProcessing, Inv, TypeOK
<1>2. Grows
  BY <1>1 DEF MarkProcessing, Grows
<1>3. runs[r].at \in Steps /\ runs[r].at \notin {"gate1", "validate", "publish"}
  BY DEF MarkProcessing, Steps
<1>4. /\ runs' \in [WorkflowIds -> Run]
      /\ \A q \in WorkflowIds : LicensedRun(runs[q])'
      /\ \A q \in WorkflowIds : q # r => runs'[q] = runs[q]
  BY <1>2, <1>3, ReportLicensed DEF MarkProcessing
<1>5. attempt[r] = NoAttempt
  BY DEF MarkProcessing, Inv, Targets, Advances
<1>6. TypeOK'
  BY <1>1, <1>4 DEF MarkProcessing, Inv, TypeOK
<1> QED
  BY <1>2, <1>4, <1>5, <1>6, StatusKept, OrphansKept DEF MarkProcessing, Inv

LEMMA ValidateInv ==
  ASSUME Inv, NEW r \in WorkflowIds, ValidateLocked(r)
  PROVE  Inv'
<1>1. Grows
  BY DEF ValidateLocked, Grows
<1>2. runs[r].at \in Steps /\ runs[r].at \notin {"gate1", "publish"}
  BY DEF ValidateLocked, Steps
<1>3. outbox # "NONE"
  BY DEF ValidateLocked, NotLocked, Capturing, Inv, Licensed
<1>4. /\ runs' \in [WorkflowIds -> Run]
      /\ \A q \in WorkflowIds : LicensedRun(runs[q])'
      /\ \A q \in WorkflowIds : q # r => runs'[q] = runs[q]
  BY <1>1, <1>2, <1>3, ReportLicensed DEF ValidateLocked
<1>5. attempt[r] = NoAttempt
  BY DEF ValidateLocked, Inv, Targets, Advances
<1>6. TypeOK'
  BY <1>4 DEF ValidateLocked, Inv, TypeOK
<1> QED
  BY <1>1, <1>4, <1>5, <1>6, StatusKept, OrphansKept, TxKept DEF ValidateLocked, Inv

(* The gate2_passed a run remembers is one that gate 2 has said.           *)
LEMMA RememberedGate ==
  ASSUME Inv, NEW r \in WorkflowIds
  PROVE  runs[r].gate2 \in BOOLEAN /\ (runs[r].gate2 => Gates \subseteq passed)
<1>1. runs[r] \in Run /\ LicensedRun(runs[r])
  BY DEF Inv, TypeOK
<1> QED
  BY <1>1 DEF Run, LicensedRun

LEMMA WorkInv ==
  ASSUME Inv, NEW r \in WorkflowIds, Work(r)
  PROVE  Inv'
<1>1. Grows
  BY DEF Work, Grows
<1>2. runs[r].at \in Steps /\ runs[r].at \notin {"gate1", "validate", "publish"}
  BY DEF Work, Works, Steps
<1>3. passed' = passed
  BY DEF Work
<1>4. /\ runs' \in [WorkflowIds -> Run]
      /\ \A q \in WorkflowIds : LicensedRun(runs[q])'
      /\ \A q \in WorkflowIds : q # r => runs'[q] = runs[q]
  BY <1>1, <1>2, <1>3, RememberedGate, ReportLicensed DEF Work
<1>5. attempt[r] = NoAttempt
  BY DEF Work, Works, Inv, Targets, Advances
<1>6. TypeOK'
  BY <1>4 DEF Work, Inv, TypeOK
<1> QED
  BY <1>1, <1>4, <1>5, <1>6, StatusKept, OrphansKept, TxKept DEF Work, Inv

LEMMA EvaluateInv ==
  ASSUME Inv, NEW r \in WorkflowIds, EvaluateGate(r)
  PROVE  Inv'
<1>1. PICK pass \in BOOLEAN :
        /\ passed' = IF pass THEN passed \cup {runs[r].at} ELSE passed
        /\ Report(r, pass)
  BY DEF EvaluateGate
<1>2. runs[r].at \in Gates /\ runs[r].at \in Steps
  BY DEF EvaluateGate, Gates, Steps
<1>3. Grows
  BY <1>1 DEF EvaluateGate, Grows
<1>4. "gate2" = runs[r].at => "gate1" \in passed
  BY DEF Inv, LicensedRun, SolverSteps
<1>5. /\ pass /\ runs[r].at = "gate1" => "gate1" \in passed'
      /\ pass /\ runs[r].at # "gate1" => Gates \subseteq passed'
  BY <1>1, <1>2, <1>4 DEF Gates
<1>6. /\ runs' \in [WorkflowIds -> Run]
      /\ \A q \in WorkflowIds : LicensedRun(runs[q])'
      /\ \A q \in WorkflowIds : q # r => runs'[q] = runs[q]
  <2>1. Report(r, pass) /\ runs[r].at \notin {"validate", "publish"}
    BY <1>1, <1>2 DEF Gates
  <2> QED
    BY <1>2, <1>3, <1>5, <2>1, ReportLicensed
<1>7. attempt[r] = NoAttempt
  BY <1>2 DEF Gates, Inv, Targets, Advances
<1>8. TypeOK'
  <2>1. passed' \subseteq {"gate1", "gate2"}
    BY <1>1, <1>2 DEF Gates, Inv, TypeOK
  <2> QED
    BY <1>6, <2>1 DEF EvaluateGate, Inv, TypeOK
<1> QED
  BY <1>3, <1>6, <1>7, <1>8, StatusKept, OrphansKept, TxKept DEF EvaluateGate, Inv

LEMMA PublishInv ==
  ASSUME Inv, NEW r \in WorkflowIds, PublishResult(r)
  PROVE  Inv'
<1>1. delivery' \in Final
  BY DEF PublishResult, Final
<1>2. Grows
  BY <1>1 DEF PublishResult, Grows
<1>3. runs[r].at \in Steps /\ runs[r].at \notin {"gate1", "validate"}
  BY DEF PublishResult, Steps
<1>4. passed' = passed
  BY DEF PublishResult
<1>5. /\ runs' \in [WorkflowIds -> Run]
      /\ \A q \in WorkflowIds : LicensedRun(runs[q])'
      /\ \A q \in WorkflowIds : q # r => runs'[q] = runs[q]
  BY <1>1, <1>2, <1>3, <1>4, RememberedGate, ReportLicensed DEF PublishResult
<1>6. attempt[r] = NoAttempt
  BY DEF PublishResult, Inv, Targets, Advances
<1>7. TypeOK'
  BY <1>1, <1>5 DEF PublishResult, Inv, TypeOK, Commands
<1> QED
  BY <1>2, <1>5, <1>6, <1>7, StatusKept, OrphansKept DEF PublishResult, Inv

LEMMA LoadInv ==
  ASSUME Inv, NEW r \in WorkflowIds, LoadSession(r)
  PROVE  Inv'
<1> DEFINE read == [from |-> status, to |-> runs[r].at]
<1>1. Grows
  BY DEF LoadSession, Grows
<1>2. runs[r].at \in Targets /\ read \in Attempt
  BY StateNames DEF LoadSession, Targets, Attempt, Inv, TypeOK
<1>3. read.to = runs[r].at
  OBVIOUS
<1>4. attempt' = [attempt EXCEPT ![r] = read]
  BY DEF LoadSession
<1> HIDE DEF read
<1>5. /\ attempt' \in [WorkflowIds -> Attempt \cup {NoAttempt}]
      /\ \A q \in WorkflowIds : attempt'[q] # NoAttempt =>
           attempt'[q].to = runs[q].at /\ runs[q].at \in Targets
  BY <1>2, <1>3, <1>4 DEF Inv, TypeOK
<1>6. TypeOK'
  BY <1>5 DEF LoadSession, Inv, TypeOK
<1> QED
  BY <1>1, <1>5, <1>6, StatusKept, RunsKept, OrphansKept, TxKept DEF LoadSession, Inv

(* A transition writes only a status that was licensed to it.              *)
LEMMA TransitionLicensed ==
  ASSUME Inv, Grows, NEW a \in Attempt, Licensed(a.to), Transition(a)
  PROVE  status' \in States /\ Licensed(status)'
<1>1. CASE UNCHANGED status
  BY <1>1, StatusKept DEF Inv, TypeOK
<1>2. CASE status' = a.to
  <2>1. a.to \in States
    BY DEF Attempt
  <2> QED
    BY <1>2, <2>1 DEF Licensed, PassedFor, Grows
<1> QED
  BY <1>1, <1>2 DEF Transition

LEMMA WriteInv ==
  ASSUME Inv, NEW r \in WorkflowIds, WriteSession(r)
  PROVE  Inv'
<1>1. Grows
  BY DEF WriteSession, Grows
<1>2. /\ attempt[r] \in Attempt
      /\ attempt[r].to = runs[r].at
      /\ runs[r].at \in Targets
  BY DEF WriteSession, Inv, TypeOK
<1>3. Licensed(attempt[r].to)
  BY <1>2, TargetLicensed DEF Inv, TypeOK
<1>4. status' \in States /\ Licensed(status)'
  BY <1>1, <1>2, <1>3, TransitionLicensed DEF WriteSession
<1>5. runs[r].at \in Steps /\ runs[r].at \notin {"gate1", "validate", "publish"}
  BY <1>2 DEF Targets, Advances, Steps
<1>6. passed' = passed
  BY DEF WriteSession
<1>7. /\ runs' \in [WorkflowIds -> Run]
      /\ \A q \in WorkflowIds : LicensedRun(runs[q])'
      /\ \A q \in WorkflowIds : q # r => runs'[q] = runs[q]
  BY <1>1, <1>5, <1>6, RememberedGate, ReportLicensed DEF WriteSession
<1>8. /\ attempt' \in [WorkflowIds -> Attempt \cup {NoAttempt}]
      /\ attempt'[r] = NoAttempt
      /\ \A q \in WorkflowIds : q # r => attempt'[q] = attempt[q]
  BY DEF WriteSession, Inv, TypeOK
<1>9. TypeOK'
  BY <1>4, <1>7, <1>8 DEF WriteSession, Inv, TypeOK
<1> QED
  BY <1>1, <1>4, <1>7, <1>8, <1>9, OrphansKept, TxKept DEF WriteSession, Inv

LEMMA RetryAttemptInv ==
  ASSUME Inv, NEW r \in WorkflowIds, RetryAttempt(r)
  PROVE  Inv'
<1>1. Grows
  BY DEF RetryAttempt, Grows
<1>2. /\ attempt' \in [WorkflowIds -> Attempt \cup {NoAttempt}]
      /\ \A q \in WorkflowIds : attempt'[q] # NoAttempt => attempt'[q] = attempt[q]
  BY DEF RetryAttempt, Inv, TypeOK
<1>3. TypeOK'
  BY <1>2 DEF RetryAttempt, Inv, TypeOK
<1> QED
  BY <1>1, <1>2, <1>3, StatusKept, RunsKept, OrphansKept, TxKept DEF RetryAttempt, Inv

LEMMA GiveUpInv ==
  ASSUME Inv, NEW r \in WorkflowIds, GiveUp(r)
  PROVE  Inv'
<1>1. Grows
  BY DEF GiveUp, Grows
<1>2. Running(r) /\ attempt[r] = NoAttempt
  BY DEF GiveUp, Blocked, Running, Steps, Works, Advances
<1>3. Close(r)
  BY <1>2 DEF GiveUp, Close, Inv, TypeOK
<1>4. TypeOK'
  BY <1>1, <1>2, <1>3, ClosedLicensed DEF GiveUp, Inv, TypeOK
<1> QED
  BY <1>1, <1>2, <1>3, <1>4, StatusKept, ClosedLicensed, TxKept DEF GiveUp, Inv

LEMMA FailInv ==
  ASSUME Inv, NEW r \in WorkflowIds, FailRun(r)
  PROVE  Inv'
<1>1. Grows
  BY DEF FailRun, Grows
<1>2. Running(r) /\ Close(r)
  BY DEF FailRun
<1>3. TypeOK'
  BY <1>1, <1>2, ClosedLicensed DEF FailRun, Inv, TypeOK
<1> QED
  BY <1>1, <1>2, <1>3, StatusKept, ClosedLicensed, TxKept DEF FailRun, Inv

LEMMA OrphanInv ==
  ASSUME Inv, NEW a \in orphans, Orphan(a)
  PROVE  Inv'
<1>1. Grows /\ orphans' \subseteq orphans
  BY DEF Orphan, Grows
<1>2. a \in Attempt /\ Licensed(a.to)
  BY DEF Inv, TypeOK
<1>3. status' \in States /\ Licensed(status)'
  <2>1. CASE Transition(a)
    BY <1>1, <1>2, <2>1, TransitionLicensed
  <2>2. CASE UNCHANGED status
    BY <1>1, <2>2, StatusKept DEF Inv, TypeOK
  <2> QED
    BY <2>1, <2>2 DEF Orphan
<1>4. TypeOK'
  BY <1>1, <1>3 DEF Orphan, Inv, TypeOK
<1> QED
  BY <1>1, <1>3, <1>4, RunsKept, OrphansKept, TxKept DEF Orphan, Inv

-------------------------------------------------------------------------------

LEMMA NextInv == Inv /\ [Next]_vars => Inv'
<1> SUFFICES ASSUME Inv, [Next]_vars PROVE Inv'
  OBVIOUS
<1>1. CASE EndSignal
  BY <1>1, EndSignalInv
<1>2. CASE HandwrittenEndSignal
  BY <1>2, HandwrittenInv
<1>3. CASE CancelSession
  BY <1>3, CancelInv
<1>4. CASE \E k \in RetryKeys, stage \in RetryStages : RetrySession(k, stage)
  BY <1>4, RetryInv
<1>5. CASE CommitRequest
  BY <1>5, CommitInv
<1>6. CASE LoseRequest
  BY <1>6, LoseInv
<1>7. CASE DispatchStart \/ DispatchRefused \/ DispatchCommit \/ DispatchLost
  BY <1>7, DispatchInv
<1>8. ASSUME NEW r \in WorkflowIds, Activity(r) PROVE Inv'
  BY <1>8, MarkInv, ValidateInv, WorkInv, EvaluateInv, PublishInv, LoadInv, WriteInv
  DEF Activity
<1>9. ASSUME NEW r \in WorkflowIds, RetryAttempt(r) \/ GiveUp(r) \/ FailRun(r) PROVE Inv'
  BY <1>9, RetryAttemptInv, GiveUpInv, FailInv
<1>10. CASE \E a \in orphans : Orphan(a)
  BY <1>10, OrphanInv
<1>11. CASE UNCHANGED vars
  BY <1>11 DEF vars, Inv, TypeOK, Licensed, LicensedRun, LicensedTx, PassedFor
<1> QED
  BY <1>1, <1>2, <1>3, <1>4, <1>5, <1>6, <1>7, <1>8, <1>9, <1>10, <1>11 DEF Next

(* Inv is an invariant of every behaviour of the session.                  *)
THEOREM Invariance == Spec => []Inv
<1>1. Init => Inv
  BY InitInv
<1>2. Inv /\ [Next]_vars => Inv'
  BY NextInv
<1> QED
  BY <1>1, <1>2, PTL DEF Spec

(* The rows of the session, its runs and its open request keep their types.*)
THEOREM TypeCorrect == Spec => []TypeOK
<1>1. Inv => TypeOK
  BY DEF Inv
<1> QED
  BY <1>1, Invariance, PTL

(* No session is ever in a solver state that did not pass gate 1, or in an *)
(* audio state that did not pass both, with any number of retries from any *)
(* stage and of activities that write late.                                *)
THEOREM GatesGuard == Spec => []GatesGuardStates
<1>1. Inv => GatesGuardStates
  BY DEF Inv, Licensed, PassedFor, Gates, GatesGuardStates
<1> QED
  BY <1>1, Invariance, PTL

(* Every session that has left capture, and was not cancelled, has an      *)
(* intent in the outbox.                                                   *)
THEOREM IntentKept == Spec => []IntentBehindLock
<1>1. Inv => IntentBehindLock
  BY DEF Inv, Licensed, IntentBehindLock
<1> QED
  BY <1>1, Invariance, PTL

(* Every session the workflow has ended has given its device a final answer*)
THEOREM ResultFirst == Spec => []ResultBeforeEnd
<1>1. Inv => ResultBeforeEnd
  BY DEF Inv, Licensed, ResultBeforeEnd
<1> QED
  BY <1>1, Invariance, PTL

-------------------------------------------------------------------------------
(* Cancellation.  A request that will write CANCELLED takes the delivery   *)
(* along, or is a retry of a session whose delivery is final already.      *)

CancelShown ==
  /\ CancelReachesDevice
  /\ tx.status = "CANCELLED" =>
       \/ tx.delivery = "RESULT_CANCELLED"
       \/ tx.op = "retry" /\ tx.delivery \in Final

LEMMA CancelShownStep ==
  ASSUME Inv, CancelShown, [Next]_vars
  PROVE  CancelShown'
<1> USE DEF CancelShown, CancelReachesDevice
<1>1. CASE EndSignal
  BY <1>1 DEF EndSignal, Machine!Terminal
<1>2. CASE HandwrittenEndSignal
  BY <1>2 DEF HandwrittenEndSignal, Machine!Terminal
<1>3. CASE CancelSession
  BY <1>3 DEF CancelSession
<1>4. CASE \E k \in RetryKeys, stage \in RetryStages : RetrySession(k, stage)
  <2>1. status = "FAILED_RECOVERABLE" => delivery \in Final
    BY DEF Inv, Licensed
  <2> QED
    BY <1>4, <2>1 DEF RetrySession
<1>5. CASE CommitRequest
  BY <1>5 DEF CommitRequest, NoTx
<1>6. CASE LoseRequest
  BY <1>6 DEF LoseRequest, NoTx
<1>7. CASE DispatchStart \/ DispatchRefused \/ DispatchCommit \/ DispatchLost
  BY <1>7 DEF DispatchStart, DispatchRefused, DispatchCommit, DispatchLost
<1>8. ASSUME NEW a \in Attempt, a.to \in Targets, Transition(a)
      PROVE  status' = "CANCELLED" => status = "CANCELLED"
  BY <1>8 DEF Transition, Targets, Advances
<1>9. ASSUME NEW r \in WorkflowIds, Activity(r) PROVE CancelShown'
  <2>1. CASE MarkProcessing(r)
    BY <2>1 DEF MarkProcessing, Marked
  <2>2. CASE ValidateLocked(r) \/ Work(r) \/ EvaluateGate(r) \/ LoadSession(r)
    BY <2>2 DEF ValidateLocked, Work, EvaluateGate, LoadSession
  <2>3. CASE PublishResult(r)
    BY <2>3 DEF PublishResult
  <2>4. CASE WriteSession(r)
    <3>1. attempt[r] \in Attempt /\ attempt[r].to \in Targets
      BY <2>4 DEF WriteSession, Inv, TypeOK
    <3> QED
      BY <1>8, <2>4, <3>1 DEF WriteSession
  <2> QED
    BY <1>9, <2>1, <2>2, <2>3, <2>4 DEF Activity
<1>10. ASSUME NEW r \in WorkflowIds, RetryAttempt(r) \/ GiveUp(r) \/ FailRun(r)
       PROVE  CancelShown'
  BY <1>10 DEF RetryAttempt, GiveUp, FailRun
<1>11. ASSUME NEW a \in orphans, Orphan(a) PROVE CancelShown'
  <2>1. a \in Attempt /\ a.to \in Targets
    BY DEF Inv, TypeOK
  <2> QED
    BY <1>8, <1>11, <2>1 DEF Orphan
<1>12. CASE UNCHANGED vars
  BY <1>12 DEF vars
<1> QED
  BY <1>1, <1>2, <1>3, <1>4, <1>5, <1>6, <1>7, <1>9, <1>10, <1>11, <1>12 DEF Next

(* A session its cancellation left CANCELLED always shows the device       *)
(* RESULT_CANCELLED, with any number of runs, retries from any stage and   *)
(* late writes beside it; only a retry to the stage CANCELLED leaves the   *)
(* device the final answer it had.                                         *)
THEOREM CancelShownAlways == Spec => []CancelReachesDevice
<1>1. Init => CancelShown
  BY DEF Init, CancelShown, CancelReachesDevice, NoTx
<1>2. Inv /\ CancelShown /\ [Next]_vars => CancelShown'
  BY CancelShownStep
<1>3. CancelShown => CancelReachesDevice
  BY DEF CancelShown
<1> QED
  BY <1>1, <1>2, <1>3, Invariance, PTL DEF Spec

-------------------------------------------------------------------------------
(* The state machine.  What is validated is the status an attempt has read,*)
(* so the session keeps to the machine only when nobody writes between the *)
(* read and the write.  Without cancellation and faults that is so: the    *)
(* main workflow is started once, a retry only finds a session no run      *)
(* works on, and so at most one run is open at a time.                     *)

AfterClose(s) == IF s \in Capturing THEN "LOCKED" ELSE s

(* The main workflow is started once, before anything is processed.        *)
MainOnce ==
  /\ outbox # "DISPATCHED" /\ ~dispatching /\ tx.op # "end" => runs["main"].at = "NONE"
  /\ dispatching => outbox # "DISPATCHED"
  /\ runs["main"].at = "NONE" =>
       /\ status \in NotLocked \cup {"LOCKED"}
       /\ \A r \in WorkflowIds : runs[r].at = "NONE"

(* What an open request will write follows from the status as it is.       *)
TxSolo ==
  /\ tx.op = "end" => /\ ~dispatching
                      /\ tx.outbox = "DISPATCHED" \/ runs["main"].at = "NONE"
                      /\ tx.status = AfterClose(status)
  /\ tx.op # "cancel"
  /\ tx.op = "retry" => status = "FAILED_RECOVERABLE" /\ tx.status \in Allowed[status]

(* One run is open, none beside a session that waits for a retry.          *)
OneRun ==
  /\ \A r, q \in WorkflowIds : Running(r) /\ Running(q) => r = q
  /\ status = "FAILED_RECOVERABLE" =>
       \A r \in WorkflowIds : Running(r) => tx.op = "retry" /\ runs[r].at = "mark"
  /\ \A r \in WorkflowIds : Running(r) /\ runs[r].at \notin {"mark", "validate"} =>
       status \notin NotLocked

(* What an attempt has read is still the status.                           *)
Fresh ==
  /\ orphans = {}
  /\ \A r \in WorkflowIds : attempt[r] # NoAttempt => attempt[r].from = status

Solo == MainOnce /\ TxSolo /\ OneRun /\ Fresh

LEMMA TargetNames ==
  /\ Targets \cap ({"mark", "validate", "NONE", "CLOSED"} \cup NotLocked) = {}
  /\ Targets \subseteq Steps
  /\ {"mark", "validate"} \subseteq Steps
  /\ "NONE" \notin Steps /\ "CLOSED" \notin Steps
  /\ Allowed["FAILED_RECOVERABLE"] \cap (NotLocked \cup {"FAILED_RECOVERABLE"}) = {}
BY DEF Targets, Advances, Works, Steps, NotLocked, Capturing, Allowed,
       Machine!AllowedTransitions

(* While a session captures, or waits for a retry, nobody is about to write*)
(* its status.                                                             *)
LEMMA IdleAttempts ==
  ASSUME Inv, Solo, status \in NotLocked \cup {"FAILED_RECOVERABLE"},
         NEW r \in WorkflowIds
  PROVE  attempt[r] = NoAttempt
BY TargetNames DEF Inv, Solo, OneRun, Running

LEMMA FreshKept ==
  ASSUME Inv, Solo, UNCHANGED <<attempt, orphans>>,
         status' = status \/ status \in NotLocked \cup {"FAILED_RECOVERABLE"}
  PROVE  Fresh'
BY IdleAttempts DEF Solo, Fresh

(* The one open run takes a step.                                          *)
LEMMA RunMoves ==
  ASSUME Inv, Solo, NEW r \in WorkflowIds, Running(r),
         UNCHANGED <<outbox, dispatching, tx>>,
         \A q \in WorkflowIds : q # r => runs'[q] = runs[q],
         runs'[r].at \in (Steps \ {"mark"}) \cup {"CLOSED"},
         runs'[r].at \notin {"validate", "CLOSED"} => status' \notin NotLocked,
         status' = "FAILED_RECOVERABLE" => runs'[r].at = "CLOSED",
         tx # NoTx => UNCHANGED status
  PROVE  MainOnce' /\ TxSolo' /\ OneRun'
<1>1. "main" \in WorkflowIds
  BY DEF WorkflowIds
<1>2. runs["main"].at # "NONE"
  BY <1>1, TargetNames DEF Solo, MainOnce, Running
<1>3. runs'["main"].at # "NONE"
  BY <1>1, <1>2, TargetNames
<1>4. MainOnce'
  BY <1>2, <1>3 DEF Solo, MainOnce
<1>5. TxSolo'
  <2>1. tx.op \in {"end", "retry"} => tx # NoTx
    BY DEF NoTx
  <2> QED
    BY <1>2, <2>1 DEF Solo, TxSolo, AfterClose
<1>6. \A q \in WorkflowIds : Running(q)' => q = r
  BY DEF Solo, OneRun, Running
<1>7. OneRun'
  BY <1>6, TargetNames DEF OneRun, Running
<1> QED
  BY <1>4, <1>5, <1>7

(* Without faults an activity that succeeds takes its run to the next step.*)
LEMMA ReportMoves ==
  ASSUME Inv, Faults = {}, NEW r \in WorkflowIds, NEW gate \in BOOLEAN, Running(r),
         Report(r, gate)
  PROVE  /\ \A q \in WorkflowIds : q # r => runs'[q] = runs[q]
         /\ runs'[r].at = StepAfter(runs[r].at, gate)
         /\ runs'[r].at \in (Steps \ {"mark"}) \cup {"CLOSED"}
<1> DEFINE next == StepAfter(runs[r].at, gate)
           keep == gate /\ runs[r].at # "gate1"
<1>1. runs \in [WorkflowIds -> Run]
  BY DEF Inv, TypeOK
<1>2. runs' = [runs EXCEPT ![r] = [at |-> next, gate2 |-> keep]]
  BY DEF Report
<1>3. next \in (Steps \ {"mark"}) \cup {"CLOSED"}
  BY StepAfterProgram DEF Running
<1> HIDE DEF next, keep
<1>4. /\ \A q \in WorkflowIds : q # r => runs'[q] = runs[q]
      /\ runs'[r].at = next
  BY <1>1, <1>2
<1> QED
  BY <1>3, <1>4 DEF next

LEMMA InitSolo == Init => Solo
<1> SUFFICES ASSUME Init PROVE Solo
  OBVIOUS
<1>1. \A r \in WorkflowIds : runs[r].at = "NONE" /\ ~Running(r) /\ attempt[r] = NoAttempt
  BY TargetNames DEF Init, NoRun, Running
<1>2. "main" \in WorkflowIds
  BY DEF WorkflowIds
<1>3. MainOnce /\ TxSolo
  BY <1>1, <1>2 DEF Init, MainOnce, TxSolo, NoTx, NotLocked, Capturing
<1>4. OneRun /\ Fresh
  BY <1>1 DEF Init, OneRun, Fresh
<1> QED
  BY <1>3, <1>4 DEF Solo

(* A workflow is started where no run is open and the status can wait.     *)
LEMMA StartMoves ==
  ASSUME Inv, NEW r \in WorkflowIds, \A q \in WorkflowIds : ~Running(q), runs' = Started(r)
  PROVE  /\ runs'[r].at = "mark"
         /\ \A q \in WorkflowIds : q # r => runs'[q] = runs[q] /\ ~Running(q)'
<1>1. runs \in [WorkflowIds -> Run]
  BY DEF Inv, TypeOK
<1>2. runs' = [runs EXCEPT ![r] = [at |-> "mark", gate2 |-> FALSE]]
  BY DEF Started
<1> QED
  BY <1>1, <1>2 DEF Running

LEMMA EndSignalSolo ==
  ASSUME Inv, Solo, EndSignal
  PROVE  Solo'
<1>1. /\ UNCHANGED <<dispatching, runs, attempt, orphans, tx>>
      /\ status' = AfterClose(status)
      /\ outbox' = IF outbox = "NONE" /\ status # "LOCKED" THEN "PENDING" ELSE outbox
      /\ tx = NoTx
  BY DEF EndSignal, AfterClose
<1>2. Fresh'
  BY <1>1, FreshKept DEF AfterClose, NotLocked
<1>3. MainOnce'
  BY <1>1 DEF Solo, MainOnce, AfterClose, NotLocked, Capturing
<1>4. TxSolo'
  BY <1>1 DEF TxSolo, NoTx
<1>5. OneRun'
  <2>1. status' = "FAILED_RECOVERABLE" => status = "FAILED_RECOVERABLE"
    BY <1>1 DEF AfterClose, Capturing
  <2>2. status \notin NotLocked => status' \notin NotLocked
    BY <1>1 DEF AfterClose, NotLocked, Capturing
  <2> QED
    BY <1>1, <2>1, <2>2 DEF Solo, OneRun, Running
<1> QED
  BY <1>2, <1>3, <1>4, <1>5 DEF Solo

LEMMA HandwrittenSolo ==
  ASSUME Inv, Solo, HandwrittenEndSignal
  PROVE  Solo'
<1>1. PICK sent \in BOOLEAN :
        /\ tx' = [op |-> "end", delivery |-> Marked(delivery), key |-> "NONE",
                  status |-> AfterClose(status),
                  outbox |-> IF outbox = "DISPATCHED" \/ sent THEN "DISPATCHED"
                             ELSE "FAILED"]
        /\ runs' = IF outbox # "DISPATCHED" /\ sent THEN Started("main") ELSE runs
  BY DEF HandwrittenEndSignal, AfterClose
<1>2. /\ UNCHANGED <<status, outbox, dispatching, attempt, orphans>>
      /\ tx = NoTx /\ ~dispatching
  BY DEF HandwrittenEndSignal
<1>3. Fresh'
  BY <1>2, FreshKept
<1>4. /\ tx'.op = "end" /\ tx'.status = AfterClose(status)
      /\ outbox = "DISPATCHED" \/ sent => tx'.outbox = "DISPATCHED"
  BY <1>1
<1>5. "main" \in WorkflowIds /\ tx.op = "none"
  BY <1>2 DEF WorkflowIds, NoTx
<1>6. CASE outbox # "DISPATCHED" /\ sent
  <2>1. /\ status \in NotLocked \cup {"LOCKED"}
        /\ \A q \in WorkflowIds : runs[q].at = "NONE"
    BY <1>2, <1>5, <1>6 DEF Solo, MainOnce
  <2>2. \A q \in WorkflowIds : ~Running(q)
    BY <2>1, TargetNames DEF Running
  <2>3. /\ runs'["main"].at = "mark"
        /\ \A q \in WorkflowIds : q # "main" => runs'[q] = runs[q] /\ ~Running(q)'
    BY <1>1, <1>5, <1>6, <2>2, StartMoves
  <2>4. MainOnce' /\ TxSolo'
    BY <1>2, <1>4, <1>6, <2>3 DEF MainOnce, TxSolo
  <2>5. status # "FAILED_RECOVERABLE"
    BY <2>1 DEF NotLocked, Capturing
  <2>6. OneRun'
    BY <1>2, <1>4, <2>3, <2>5 DEF OneRun
  <2> QED
    BY <1>3, <2>4, <2>6 DEF Solo
<1>7. CASE ~(outbox # "DISPATCHED" /\ sent)
  <2>1. UNCHANGED runs
    BY <1>1, <1>7
  <2>2. outbox # "DISPATCHED" => runs["main"].at = "NONE"
    BY <1>2, <1>5 DEF Solo, MainOnce
  <2>3. MainOnce' /\ TxSolo'
    BY <1>2, <1>4, <2>1, <2>2 DEF Solo, MainOnce, TxSolo
  <2>4. OneRun'
    BY <1>2, <1>5, <2>1 DEF Solo, OneRun, Running
  <2> QED
    BY <1>3, <2>3, <2>4 DEF Solo
<1> QED
  BY <1>6, <1>7

LEMMA RetrySolo ==
  ASSUME Inv, Solo, NEW k \in RetryKeys, NEW stage \in RetryStages, RetrySession(k, stage)
  PROVE  Solo'
<1>1. /\ UNCHANGED <<status, outbox, dispatching, attempt, orphans>>
      /\ tx = NoTx /\ status = "FAILED_RECOVERABLE" /\ stage \in Allowed[status]
      /\ tx' = [op |-> "retry", status |-> stage, delivery |-> delivery,
                outbox |-> "NONE", key |-> k]
      /\ runs' = Started(k)
  BY DEF RetrySession
<1>2. /\ k \in WorkflowIds /\ "main" \in WorkflowIds /\ k # "main"
      /\ tx.op = "none" /\ tx'.op = "retry" /\ tx'.status = stage
  BY <1>1, ProcessExamAssumption DEF WorkflowIds, NoTx
<1>3. \A q \in WorkflowIds : ~Running(q)
  BY <1>1, <1>2 DEF Solo, OneRun
<1>4. /\ runs'[k].at = "mark"
      /\ \A q \in WorkflowIds : q # k => runs'[q] = runs[q] /\ ~Running(q)'
  BY <1>1, <1>2, <1>3, StartMoves
<1>5. runs["main"].at # "NONE"
  BY <1>1 DEF Solo, MainOnce, NotLocked, Capturing
<1>6. MainOnce'
  BY <1>1, <1>2, <1>4, <1>5 DEF Solo, MainOnce
<1>7. TxSolo'
  BY <1>1, <1>2 DEF TxSolo
<1>8. OneRun'
  BY <1>1, <1>2, <1>4 DEF OneRun
<1>9. Fresh'
  BY <1>1, FreshKept
<1> QED
  BY <1>6, <1>7, <1>8, <1>9 DEF Solo

LEMMA CommitSolo ==
  ASSUME Inv, Solo, CommitRequest
  PROVE  Solo'
<1>1. /\ tx # NoTx /\ tx' = NoTx /\ status' = tx.status
      /\ outbox' = IF tx.op = "end" THEN tx.outbox ELSE outbox
      /\ UNCHANGED <<dispatching, runs, attempt, orphans>>
  BY DEF CommitRequest
<1>2. tx'.op = "none"
  BY <1>1 DEF NoTx
<1>3. TxSolo'
  BY <1>2 DEF TxSolo
<1>4. CASE tx.op = "end"
  <2>1. status' = AfterClose(status)
    BY <1>1, <1>4 DEF Solo, TxSolo
  <2>2. Fresh'
    BY <1>1, <2>1, FreshKept DEF AfterClose, NotLocked
  <2>3. MainOnce'
    BY <1>1, <1>4, <2>1 DEF Solo, MainOnce, TxSolo, AfterClose, NotLocked, Capturing
  <2>4. status' = "FAILED_RECOVERABLE" => status = "FAILED_RECOVERABLE"
    BY <2>1 DEF AfterClose, Capturing
  <2>5. status \notin NotLocked => status' \notin NotLocked
    BY <2>1 DEF AfterClose, NotLocked, Capturing
  <2>6. OneRun'
    BY <1>1, <1>4, <2>4, <2>5 DEF Solo, OneRun, Running
  <2> QED
    BY <1>3, <2>2, <2>3, <2>6 DEF Solo
<1>5. CASE tx.op = "retry"
  <2>1. /\ status = "FAILED_RECOVERABLE"
        /\ status' \notin NotLocked \cup {"FAILED_RECOVERABLE"}
    BY <1>1, <1>5, TargetNames DEF Solo, TxSolo
  <2>2. Fresh'
    BY <1>1, <2>1, FreshKept
  <2>3. runs["main"].at # "NONE"
    BY <2>1 DEF Solo, MainOnce, NotLocked, Capturing
  <2>4. MainOnce'
    BY <1>1, <1>2, <1>5, <2>3 DEF Solo, MainOnce
  <2>5. OneRun'
    BY <1>1, <2>1 DEF Solo, OneRun, Running
  <2> QED
    BY <1>3, <2>2, <2>4, <2>5 DEF Solo
<1>6. tx.op \in {"end", "retry"}
  BY <1>1 DEF Inv, TypeOK, Request, Solo, TxSolo
<1> QED
  BY <1>4, <1>5, <1>6

LEMMA DispatchSolo ==
  ASSUME Inv, Solo, Faults = {},
         DispatchStart \/ DispatchRefused \/ DispatchCommit \/ DispatchLost
  PROVE  Solo'
<1>1. UNCHANGED <<status, attempt, orphans, tx>>
  BY DEF DispatchStart, DispatchRefused, DispatchCommit, DispatchLost
<1>2. Fresh'
  BY <1>1, FreshKept
<1>3. CASE DispatchStart
  <2>1. /\ outbox # "DISPATCHED" /\ ~dispatching /\ tx.op # "end"
        /\ runs' = Started("main") /\ dispatching' /\ UNCHANGED outbox
    BY <1>3 DEF DispatchStart, Unsent
  <2>2. /\ status \in NotLocked \cup {"LOCKED"}
        /\ \A q \in WorkflowIds : runs[q].at = "NONE"
    BY <2>1 DEF Solo, MainOnce
  <2>3. "main" \in WorkflowIds /\ \A q \in WorkflowIds : ~Running(q)
    BY <2>2, TargetNames DEF Running, WorkflowIds
  <2>4. /\ runs'["main"].at = "mark"
        /\ \A q \in WorkflowIds : q # "main" => runs'[q] = runs[q] /\ ~Running(q)'
    BY <2>1, <2>3, StartMoves
  <2>5. status # "FAILED_RECOVERABLE"
    BY <2>2 DEF NotLocked, Capturing
  <2>6. OneRun'
    BY <1>1, <2>4, <2>5 DEF OneRun
  <2>7. MainOnce' /\ TxSolo'
    BY <1>1, <2>1, <2>4 DEF Solo, MainOnce, TxSolo
  <2> QED
    BY <1>2, <2>6, <2>7 DEF Solo
<1>4. CASE DispatchRefused
  BY <1>1, <1>2, <1>4 DEF DispatchRefused, Unsent, Solo, MainOnce, TxSolo, OneRun, Running
<1>5. CASE DispatchCommit
  BY <1>1, <1>2, <1>5 DEF DispatchCommit, Solo, MainOnce, TxSolo, OneRun, Running
<1> QED
  BY <1>3, <1>4, <1>5 DEF DispatchLost

(* An activity that leaves the session as it is, and takes its run on.     *)
LEMMA ActivityMoves ==
  ASSUME Inv, Solo, Faults = {}, NEW r \in WorkflowIds, NEW gate \in BOOLEAN,
         Running(r), Report(r, gate),
         UNCHANGED <<status, outbox, dispatching, attempt, orphans, tx>>,
         runs[r].at = "mark" => tx = NoTx,
         runs[r].at = "validate" => status \notin NotLocked
  PROVE  Solo'
<1>1. /\ \A q \in WorkflowIds : q # r => runs'[q] = runs[q]
      /\ runs'[r].at = StepAfter(runs[r].at, gate)
      /\ runs'[r].at \in (Steps \ {"mark"}) \cup {"CLOSED"}
  BY ReportMoves
<1>2. status # "FAILED_RECOVERABLE"
  BY DEF Solo, OneRun, NoTx
<1>3. runs'[r].at \notin {"validate", "CLOSED"} => runs[r].at # "mark"
  BY <1>1, StepAfterProgram DEF Running
<1>4. runs'[r].at \notin {"validate", "CLOSED"} => status' \notin NotLocked
  BY <1>3 DEF Solo, OneRun
<1>5. MainOnce' /\ TxSolo' /\ OneRun'
  BY <1>1, <1>2, <1>4, RunMoves
<1> QED
  BY <1>5, FreshKept DEF Solo

LEMMA LoadSolo ==
  ASSUME Inv, Solo, NEW r \in WorkflowIds, LoadSession(r)
  PROVE  Solo'
<1>1. /\ UNCHANGED <<status, outbox, dispatching, runs, orphans, tx>>
      /\ attempt' = [attempt EXCEPT ![r] = [from |-> status, to |-> runs[r].at]]
      /\ attempt \in [WorkflowIds -> Attempt \cup {NoAttempt}]
  BY DEF LoadSession, Inv, TypeOK
<1>2. MainOnce' /\ TxSolo' /\ OneRun'
  BY <1>1 DEF Solo, MainOnce, TxSolo, OneRun, Running
<1>3. Fresh'
  BY <1>1 DEF Solo, Fresh
<1> QED
  BY <1>2, <1>3 DEF Solo

(* The attempt of the open run has read the status it finds.               *)
LEMMA WriteIsFresh ==
  ASSUME Inv, Solo, NEW r \in WorkflowIds, attempt[r] # NoAttempt
  PROVE  /\ attempt[r] \in Attempt
         /\ attempt[r].from = status /\ attempt[r].to = runs[r].at
         /\ runs[r].at \in Targets /\ Running(r)
         /\ status \notin NotLocked \cup {"FAILED_RECOVERABLE"}
         /\ \A q \in WorkflowIds : q # r => attempt[q] = NoAttempt
<1>1. /\ attempt[r] \in Attempt
      /\ attempt[r].from = status /\ attempt[r].to = runs[r].at
      /\ runs[r].at \in Targets
  BY DEF Inv, TypeOK, Solo, Fresh
<1>2. Running(r)
  BY <1>1, TargetNames DEF Running
<1>3. status \notin NotLocked \cup {"FAILED_RECOVERABLE"}
  BY IdleAttempts
<1>4. ASSUME NEW q \in WorkflowIds, attempt[q] # NoAttempt PROVE q = r
  <2>1. Running(q)
    BY <1>4, TargetNames DEF Running, Inv
  <2> QED
    BY <1>2, <2>1 DEF Solo, OneRun
<1> QED
  BY <1>1, <1>2, <1>3, <1>4

LEMMA WriteSolo ==
  ASSUME Inv, Solo, Faults = {}, NEW r \in WorkflowIds, WriteSession(r)
  PROVE  Solo'
<1>1. /\ attempt[r] # NoAttempt /\ Transition(attempt[r])
      /\ attempt' = [attempt EXCEPT ![r] = NoAttempt]
      /\ Report(r, runs[r].gate2)
      /\ UNCHANGED <<outbox, dispatching, orphans, tx>>
      /\ attempt \in [WorkflowIds -> Attempt \cup {NoAttempt}]
      /\ runs[r].gate2 \in BOOLEAN
  BY DEF WriteSession, Inv, TypeOK, Run
<1>2. /\ attempt[r].to = runs[r].at /\ runs[r].at \in Targets /\ Running(r)
      /\ status \notin NotLocked \cup {"FAILED_RECOVERABLE"}
      /\ \A q \in WorkflowIds : q # r => attempt[q] = NoAttempt
  BY <1>1, WriteIsFresh
<1>3. /\ \A q \in WorkflowIds : q # r => runs'[q] = runs[q]
      /\ runs'[r].at = StepAfter(runs[r].at, runs[r].gate2)
      /\ runs'[r].at \in (Steps \ {"mark"}) \cup {"CLOSED"}
  BY <1>1, <1>2, ReportMoves
<1>4. /\ status' \in {status, runs[r].at}
      /\ tx # NoTx => UNCHANGED status
  BY <1>1, <1>2 DEF Transition
<1>5. status' \notin NotLocked
  BY <1>2, <1>4, TargetNames
<1>6. status' = "FAILED_RECOVERABLE" => runs'[r].at = "CLOSED"
  BY <1>2, <1>3, <1>4 DEF StepAfter, Straight
<1>7. MainOnce' /\ TxSolo' /\ OneRun'
  BY <1>1, <1>2, <1>3, <1>4, <1>5, <1>6, RunMoves
<1>8. Fresh'
  BY <1>1, <1>2 DEF Solo, Fresh
<1> QED
  BY <1>7, <1>8 DEF Solo

LEMMA ActivitySolo ==
  ASSUME Inv, Solo, Faults = {}, NEW r \in WorkflowIds, Activity(r)
  PROVE  Solo'
<1>1. runs[r] \in Run
  BY DEF Inv, TypeOK
<1>2. CASE MarkProcessing(r)
  BY <1>2, ActivityMoves, TargetNames DEF MarkProcessing, Running
<1>3. CASE ValidateLocked(r)
  BY <1>3, ActivityMoves, TargetNames DEF ValidateLocked, Running
<1>4. CASE Work(r)
  <2>1. /\ Running(r) /\ runs[r].at \notin {"mark", "validate"}
        /\ runs[r].gate2 \in BOOLEAN
    BY <1>1, <1>4 DEF Work, Running, Steps, Works, Run
  <2> QED
    BY <1>4, <2>1, ActivityMoves DEF Work
<1>5. CASE EvaluateGate(r)
  <2>1. Running(r) /\ runs[r].at \notin {"mark", "validate"}
    BY <1>5 DEF EvaluateGate, Running, Steps
  <2>2. PICK pass \in BOOLEAN : Report(r, pass)
    BY <1>5 DEF EvaluateGate
  <2> QED
    BY <1>5, <2>1, <2>2, ActivityMoves DEF EvaluateGate
<1>6. CASE PublishResult(r)
  <2>1. /\ Running(r) /\ runs[r].at \notin {"mark", "validate"}
        /\ runs[r].gate2 \in BOOLEAN
    BY <1>1, <1>6 DEF PublishResult, Running, Steps, Run
  <2> QED
    BY <1>6, <2>1, ActivityMoves DEF PublishResult
<1>7. CASE LoadSession(r)
  BY <1>7, LoadSolo
<1>8. CASE WriteSession(r)
  BY <1>8, WriteSolo
<1> QED
  BY <1>2, <1>3, <1>4, <1>5, <1>6, <1>7, <1>8 DEF Activity

(* A run that is given up was already past the start of a retry.           *)
LEMMA GiveUpSolo ==
  ASSUME Inv, Solo, NEW r \in WorkflowIds, GiveUp(r)
  PROVE  Solo'
<1>1. /\ runs' = [runs EXCEPT ![r].at = "CLOSED"]
      /\ UNCHANGED <<status, outbox, dispatching, attempt, orphans, tx>>
      /\ runs \in [WorkflowIds -> Run]
  BY DEF GiveUp, Inv, TypeOK
<1>2. Running(r)
  BY DEF GiveUp, Blocked, Running, Steps, Works, Advances
<1>3. /\ \A q \in WorkflowIds : q # r => runs'[q] = runs[q]
      /\ runs'[r].at = "CLOSED"
  BY <1>1 DEF Run
<1>4. MainOnce' /\ TxSolo' /\ OneRun'
  BY <1>1, <1>2, <1>3, RunMoves
<1> QED
  BY <1>1, <1>4, FreshKept DEF Solo

LEMMA RetryAttemptSolo ==
  ASSUME Inv, Solo, NEW r \in WorkflowIds, RetryAttempt(r)
  PROVE  Solo'
<1>1. /\ UNCHANGED <<status, outbox, dispatching, runs, orphans, tx>>
      /\ attempt' = [attempt EXCEPT ![r] = NoAttempt]
      /\ attempt \in [WorkflowIds -> Attempt \cup {NoAttempt}]
  BY DEF RetryAttempt, Inv, TypeOK
<1>2. MainOnce' /\ TxSolo' /\ OneRun'
  BY <1>1 DEF Solo, MainOnce, TxSolo, OneRun, Running
<1>3. Fresh'
  BY <1>1 DEF Solo, Fresh
<1> QED
  BY <1>2, <1>3 DEF Solo

LEMMA SoloStep ==
  ASSUME ~MayCancel, Faults = {}, Inv, Solo, [Next]_vars
  PROVE  Solo'
<1>1. CASE EndSignal
  BY <1>1, EndSignalSolo
<1>2. CASE HandwrittenEndSignal
  BY <1>2, HandwrittenSolo
<1>3. ~CancelSession
  BY DEF CancelSession
<1>4. CASE \E k \in RetryKeys, stage \in RetryStages : RetrySession(k, stage)
  BY <1>4, RetrySolo
<1>5. CASE CommitRequest
  BY <1>5, CommitSolo
<1>6. ~LoseRequest
  BY DEF LoseRequest
<1>7. CASE DispatchStart \/ DispatchRefused \/ DispatchCommit \/ DispatchLost
  BY <1>7, DispatchSolo
<1>8. ASSUME NEW r \in WorkflowIds, Activity(r) PROVE Solo'
  BY <1>8, ActivitySolo
<1>9. ASSUME NEW r \in WorkflowIds, RetryAttempt(r) \/ GiveUp(r) \/ FailRun(r) PROVE Solo'
  BY <1>9, RetryAttemptSolo, GiveUpSolo DEF FailRun
<1>10. ~\E a \in orphans : Orphan(a)
  BY DEF Solo, Fresh
<1>11. CASE UNCHANGED vars
  BY <1>11 DEF vars, Solo, MainOnce, TxSolo, OneRun, Fresh, Running
<1> QED
  BY <1>1, <1>2, <1>3, <1>4, <1>5, <1>6, <1>7, <1>8, <1>9, <1>10, <1>11 DEF Next

-------------------------------------------------------------------------------

(* Closing a capture is a walk of the machine to LOCKED.                   *)
LEMMA CloseIsLegal ==
  ASSUME status' = AfterClose(status)
  PROVE  [Machine!Next]_status
<1>1. CASE status = "CAPTURING"
  <2>1. /\ "CAPTURE_END_CANDIDATE" \in Machine!AllowedTransitions[status]
        /\ "CAPTURE_LOCKING" \in Machine!AllowedTransitions["CAPTURE_END_CANDIDATE"]
        /\ "LOCKED" \in Machine!AllowedTransitions["CAPTURE_LOCKING"]
    BY <1>1 DEF Machine!AllowedTransitions
  <2>2. status' = "LOCKED"
    BY <1>1 DEF AfterClose, Capturing
  <2> QED
    BY <2>1, <2>2 DEF Machine!Next, Machine!LockCapture
<1>2. CASE status = "CAPTURE_END_CANDIDATE"
  <2>1. /\ "CAPTURE_LOCKING" \in Machine!AllowedTransitions[status]
        /\ "LOCKED" \in Machine!AllowedTransitions["CAPTURE_LOCKING"]
        /\ "CANCELLED" \in Machine!AllowedTransitions["CAPTURE_LOCKING"]
    BY <1>2 DEF Machine!AllowedTransitions
  <2>2. status' = "LOCKED"
    BY <1>2 DEF AfterClose, Capturing
  <2> QED
    BY <2>1, <2>2 DEF Machine!Next, Machine!LockCapture
<1>3. CASE status = "CAPTURE_LOCKING"
  <2>1. "LOCKED" \in Machine!AllowedTransitions[status]
    BY <1>3 DEF Machine!AllowedTransitions
  <2>2. status' = "LOCKED"
    BY <1>3 DEF AfterClose, Capturing
  <2> QED
    BY <2>1, <2>2 DEF Machine!Next, Machine!Transition
<1>4. CASE status \notin Capturing
  BY <1>4 DEF AfterClose
<1> QED
  BY <1>1, <1>2, <1>3, <1>4 DEF Capturing

(* Every step of the session is a step of the state machine, or none.      *)
LEMMA LegalStep ==
  ASSUME ~MayCancel, Faults = {}, Inv, Solo, [Next]_vars
  PROVE  [Machine!Next]_status
<1>1. CASE EndSignal
  BY <1>1, CloseIsLegal DEF EndSignal, AfterClose
<1>2. CASE CommitRequest
  <2>1. status' = tx.status /\ tx.op \in {"end", "retry"}
    BY <1>2 DEF CommitRequest, Inv, TypeOK, Request, Solo, TxSolo
  <2>2. CASE tx.op = "end"
    BY <2>1, <2>2, CloseIsLegal DEF Solo, TxSolo
  <2>3. CASE tx.op = "retry"
    BY <2>1, <2>3 DEF Solo, TxSolo, Allowed, Machine!Next, Machine!Transition
  <2> QED
    BY <2>1, <2>2, <2>3
<1>3. ASSUME NEW r \in WorkflowIds, WriteSession(r) PROVE [Machine!Next]_status
  <2>1. attempt[r].from = status /\ Transition(attempt[r])
    BY <1>3, WriteIsFresh DEF WriteSession
  <2> QED
    BY <2>1 DEF Transition, Valid, Allowed, Machine!Next, Machine!Transition
<1>4. CASE HandwrittenEndSignal
  BY <1>4 DEF HandwrittenEndSignal
<1>5. CASE CancelSession
  BY <1>5 DEF CancelSession
<1>6. CASE \E k \in RetryKeys, stage \in RetryStages : RetrySession(k, stage)
  BY <1>6 DEF RetrySession
<1>7. CASE LoseRequest
  BY <1>7 DEF LoseRequest
<1>8. CASE DispatchStart \/ DispatchRefused \/ DispatchCommit \/ DispatchLost
  BY <1>8 DEF DispatchStart, DispatchRefused, DispatchCommit, DispatchLost
<1>9. ASSUME NEW r \in WorkflowIds, Activity(r) PROVE [Machine!Next]_status
  BY <1>3, <1>9 DEF Activity, MarkProcessing, ValidateLocked, Work, EvaluateGate,
                    PublishResult, LoadSession
<1>10. ASSUME NEW r \in WorkflowIds, RetryAttempt(r) \/ GiveUp(r) \/ FailRun(r)
       PROVE  [Machine!Next]_status
  BY <1>10 DEF RetryAttempt, GiveUp, FailRun
<1>11. ~\E a \in orphans : Orphan(a)
  BY DEF Solo, Fresh
<1>12. CASE UNCHANGED vars
  BY <1>12 DEF vars
<1> QED
  BY <1>1, <1>2, <1>4, <1>5, <1>6, <1>7, <1>8, <1>9, <1>10, <1>11, <1>12 DEF Next

(* A session nobody cancels, whose activities, dispatcher and requests do  *)
(* not fail on their own, only moves along ALLOWED_TRANSITIONS, for any    *)
(* number of retries from any stage and any outcomes of the gates.         *)
THEOREM MachineImplemented ==
  ASSUME ~MayCancel, Faults = {}
  PROVE  Spec => LegalTransitions
<1>1. Init => Solo
  BY InitSolo
<1>2. Inv /\ Solo /\ [Next]_vars => Solo'
  BY SoloStep
<1>3. Init => Machine!Init
  BY DEF Init, Machine!Init
<1>4. Inv /\ Solo /\ [Next]_vars => [Machine!Next]_status
  BY LegalStep
<1> QED
  BY <1>1, <1>2, <1>3, <1>4, Invariance, PTL DEF Spec, LegalTransitions, Machine!Spec

===============================================================================
