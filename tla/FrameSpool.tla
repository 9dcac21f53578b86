------------------------------ MODULE FrameSpool ------------------------------
(***************************************************************************)
(* The phone's side of a capture: the commands of the cloud and the        *)
(* persistent cursor, the bursts of the camera, the spool of JPEGs and     *)
(* Room rows, the upload workers, the end of the session, and the frames   *)
(* an ESP32 hands over through the local bridge.                           *)
(*                                                                         *)
(* The cloud that takes the frames is FrameLedger, which FrameUpload       *)
(* implements; it may refuse any of them.                                  *)
(***************************************************************************)
EXTENDS Naturals, FiniteSets

CONSTANTS
  Sources,        \* capture_source a session may have
  MaxCursor,      \* commands the cloud issues; the captures they name
  ManualCaptures, \* number of captures started at the button
  Frames,         \* frames of a burst
  Contents,       \* JPEGs, named by their SHA-256
  NoContent,
  MaxPages,       \* MAX_PENDING_PAGES
  MaxAttempts,    \* MAX_ATTEMPTS
  Faults          \* "commit": the row of a new command is lost behind its answer;
                  \* "preferences": the stored cursor is lost with the process

VARIABLES
  source,     \* captureSourceLabel
  session,    \* the cloud's session: CAPTURING or LOCKED
  commands,   \* gateway_commands by cursor
  ledger,     \* the cloud's frames
  confirmed,  \* uploads the cloud has answered 2xx
  ui,         \* the view model: off, polling, closing, signalling, idle, ended
  cursor,     \* the cursor of the polling, persisted in the preferences
  burst,      \* the coroutine of a command, those of the button, a request of the ESP
  detached,   \* what a cancelled burst of a command may still do
  file,       \* the JPEG of a slot in private storage
  row,        \* its pending_frames row
  work,       \* its unique upload work
  owned,      \* slots the bridge has taken over from the ESP (201 or 208)
  late,       \* slots a cancelled burst has registered since the spool was drained
  together    \* how many pages have ever been between check and insert at a time

cloudVars == <<session, commands, ledger, confirmed>>
viewVars == <<source, ui, cursor>>
cancelVars == <<detached, late>>
vars == <<cloudVars, viewVars, cancelVars, burst, file, row, work, owned, together>>

ASSUME FrameSpoolAssumption ==
  /\ Sources \subseteq {"ANDROID_CAMERA", "ESP32_CAMERA"}
  /\ {MaxCursor, ManualCaptures, MaxPages, MaxAttempts} \subseteq Nat
  /\ Frames \in Nat \ {0}
  /\ Faults \subseteq {"commit", "preferences"}
  /\ NoContent \notin Contents
  /\ Contents # {}

Captures == 1 .. MaxCursor + ManualCaptures
Indexes == 0 .. Frames - 1
Slots == Captures \X Indexes

(* The coroutines that save frames: that of the command the phone polls    *)
(* for, one for every capture at the button, which is named for its        *)
(* capture, and the bridge's, which serves one request of the ESP at a time*)
Command == 0
Manual == MaxCursor + 1 .. MaxCursor + ManualCaptures
Bridge == MaxCursor + ManualCaptures + 1
Cameras == {Command} \cup Manual
Producers == Cameras \cup {Bridge}

Row == [sha : Contents, ack : BOOLEAN, attempts : 0 .. MaxAttempts]
NoRow == [sha |-> NoContent, ack |-> FALSE, attempts |-> 0]

Burst == [pc : {"shoot", "verify", "check", "insert", "enqueue", "complete"}, cap : Captures,
          idx : Indexes, sha : Contents \cup {NoContent}, saved : SUBSET Indexes]
NoBurst == [pc |-> "none", cap |-> 0, idx |-> 0, sha |-> NoContent, saved |-> {}]

(* A JPEG of the ESP is on its card until the phone owns it.               *)
EspJpeg == CHOOSE c \in Contents : TRUE

Ledger == INSTANCE FrameLedger

-------------------------------------------------------------------------------

Known(s) == row[s] # NoRow
Pending(s) == Known(s) /\ ~row[s].ack
PendingPages == {c \in Captures : \E i \in Indexes : Pending(<<c, i>>)}

(* The pages that have passed the check and are not inserted.              *)
Entering ==
  {b.cap : b \in {b \in detached \cup {burst[p] : p \in Producers} : b.pc = "insert"}}

(* Mutant: only the pages of the capture itself are counted.               *)
MayEnterFreely(s) == TRUE

(* Backpressure: another page is taken while fewer than the limit wait.    *)
MayEnter(s) == s[1] \in PendingPages \/ Cardinality(PendingPages) < MaxPages

SlotOf(b) == <<b.cap, b.idx>>
Slot(p) == SlotOf(burst[p])
Start(c) == [pc |-> "shoot", cap |-> c, idx |-> 0, sha |-> NoContent, saved |-> {}]

(* The frames of the burst that save has answered with success.            *)
Saved(b, ok) == IF ok THEN b.saved \cup {b.idx} ELSE b.saved

(* The next frame of the burst, or its end: a request of the ESP has one.  *)
Advanced(p, ok) ==
  LET b == burst[p] IN
    IF p \in Cameras /\ b.idx + 1 < Frames
    THEN [b EXCEPT !.pc = "shoot", !.idx = @ + 1, !.sha = NoContent, !.saved = Saved(b, ok)]
    ELSE [b EXCEPT !.pc = "complete", !.sha = NoContent, !.saved = Saved(b, ok)]

At(p, pc) == burst' = [burst EXCEPT ![p].pc = pc]
Advance(p, ok) == burst' = [burst EXCEPT ![p] = Advanced(p, ok)]
Finish(p) == burst' = [burst EXCEPT ![p] = NoBurst]

Init ==
  /\ source \in Sources
  /\ session = "CAPTURING"
  /\ commands = [n \in 1 .. MaxCursor |-> "none"]
  /\ Ledger!LedgerInit
  /\ ui = IF source = "ANDROID_CAMERA" THEN "polling" ELSE "idle"
  /\ cursor = 0
  /\ burst = [p \in Producers |-> NoBurst]
  /\ file = [s \in Slots |-> NoContent]
  /\ row = [s \in Slots |-> NoRow]
  /\ work = [s \in Slots |-> "none"]
  /\ owned = {}
  /\ detached = {}
  /\ late = {}
  /\ together = 0

-------------------------------------------------------------------------------
(* Commands and bursts.                                                    *)

Issued == {n \in 1 .. MaxCursor : commands[n] # "none"}

(* The cursor the cloud answers: the one asked for, or one behind all it   *)
(* has issued if it has issued later ones but not that.                    *)
NextCursor ==
  IF commands[cursor + 1] # "none" \/ \A n \in Issued : n <= cursor THEN cursor + 1
  ELSE CHOOSE n \in 2 .. MaxCursor + 1 :
         n - 1 \in Issued /\ \A m \in Issued : m < n

Desired == IF session = "CAPTURING" THEN "CAPTURE_FULL" ELSE "STOP"

(* A command that was issued is repeated whatever the session has become.  *)
(* A new one is answered before its row is committed, which may fail.      *)
PollCommand ==
  /\ ui = "polling"
  /\ burst[Command] = NoBurst
  /\ cursor < MaxCursor
  /\ \E n \in 1 .. MaxCursor :
       /\ n = NextCursor
       /\ LET command == IF commands[n] = "none" THEN Desired ELSE commands[n] IN
            /\ \/ commands' = [commands EXCEPT ![n] = command]
               \/ "commit" \in Faults /\ UNCHANGED commands
            /\ IF command = "STOP"
               THEN ui' = "closing" /\ UNCHANGED burst
               ELSE burst' = [burst EXCEPT ![Command] = Start(n)] /\ UNCHANGED ui
  /\ UNCHANGED <<source, session, ledger, confirmed, cursor, file, row, work, owned,
                  cancelVars, together>>

(* Every press starts a coroutine of its own, beside those still at work,  *)
(* and does not ask whether the session is being closed.                   *)
PressCapture ==
  /\ ui # "off"
  /\ source = "ANDROID_CAMERA"
  /\ \E c \in Manual :
       /\ burst[c] = NoBurst
       /\ \A i \in Indexes : ~Known(<<c, i>>) /\ file[<<c, i>>] = NoContent
       /\ burst' = [burst EXCEPT ![c] = Start(c)]
  /\ UNCHANGED <<cloudVars, viewVars, file, row, work, owned, cancelVars, together>>

(* takePicture writes over whatever is there; an error deletes it.         *)
Shoot(p) ==
  /\ burst[p].pc = "shoot"
  /\ \/ \E c \in Contents :
          /\ file' = [file EXCEPT ![Slot(p)] = c]
          /\ burst' = [burst EXCEPT ![p].pc = "check", ![p].sha = c]
     \/ /\ file' \in {file, [file EXCEPT ![Slot(p)] = NoContent]}
        /\ Advance(p, FALSE)
  /\ UNCHANGED <<cloudVars, viewVars, row, work, owned, cancelVars, together>>

(* save, up to the insert: a known frame is right if it has this hash.     *)
Check(p) ==
  /\ burst[p].pc = "check"
  /\ UNCHANGED <<cloudVars, viewVars, file, row, work, owned, cancelVars>>
  /\ LET s == Slot(p)
         same == Known(s) /\ row[s].sha = burst[p].sha
         new == ~Known(s) /\ MayEnter(s) /\ file[s] = burst[p].sha
     IN \/ same /\ Advance(p, TRUE) /\ UNCHANGED together
        \/ /\ new
           /\ At(p, "insert")
           /\ together' = IF Cardinality(Entering') > together THEN Cardinality(Entering')
                          ELSE together
        \/ ~same /\ ~new /\ Advance(p, FALSE) /\ UNCHANGED together

Inserted(b) ==
  row' = [row EXCEPT ![SlotOf(b)] = [sha |-> b.sha, ack |-> FALSE, attempts |-> 0]]

(* A slot that has got a row since the check makes the insert fail.        *)
Insert(p) ==
  /\ burst[p].pc = "insert"
  /\ \/ ~Known(Slot(p)) /\ Inserted(burst[p]) /\ At(p, "enqueue")
     \/ Known(Slot(p)) /\ Advance(p, FALSE) /\ UNCHANGED row
  /\ UNCHANGED <<cloudVars, viewVars, file, work, owned, cancelVars, together>>

(* KEEP: work that has not ended is not replaced.                          *)
Enqueued(s) == IF work[s] = "none" THEN "queued" ELSE work[s]

Enqueue(p) ==
  /\ burst[p].pc = "enqueue"
  /\ work' = [work EXCEPT ![Slot(p)] = Enqueued(Slot(p))]
  /\ Advance(p, TRUE)
  /\ UNCHANGED <<cloudVars, viewVars, file, row, owned, cancelVars, together>>

(* Mutant: the cursor moves on although a frame could not be saved.        *)
EffectDurableAlways(b) == TRUE

(* Every frame of the burst was saved.                                     *)
EffectDurable(b) == b.saved = Indexes

(* The cloud knows a capture once one of its frames is confirmed; only     *)
(* then can capture-complete succeed, and the cursor move on.              *)
CompleteCommand ==
  /\ burst[Command].pc = "complete"
  /\ LET b == burst[Command] IN
       \/ UNCHANGED cursor
       \/ /\ EffectDurable(b)
          /\ \E p \in confirmed : p[1][1] = b.cap
          /\ cursor' = b.cap
  /\ Finish(Command)
  /\ UNCHANGED <<cloudVars, source, ui, file, row, work, owned, cancelVars, together>>

(* Nothing depends on the completion of a capture of the button.           *)
CompleteButton(c) ==
  /\ burst[c].pc = "complete"
  /\ Finish(c)
  /\ UNCHANGED <<cloudVars, viewVars, file, row, work, owned, cancelVars, together>>

-------------------------------------------------------------------------------
(* The upload worker.                                                      *)

Worked(s, w) == work' = [work EXCEPT ![s] = w]

(* What the worker looks at before it sends.                               *)
Sendable(s) ==
  /\ Pending(s)
  /\ file[s] = row[s].sha
  /\ row[s].attempts < MaxAttempts

BeginUpload(s) ==
  /\ work[s] = "queued"
  /\ Worked(s, IF Sendable(s) THEN "posting" ELSE "none")
  /\ UNCHANGED <<cloudVars, viewVars, burst, file, row, owned, cancelVars, together>>

(* The body is read from the file while it is sent: the cloud takes it     *)
(* only if it still is what the row says.                                  *)
CloudKeeps(s) ==
  /\ work[s] = "posting"
  /\ file[s] = row[s].sha
  /\ Ledger!Keep(s, row[s].sha)
  /\ UNCHANGED <<session, commands, viewVars, burst, file, row, work, owned, cancelVars,
                  together>>

CloudConfirms(s) ==
  /\ work[s] = "posting"
  /\ file[s] = row[s].sha
  /\ Ledger!Confirm(s, row[s].sha)
  /\ Worked(s, "accepted")
  /\ UNCHANGED <<session, commands, viewVars, burst, file, row, owned, cancelVars,
                  together>>

Tried(s) == row' = [row EXCEPT ![s].attempts = IF @ < MaxAttempts THEN @ + 1 ELSE @]

(* Mutant: a 409 is taken for a duplicate.                                 *)
RejectedAsKnown(s) ==
  /\ work[s] = "posting"
  /\ row' = [row EXCEPT ![s].ack = TRUE]
  /\ Worked(s, "none")
  /\ UNCHANGED <<cloudVars, viewVars, burst, file, owned, cancelVars, together>>

(* 409 and other client errors: the work has failed.                       *)
Rejected(s) ==
  /\ work[s] = "posting"
  /\ Tried(s)
  /\ Worked(s, "none")
  /\ UNCHANGED <<cloudVars, viewVars, burst, file, owned, cancelVars, together>>

(* 5xx, a timeout, a lost answer: again after a while.                     *)
Retried(s) ==
  /\ work[s] \in {"posting", "accepted"}
  /\ Tried(s)
  /\ Worked(s, "queued")
  /\ UNCHANGED <<cloudVars, viewVars, burst, file, owned, cancelVars, together>>

(* Mutant: the JPEG is deleted before the row says it is acknowledged.     *)
AcknowledgeAfterDelete(s) ==
  /\ work[s] = "accepted"
  /\ file' = [file EXCEPT ![s] = NoContent]
  /\ Worked(s, "acked")
  /\ UNCHANGED <<cloudVars, viewVars, burst, row, owned, cancelVars, together>>

Acknowledge(s) ==
  /\ work[s] = "accepted"
  /\ row' = [row EXCEPT ![s].ack = TRUE]
  /\ Worked(s, "acked")
  /\ UNCHANGED <<cloudVars, viewVars, burst, file, owned, cancelVars, together>>

(* A file that cannot be deleted stays: its work has succeeded.            *)
DeleteFile(s) ==
  /\ work[s] = "acked"
  /\ file' \in {file, [file EXCEPT ![s] = NoContent]}
  /\ Worked(s, "none")
  /\ UNCHANGED <<cloudVars, viewVars, burst, row, owned, cancelVars, together>>

(* When the network is back, and whenever the app is opened.               *)
ReenqueueAllPending ==
  /\ ui # "off"
  /\ work' = [s \in Slots |-> IF Pending(s) THEN Enqueued(s) ELSE work[s]]
  /\ UNCHANGED <<cloudVars, viewVars, burst, file, row, owned, cancelVars, together>>

-------------------------------------------------------------------------------
(* The end of the session, and of the process.                             *)

(* The burst of a command is cancelled wherever it is, and not waited for: *)
(* the picture the camera is taking may still be written, or its file      *)
(* deleted, and an insert or enqueue under way may still take effect.      *)
EndSession ==
  /\ source = "ANDROID_CAMERA"
  /\ ui \in {"polling", "idle", "ended"}
  /\ ui' = "closing"
  /\ \/ UNCHANGED file
     \/ /\ burst[Command].pc = "shoot"
        /\ \E c \in Contents \cup {NoContent} : file' = [file EXCEPT ![Slot(Command)] = c]
  /\ \/ UNCHANGED detached
     \/ /\ burst[Command].pc \in {"insert", "enqueue"}
        /\ detached' = detached \cup {burst[Command]}
  /\ Finish(Command)
  /\ UNCHANGED <<cloudVars, source, cursor, row, work, owned, late, together>>

(* The transaction of Room commits behind the cancellation; the coroutine  *)
(* is not resumed to ask for the upload.                                   *)
InsertDetached(b) ==
  /\ b.pc = "insert"
  /\ \/ ~Known(SlotOf(b)) /\ Inserted(b) /\ late' = late \cup {SlotOf(b)}
     \/ Known(SlotOf(b)) /\ UNCHANGED <<row, late>>
  /\ detached' = detached \ {b}
  /\ UNCHANGED <<cloudVars, viewVars, burst, file, work, owned, together>>

EnqueueDetached(b) ==
  /\ b.pc = "enqueue"
  /\ work' = [work EXCEPT ![SlotOf(b)] = Enqueued(SlotOf(b))]
  /\ detached' = detached \ {b}
  /\ UNCHANGED <<cloudVars, viewVars, burst, file, row, owned, late, together>>

(* Mutant: the wait for the spool ends with the timeout, drained or not.   *)
SpoolDrainedOrLate == TRUE

SpoolDrained == \A s \in Slots : ~Pending(s)

AwaitSpoolDrain ==
  /\ ui = "closing"
  /\ \/ SpoolDrained /\ ui' = "signalling" /\ late' = {}
     \/ ui' = "idle" /\ UNCHANGED late
  /\ UNCHANGED <<cloudVars, source, cursor, burst, file, row, work, owned, detached, together>>

(* The end-signal, whose answer may be lost.                               *)
EndSignal ==
  /\ ui = "signalling"
  /\ \/ session' = "LOCKED" /\ ui' \in {"ended", "idle"}
     \/ UNCHANGED session /\ ui' = "idle"
  /\ UNCHANGED <<source, commands, ledger, confirmed, cursor, burst, file, row, work,
                  owned, cancelVars, together>>

(* An administrator cancels the session.                                   *)
CloseInCloud ==
  /\ session = "CAPTURING"
  /\ session' = "LOCKED"
  /\ UNCHANGED <<commands, ledger, confirmed, viewVars, burst, file, row, work, owned,
                  cancelVars, together>>

(* The process dies: WorkManager repeats what had not ended.  The          *)
(* preferences are written later, so that the cursor may be an older one.  *)
Die ==
  /\ ui # "off"
  /\ ui' = "off"
  /\ \/ UNCHANGED cursor
     \/ "preferences" \in Faults /\ cursor' \in 0 .. cursor
  /\ detached' = {}
  /\ burst' = [p \in Producers |-> NoBurst]
  /\ work' = [s \in Slots |-> IF work[s] = "none" THEN "none" ELSE "queued"]
  /\ UNCHANGED <<cloudVars, source, file, row, owned, late, together>>

(* The app is opened, or the session started again, and polls with the     *)
(* stored cursor; a session of the bridge needs no more than the app.      *)
Resume ==
  /\ session = "CAPTURING"
  /\ IF source = "ANDROID_CAMERA"
     THEN ui \in {"off", "idle"} /\ ui' = "polling"
     ELSE ui = "off" /\ ui' = "idle"
  /\ UNCHANGED <<cloudVars, source, cursor, burst, file, row, work, owned, cancelVars,
                  together>>

-------------------------------------------------------------------------------
(* The bridge for the frames of an ESP, which sends one at a time.         *)

Serving == source = "ESP32_CAMERA" /\ ui # "off"

(* A frame the phone has no file of is written and renamed into place, in  *)
(* whatever state it arrived.                                              *)
EspFrame(s) ==
  /\ Serving
  /\ burst[Bridge] = NoBurst
  /\ s \notin owned
  /\ file[s] = NoContent
  /\ \E c \in Contents :
       /\ file' = [file EXCEPT ![s] = c]
       /\ burst' = [burst EXCEPT ![Bridge] =
            [pc |-> "verify", cap |-> s[1], idx |-> s[2], sha |-> c, saved |-> {}]]
  /\ UNCHANGED <<cloudVars, viewVars, row, work, owned, cancelVars, together>>

(* What is not the announced hash is deleted: 409.                         *)
EspVerify ==
  /\ burst[Bridge].pc = "verify"
  /\ IF burst[Bridge].sha = EspJpeg
     THEN At(Bridge, "check") /\ UNCHANGED file
     ELSE /\ file' = [file EXCEPT ![Slot(Bridge)] = NoContent]
          /\ Finish(Bridge)
  /\ UNCHANGED <<cloudVars, viewVars, row, work, owned, cancelVars, together>>

(* 201, after the upload is asked for once more; 500 if the frame was not  *)
(* registered, and its file stays.  The answer may be lost.                *)
EspAnswer ==
  /\ burst[Bridge].pc = "complete"
  /\ LET s == Slot(Bridge) IN
       IF burst[Bridge].saved # {}
       THEN /\ work' = [work EXCEPT ![s] = Enqueued(s)]
            /\ owned' \in {owned, owned \cup {s}}
       ELSE UNCHANGED <<work, owned>>
  /\ Finish(Bridge)
  /\ UNCHANGED <<cloudVars, viewVars, file, row, cancelVars, together>>

(* The file is there with this hash: 208, whatever Room says, and while    *)
(* the first request may still be served.                                  *)
EspDuplicate(s) ==
  /\ Serving
  /\ file[s] = EspJpeg
  /\ owned' = owned \cup {s}
  /\ UNCHANGED <<cloudVars, viewVars, burst, file, row, work, cancelVars, together>>

-------------------------------------------------------------------------------

BurstStep(p) == Shoot(p) \/ Check(p) \/ Insert(p) \/ Enqueue(p)

UploadStep(s) ==
  \/ BeginUpload(s)
  \/ CloudKeeps(s)
  \/ CloudConfirms(s)
  \/ Rejected(s)
  \/ Retried(s)
  \/ Acknowledge(s)
  \/ DeleteFile(s)

SessionStep ==
  \/ PollCommand
  \/ PressCapture
  \/ CompleteCommand
  \/ ReenqueueAllPending
  \/ EndSession
  \/ AwaitSpoolDrain
  \/ EndSignal
  \/ CloseInCloud
  \/ Die
  \/ Resume
  \/ EspVerify
  \/ EspAnswer

EspStep(s) == EspFrame(s) \/ EspDuplicate(s)

Next ==
  \/ SessionStep
  \/ \E p \in Producers : BurstStep(p)
  \/ \E c \in Manual : CompleteButton(c)
  \/ \E b \in detached : InsertDetached(b) \/ EnqueueDetached(b)
  \/ \E s \in Slots : UploadStep(s) \/ EspStep(s)

Spec == Init /\ [][Next]_vars

-------------------------------------------------------------------------------

TypeOK ==
  /\ source \in Sources
  /\ session \in {"CAPTURING", "LOCKED"}
  /\ commands \in [1 .. MaxCursor -> {"none", "CAPTURE_FULL", "STOP"}]
  /\ ledger \in [Slots -> Contents \cup {NoContent}]
  /\ confirmed \subseteq Slots \X Contents
  /\ ui \in {"off", "polling", "closing", "signalling", "idle", "ended"}
  /\ cursor \in 0 .. MaxCursor
  /\ burst \in [Producers -> Burst \cup {NoBurst}]
  /\ file \in [Slots -> Contents \cup {NoContent}]
  /\ row \in [Slots -> Row \cup {NoRow}]
  /\ work \in [Slots -> {"none", "queued", "posting", "accepted", "acked"}]
  /\ owned \subseteq Slots
  /\ detached \subseteq Burst
  /\ late \subseteq Slots
  /\ together \in Nat

(* What the phone calls acknowledged is in the cloud, with the hash of its *)
(* row: it is deleted on that word.                                        *)
AckedIsStored == \A s \in Slots : row[s].ack => ledger[s] = row[s].sha

(* A command behind the cursor has its effect: every frame of its burst is *)
(* intact on the phone or in the cloud, whatever was shot again, uploaded, *)
(* deleted or lost with the process (S04.5).                               *)
EffectIsDurable ==
  \A c \in 1 .. cursor, i \in Indexes :
    LET s == <<c, i>> IN
      commands[c] = "CAPTURE_FULL" =>
        Known(s) /\ (file[s] = row[s].sha \/ ledger[s] = row[s].sha)

(* A registered frame of the ESP keeps its file until it is acknowledged.  *)
EspPendingKept ==
  source = "ESP32_CAMERA" => \A s \in Slots : Pending(s) => file[s] = row[s].sha

(* The limit of pages that wait for the cloud is checked before a page is  *)
(* registered: it is exceeded by as many pages, less one, as have ever     *)
(* stood between the check and the insert together, which is one for each  *)
(* press of the button and one for the command.  The requests of one ESP   *)
(* never exceed it.                                                        *)
PagesBounded ==
  PendingPages # {} =>
    Cardinality(PendingPages) < MaxPages + (IF source = "ANDROID_CAMERA" THEN together ELSE 1)

(* When the end-signal goes out, every frame a command has registered is   *)
(* in the cloud (S04.3), except one whose insert was under way when the    *)
(* burst was cancelled and has committed behind the wait for the spool.    *)
CommandsAreDrained ==
  ui = "signalling" =>
    \A s \in Slots : s[1] <= MaxCursor /\ Known(s) => ledger[s] = row[s].sha \/ s \in late

(* The 201 and 208 of the bridge: recoverable possession (S03.6).  Once no *)
(* request is being served, what the ESP may delete is registered.         *)
OwnedIsRegistered == burst[Bridge] = NoBurst => \A s \in owned : Known(s)

===============================================================================
