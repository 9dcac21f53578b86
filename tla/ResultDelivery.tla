---------------------------- MODULE ResultDelivery ----------------------------
(***************************************************************************)
(* Delivery of the RGB result of one exam session.                         *)
(*                                                                         *)
(* The server turns the validated answers of a session into immutable,     *)
(* numbered RGB sequences (revisions) and exposes one of them, or a        *)
(* cancellation, through one delivery row that the device polls with a     *)
(* cursor.  The device answers with progress events.                       *)
(*                                                                         *)
(* One action is one database transaction.  publish, mark and cancel lock  *)
(* the session row first, an event locks its sequence row, and all of them *)
(* lock the delivery row before they read it, so the transactions on one   *)
(* session are serialised wherever they touch the same row.  A transaction *)
(* that is refused (HTTP 4xx) is rolled back and changes nothing, so it is *)
(* no step.                                                                *)
(*                                                                         *)
(* Here a cancelled session stays cancelled; ProcessExam models how a      *)
(* stale workflow step may overwrite that status, and the workflow.        *)
(***************************************************************************)
EXTENDS Integers, FiniteSets

CONSTANTS
  Contents,        \* complete A-E answer strings; one content has one sha256
  Incomplete,      \* an answer set validate_complete_answer_set refuses
  Keys,            \* values of the Idempotency-Key header
  NoKey,           \* a request without that header
  ItemCount,       \* items of every sequence (expected_questions)
  MaxRevision,     \* bound on the revisions of the session
  MaxCursor,       \* bound on the delivery cursor
  Publishers,      \* which callers publish: "workflow", "debug"
  EnabledSettings  \* values RGB_RESULTS_ENABLED takes across deployments

ASSUME ContentAssumption == Incomplete \notin Contents
ASSUME KeyAssumption == NoKey \notin Keys
ASSUME BoundAssumption ==
  /\ ItemCount \in Nat \ {0}
  /\ MaxRevision \in Nat
  /\ MaxCursor \in Nat
ASSUME EnvironmentAssumption ==
  /\ Publishers \subseteq {"workflow", "debug"}
  /\ EnabledSettings \subseteq BOOLEAN

VARIABLES
  cancelled,  \* sessions.status = CANCELLED, committed
  latest,     \* highest revision in rgb_sequences, 0 when there is none
  seq,        \* rgb_sequences by revision
  delivery,   \* the session_result_delivery row; command "ABSENT": no row
  log,        \* rgb_sequence_events
  client,     \* the last result the device polled
  debug       \* session status an open debug request has loaded, if any

vars == <<cancelled, latest, seq, delivery, log, client, debug>>

Revisions == 1..MaxRevision
NoRevision == 0

Open == {"READY", "RECEIVED", "PLAYING"}
Dead == {"INVALID", "SUPERSEDED"}
Statuses == Open \cup Dead \cup {"COMPLETED"}
EventNames == {"RECEIVED", "STARTED", "RESUMED", "COMPLETED", "INVALID"}
Commands == {"RESULT_PROCESSING", "RGB_SEQUENCE_READY", "RESULT_CANCELLED"}
Reasons == {"none", "CANCELLED", "ADMIN_CANCELLED", "SESSION_CANCELLED",
            "RGB_RESULTS_DISABLED", "RGB_SEQUENCE_INCOMPLETE",
            "RGB_SEQUENCE_INVALID_REPORTED_BY_DEVICE"}

Sequence == [status : Statuses, content : Contents, next : 0..ItemCount]
NoSequence == [status |-> "ABSENT", content |-> Incomplete, next |-> 0]
DeliveryRow == [command : Commands \cup {"ABSENT"}, cursor : Nat,
                active : 0..MaxRevision, reason : Reasons]
Result == [cursor : Nat, command : Commands \cup {"ABSENT"}, rev : 0..MaxRevision]
Event == [rev : Revisions, event : EventNames, next : 0..ItemCount,
          key : Keys \cup {NoKey}]

-------------------------------------------------------------------------------

(* Mutant: the visible columns change under an unchanged cursor.           *)
AdvanceInPlace(d, command, active, reason) ==
  IF d.cursor = 0
  THEN [command |-> command, active |-> active, reason |-> reason, cursor |-> 1]
  ELSE [d EXCEPT !.command = command, !.active = active, !.reason = reason]

(* The row get_or_create_delivery leaves: a new row has cursor 1, a row    *)
(* whose visible columns change gets the next cursor, any other is kept.   *)
Advance(d, command, active, reason) ==
  LET new == [d EXCEPT !.command = command, !.active = active, !.reason = reason]
  IN  IF new = d THEN d ELSE [new EXCEPT !.cursor = d.cursor + 1]

(* The row publish works from: unless a sequence is already READY it first *)
(* passes through RESULT_PROCESSING, which consumes a cursor of its own.   *)
Reopened(d) ==
  IF d.command = "RGB_SEQUENCE_READY" THEN d
  ELSE Advance(d, "RESULT_PROCESSING", NoRevision, "none")

(* What a poll behind the delivery cursor is answered.                     *)
Snapshot ==
  IF delivery.active = NoRevision
  THEN [cursor |-> delivery.cursor, command |-> delivery.command, rev |-> NoRevision]
  ELSE IF seq[delivery.active].status \in Dead
       THEN [cursor |-> delivery.cursor, command |-> "RESULT_CANCELLED",
             rev |-> NoRevision]
       ELSE [cursor |-> delivery.cursor, command |-> delivery.command,
             rev |-> delivery.active]

(* Two events with one identity are one event: the identity of COMPLETED   *)
(* leaves next_index out.                                                  *)
SameIdentity(x, y) ==
  /\ x.rev = y.rev
  /\ x.event = y.event
  /\ x.event = "COMPLETED" \/ x.next = y.next

-------------------------------------------------------------------------------

Init ==
  /\ cancelled = FALSE
  /\ latest = 0
  /\ seq = [r \in Revisions |-> NoSequence]
  /\ delivery = [command |-> "ABSENT", cursor |-> 0, active |-> NoRevision,
                 reason |-> "none"]
  /\ log = {}
  /\ client = [cursor |-> 0, command |-> "ABSENT", rev |-> NoRevision]
  /\ debug = "idle"

SetDelivery(d) ==
  /\ d.cursor <= MaxCursor
  /\ delivery' = d

(* end-signal and the first workflow activity make processing visible.     *)
MarkProcessing ==
  /\ \/ /\ cancelled
        /\ SetDelivery(Advance(delivery, "RESULT_CANCELLED", NoRevision, "CANCELLED"))
     \/ /\ ~cancelled
        /\ delivery.command \notin {"RGB_SEQUENCE_READY", "RESULT_CANCELLED"}
        /\ SetDelivery(Advance(delivery, "RESULT_PROCESSING", NoRevision, "none"))
  /\ UNCHANGED <<cancelled, latest, seq, log, client, debug>>

(* The administrator cancels the session; its delivery goes with it.       *)
Cancel ==
  /\ ~cancelled
  /\ cancelled' = TRUE
  /\ SetDelivery(Advance(delivery, "RESULT_CANCELLED", NoRevision, "ADMIN_CANCELLED"))
  /\ UNCHANGED <<latest, seq, log, client, debug>>

-------------------------------------------------------------------------------
(* publish_rgb_for_session, for a caller that believes the session is      *)
(* cancelled or not (sawCancelled).  The questions and final answers are   *)
(* written elsewhere: a publication finds any of the possible answers.     *)

PublishCancelled ==
  /\ SetDelivery(Advance(delivery, "RESULT_CANCELLED", NoRevision, "SESSION_CANCELLED"))
  /\ UNCHANGED <<latest, seq>>

PublishDisabled ==
  /\ SetDelivery(Advance(delivery, "RESULT_CANCELLED", NoRevision, "RGB_RESULTS_DISABLED"))
  /\ UNCHANGED <<latest, seq>>

PublishRefused(answers) ==
  /\ answers = Incomplete
  /\ SetDelivery(Advance(Reopened(delivery), "RESULT_CANCELLED", NoRevision,
                         "RGB_SEQUENCE_INCOMPLETE"))
  /\ UNCHANGED <<latest, seq>>

(* Revisions with these answers that were not invalidated or superseded.   *)
Reusable(answers) == {r \in 1..latest : /\ seq[r].content = answers
                                        /\ seq[r].status \notin Dead}

PublishReuse(answers) ==
  /\ answers # Incomplete
  /\ \E r \in Reusable(answers) :
       /\ \A q \in Reusable(answers) : q <= r
       /\ SetDelivery(Advance(Reopened(delivery), "RGB_SEQUENCE_READY", r, "none"))
  /\ UNCHANGED <<latest, seq>>

PublishNew(answers) ==
  /\ answers # Incomplete
  /\ Reusable(answers) = {}
  /\ latest < MaxRevision
  /\ latest' = latest + 1
  /\ seq' = [r \in Revisions |->
               IF r = latest + 1
               THEN [status |-> "READY", content |-> answers, next |-> 0]
               ELSE IF r = latest /\ seq[r].status \in Open
                    THEN [seq[r] EXCEPT !.status = "SUPERSEDED"]
                    ELSE seq[r]]
  /\ SetDelivery(Advance(Reopened(delivery), "RGB_SEQUENCE_READY", latest + 1, "none"))

(* Mutant: the cancellation fence is not consulted.                        *)
PublishUnfenced(sawCancelled) ==
  /\ \E answers \in Contents \cup {Incomplete} :
       PublishRefused(answers) \/ PublishReuse(answers) \/ PublishNew(answers)
  /\ UNCHANGED <<cancelled, log, client>>

Publish(sawCancelled) ==
  /\ \/ sawCancelled /\ PublishCancelled
     \/ ~sawCancelled /\ FALSE \in EnabledSettings /\ PublishDisabled
     \/ /\ ~sawCancelled /\ TRUE \in EnabledSettings
        /\ \E answers \in Contents \cup {Incomplete} :
             PublishRefused(answers) \/ PublishReuse(answers) \/ PublishNew(answers)
  /\ UNCHANGED <<cancelled, log, client>>

(* The activity publish_rgb_result loads the session row under its lock.   *)
WorkflowPublish ==
  /\ "workflow" \in Publishers
  /\ Publish(cancelled)
  /\ UNCHANGED debug

(* The debug endpoint loads the session without a lock.  The locking read  *)
(* that follows returns the entity the ORM already holds, as it was then.  *)
DebugLoad ==
  /\ "debug" \in Publishers
  /\ debug = "idle"
  /\ debug' = IF cancelled THEN "cancelled" ELSE "live"
  /\ UNCHANGED <<cancelled, latest, seq, delivery, log, client>>

DebugPublish ==
  /\ debug # "idle"
  /\ Publish(debug = "cancelled")
  /\ debug' = "idle"

-------------------------------------------------------------------------------

(* Mutant: completion may be reported half way.                            *)
AcceptableEarly(e) ==
  /\ e.rev \in 1..latest
  /\ \A x \in log : ~SameIdentity(x, e)
  /\ seq[e.rev].status \in Open
  /\ e.event = "RECEIVED" => seq[e.rev].status = "READY"
  /\ e.next >= seq[e.rev].next

(* record_rgb_event accepts an event no stored event duplicates.           *)
Acceptable(e) ==
  /\ e.rev \in 1..latest
  /\ \A x \in log : e.key = NoKey \/ x.key # e.key
  /\ \A x \in log : ~SameIdentity(x, e)
  /\ seq[e.rev].status \notin Dead
  /\ seq[e.rev].status = "COMPLETED" => e.event = "COMPLETED"
  /\ e.event = "RECEIVED" => seq[e.rev].status = "READY"
  /\ e.next >= seq[e.rev].next
  /\ e.event = "COMPLETED" => e.next = ItemCount

StatusAfter(event) ==
  CASE event = "RECEIVED" -> "RECEIVED"
    [] event \in {"STARTED", "RESUMED"} -> "PLAYING"
    [] event = "COMPLETED" -> "COMPLETED"
    [] OTHER -> "INVALID"

(* Mutants: an INVALID report leaves the delivery alone, or an event that  *)
(* comes without a key is applied and not kept.                            *)
RecordOnly(e) ==
  /\ Acceptable(e)
  /\ seq' = [seq EXCEPT ![e.rev].status = StatusAfter(e.event), ![e.rev].next = e.next]
  /\ log' = log \cup {e}
  /\ UNCHANGED <<cancelled, latest, delivery, client, debug>>

RecordKeyed(e) ==
  /\ Acceptable(e)
  /\ seq' = [seq EXCEPT ![e.rev].status = StatusAfter(e.event), ![e.rev].next = e.next]
  /\ log' = IF e.key = NoKey THEN log ELSE log \cup {e}
  /\ UNCHANGED <<cancelled, latest, delivery, client, debug>>

RecordEvent(e) ==
  /\ Acceptable(e)
  /\ seq' = [seq EXCEPT ![e.rev].status = StatusAfter(e.event), ![e.rev].next = e.next]
  /\ log' = log \cup {e}
  /\ IF e.event = "INVALID"
     THEN SetDelivery(Advance(delivery, "RESULT_CANCELLED", NoRevision,
                              "RGB_SEQUENCE_INVALID_REPORTED_BY_DEVICE"))
     ELSE UNCHANGED delivery
  /\ UNCHANGED <<cancelled, latest, client, debug>>

(* Mutant: a device one result behind is answered 204.                     *)
PollLate ==
  /\ client.cursor + 1 < delivery.cursor
  /\ client' = Snapshot
  /\ UNCHANGED <<cancelled, latest, seq, delivery, log, debug>>

(* A poll that is answered with a result; the device keeps it.             *)
Poll ==
  /\ client.cursor < delivery.cursor
  /\ client' = Snapshot
  /\ UNCHANGED <<cancelled, latest, seq, delivery, log, debug>>

Next ==
  \/ MarkProcessing
  \/ Cancel
  \/ WorkflowPublish
  \/ DebugLoad
  \/ DebugPublish
  \/ \E e \in Event : RecordEvent(e)
  \/ Poll

Spec == Init /\ [][Next]_vars

(* The device polls for as long as the session is being delivered.         *)
FairSpec == Spec /\ WF_vars(Poll)

-------------------------------------------------------------------------------
(* Properties *)

TypeOK ==
  /\ cancelled \in BOOLEAN
  /\ latest \in 0..MaxRevision
  /\ seq \in [Revisions -> Sequence \cup {NoSequence}]
  /\ delivery \in DeliveryRow
  /\ delivery.cursor <= MaxCursor
  /\ log \subseteq Event
  /\ client \in Result
  /\ debug \in {"idle", "live", "cancelled"}

(* A delivery that announces a sequence names a published revision the     *)
(* download endpoint still serves: neither a device report of INVALID nor  *)
(* a newer publication leaves RGB_SEQUENCE_READY pointing at a dead one.   *)
ReadyIsServed ==
  /\ delivery.command = "RGB_SEQUENCE_READY" <=> delivery.active # NoRevision
  /\ delivery.active # NoRevision =>
       delivery.active <= latest /\ seq[delivery.active].status \notin Dead

(* At most the newest revision is still playable: publication supersedes   *)
(* the one before it, and reusing an old revision opens nothing.           *)
OnlyLatestOpen ==
  \A r \in Revisions : seq[r].status \in Open => r = latest

(* A cursor names one result.  A device whose cursor is current, and which *)
(* is therefore answered 204, holds what the server would send it now.     *)
CurrentClientIsRight ==
  client.cursor = delivery.cursor /\ client.cursor > 0 => client = Snapshot

(* The progress and the status on a sequence row are what the accepted     *)
(* events say: no event is applied and not kept, or kept and not applied.  *)
RowMatchesLog ==
  \A r \in 1..latest :
    LET of == {e \in log : e.rev = r}
    IN  /\ \A e \in of : e.next <= seq[r].next
        /\ seq[r].next > 0 => \E e \in of : e.next = seq[r].next
        /\ seq[r].status = "COMPLETED" <=> \E e \in of : e.event = "COMPLETED"
        /\ seq[r].status = "INVALID" <=> \E e \in of : e.event = "INVALID"
        /\ seq[r].status = "READY" => of = {}

(* Completion is reported once per revision, and only of a whole sequence. *)
CompletedOnce ==
  \A r \in 1..latest :
    /\ seq[r].status = "COMPLETED" => seq[r].next = ItemCount
    /\ \A x, y \in log :
         x.rev = r /\ y.rev = r /\ x.event = "COMPLETED" /\ y.event = "COMPLETED"
           => x = y

(* The cancellation fence of the contract: once the administrator's        *)
(* cancellation is committed the device is never offered a sequence.       *)
CancelFence == cancelled => delivery.command = "RESULT_CANCELLED"

(* Once a final result was visible no committed state shows the device     *)
(* RESULT_PROCESSING again, though publication passes through it.          *)
NoRegressionToProcessing ==
  [][delivery.command \in {"RGB_SEQUENCE_READY", "RESULT_CANCELLED"}
       => delivery'.command \in {"RGB_SEQUENCE_READY", "RESULT_CANCELLED"}]_vars

(* The cursor never moves back, and stands still only with its result.     *)
CursorNamesResult ==
  [][/\ delivery'.cursor >= delivery.cursor
     /\ delivery'.cursor = delivery.cursor => Snapshot' = Snapshot]_vars

(* Every result is polled, or overtaken by a later one that is.            *)
ResultReachesDevice ==
  \A c \in 1..MaxCursor : delivery.cursor = c ~> client.cursor >= c

===============================================================================
