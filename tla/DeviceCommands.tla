---------------------------- MODULE DeviceCommands ----------------------------
(***************************************************************************)
(* Manual RGB commands for one physical device, from the administrator to  *)
(* the lamp and back: the cloud rows, the copy the Android gateway keeps   *)
(* in Room, and the outbox that carries the reports of the ESP back.       *)
(*                                                                         *)
(* Every cloud operation locks the device row before it looks at a         *)
(* command, so each is one action; one that is refused is rolled back,     *)
(* with the expiry it had written, and is no step.  On the phone a poll    *)
(* and a report are each one Room transaction.  In between are messages: a *)
(* page of commands can be old when it is stored, and a report is posted   *)
(* again until its acceptance has arrived.                                 *)
(***************************************************************************)
EXTENDS Naturals, Sequences, SequencesExt

CONSTANTS
  MaxCommands,  \* bound on the commands of the device
  DrainLimit,   \* reports one drain of the outbox reads
  EspEvents,    \* the reports this ESP makes
  Faults        \* "page": a page is lost before it is stored;
                \* "answer": the acceptance of a report is lost;
                \* "commit": a report is accepted, its commit fails

VARIABLES
  created,   \* commands are numbered by queued_at
  cloud,     \* rgb_device_commands.status
  overdue,   \* commands past their expires_at
  accepted,  \* rgb_device_command_events stored for a report
  sequence,  \* a real RGB sequence of the device is READY, RECEIVED or PLAYING
  page,      \* the answer to a poll the phone has not stored yet
  cursor,    \* rgb_command_cursors.cursor: the newest command polled
  phone,     \* pending_rgb_commands.status
  recorded,  \* reports in rgb_event_outbox
  outbox     \* those of them with no sentAt, by createdAt

vars == <<created, cloud, overdue, accepted, sequence, page, cursor, phone,
          recorded, outbox>>

Events == {"FORWARDED", "RECEIVED", "APPLIED", "OFF", "FAILED", "EXPIRED", "CANCELLED"}

ASSUME DeviceCommandsAssumption ==
  /\ MaxCommands \in Nat
  /\ DrainLimit \in Nat
  /\ EspEvents \subseteq Events
  /\ Faults \subseteq {"page", "answer", "commit"}

Ids == 1..MaxCommands
Active == {"QUEUED", "FORWARDED", "RECEIVED", "APPLIED"}
Locking == Active \cup {"CANCELLED"}
Over == {"OFF", "FAILED", "EXPIRED"}
Statuses == Locking \cup Over
Report == Ids \X Events

NoStatus == [c \in Ids |-> "ABSENT"]
NoPage == [open |-> FALSE, cursor |-> 0, status |-> NoStatus]

-------------------------------------------------------------------------------

(* The statuses _expire_overdue leaves.                                    *)
Expired ==
  [c \in Ids |-> IF c \in overdue /\ cloud[c] \in Active THEN "EXPIRED" ELSE cloud[c]]

(* The statuses a command may have when the cloud takes a report of it.    *)
NextFrom ==
  [FORWARDED |-> {"QUEUED", "FORWARDED"},
   RECEIVED  |-> {"FORWARDED", "RECEIVED"},
   APPLIED   |-> {"RECEIVED", "APPLIED"},
   OFF       |-> {"APPLIED", "CANCELLED", "OFF"},
   FAILED    |-> Active,
   EXPIRED   |-> Active,
   CANCELLED |-> Active \cup {"CANCELLED"}]

(* Mutant: the phone takes nothing for a command that came in cancelled.   *)
LocalNextNoOff ==
  [QUEUED    |-> {"FORWARDED", "RECEIVED", "FAILED", "CANCELLED", "EXPIRED"},
   FORWARDED |-> {"RECEIVED", "APPLIED", "FAILED", "CANCELLED", "EXPIRED"},
   RECEIVED  |-> {"APPLIED", "FAILED", "CANCELLED", "EXPIRED"},
   APPLIED   |-> {"OFF", "FAILED"},
   CANCELLED |-> {}]

(* isAllowedTransition of the phone.  It knows steps the cloud does not,   *)
(* as from QUEUED to RECEIVED.                                             *)
LocalNext ==
  [QUEUED    |-> {"FORWARDED", "RECEIVED", "FAILED", "CANCELLED", "EXPIRED"},
   FORWARDED |-> {"RECEIVED", "APPLIED", "FAILED", "CANCELLED", "EXPIRED"},
   RECEIVED  |-> {"APPLIED", "FAILED", "CANCELLED", "EXPIRED"},
   APPLIED   |-> {"OFF", "FAILED"},
   CANCELLED |-> {"OFF"}]

(* The command localRgbCommand shows the ESP: the oldest that is not over. *)
Served(c) ==
  /\ phone[c] \in Locking
  /\ \A d \in Ids : phone[d] \in Locking => c <= d

-------------------------------------------------------------------------------

Init ==
  /\ created = 0
  /\ cloud = NoStatus
  /\ overdue = {}
  /\ accepted = {}
  /\ sequence = FALSE
  /\ page = NoPage
  /\ cursor = 0
  /\ phone = NoStatus
  /\ recorded = {}
  /\ outbox = <<>>

(* Mutant: a command that is being stopped no longer counts.               *)
CreateBesideStop ==
  /\ created < MaxCommands
  /\ ~sequence
  /\ \A c \in Ids : Expired[c] \notin Active
  /\ created' = created + 1
  /\ cloud' = [Expired EXCEPT ![created + 1] = "QUEUED"]
  /\ UNCHANGED <<overdue, accepted, sequence, page, cursor, phone, recorded, outbox>>

CreateCommand ==
  /\ created < MaxCommands
  /\ ~sequence
  /\ \A c \in Ids : Expired[c] \notin Locking
  /\ created' = created + 1
  /\ cloud' = [Expired EXCEPT ![created + 1] = "QUEUED"]
  /\ UNCHANGED <<overdue, accepted, sequence, page, cursor, phone, recorded, outbox>>

(* The administrator reads a command.                                      *)
ReadCommand ==
  /\ created > 0
  /\ cloud' = Expired
  /\ UNCHANGED <<created, overdue, accepted, sequence, page, cursor, phone, recorded,
                 outbox>>

(* Mutant: a stop is taken for its effect.                                 *)
StopIsOff(c) ==
  /\ cloud[c] # "ABSENT"
  /\ cloud' = IF Expired[c] \in Active THEN [Expired EXCEPT ![c] = "OFF"] ELSE Expired
  /\ UNCHANGED <<created, overdue, accepted, sequence, page, cursor, phone, recorded,
                 outbox>>

(* The administrator stops a command.                                      *)
StopCommand(c) ==
  /\ cloud[c] # "ABSENT"
  /\ cloud' = IF Expired[c] \in Active THEN [Expired EXCEPT ![c] = "CANCELLED"]
              ELSE Expired
  /\ UNCHANGED <<created, overdue, accepted, sequence, page, cursor, phone, recorded,
                 outbox>>

BecomeOverdue(c) ==
  /\ cloud[c] \in Active /\ c \notin overdue
  /\ overdue' = overdue \cup {c}
  /\ UNCHANGED <<created, cloud, accepted, sequence, page, cursor, phone, recorded,
                 outbox>>

(* A revision is published for the device, or the last open one is closed. *)
SequenceChanges ==
  /\ sequence' = ~sequence
  /\ UNCHANGED <<created, cloud, overdue, accepted, page, cursor, phone, recorded, outbox>>

-------------------------------------------------------------------------------
(* Commands to the phone.                                                  *)

(* list_gateway_commands: the cursor is a millisecond, so a command queued *)
(* later within the millisecond of the cursor is listed again.  A poll     *)
(* does not expire.                                                        *)
PollCommands ==
  /\ ~page.open
  /\ \E first \in {cursor, cursor + 1} :
       LET listed == {c \in Ids : c >= first /\ cloud[c] \in Locking}
       IN  page' = [open |-> TRUE,
                    status |-> [c \in Ids |-> IF c \in listed THEN cloud[c] ELSE "ABSENT"],
                    cursor |-> CHOOSE n \in listed \cup {cursor} :
                                 \A c \in listed \cup {cursor} : c <= n]
  /\ UNCHANGED <<created, cloud, overdue, accepted, sequence, cursor, phone, recorded,
                 outbox>>

(* Mutant: the cursor is taken when the page is stored.                    *)
PersistAtCreated ==
  /\ page.open
  /\ phone' = [c \in Ids |-> IF phone[c] = "ABSENT" THEN page.status[c] ELSE phone[c]]
  /\ cursor' = created
  /\ page' = NoPage
  /\ UNCHANGED <<created, cloud, overdue, accepted, sequence, recorded, outbox>>

(* Commands the phone already has are ignored, whatever their new status.  *)
PersistPage ==
  /\ page.open
  /\ phone' = [c \in Ids |-> IF phone[c] = "ABSENT" THEN page.status[c] ELSE phone[c]]
  /\ cursor' = page.cursor
  /\ page' = NoPage
  /\ UNCHANGED <<created, cloud, overdue, accepted, sequence, recorded, outbox>>

LosePage ==
  /\ "page" \in Faults
  /\ page.open
  /\ page' = NoPage
  /\ UNCHANGED <<created, cloud, overdue, accepted, sequence, cursor, phone, recorded,
                 outbox>>

-------------------------------------------------------------------------------
(* Reports to the cloud.                                                   *)

(* The ESP reports on the command it was shown.  The key of a report is    *)
(* made of the command and the event, so one made before changes nothing.  *)
RecordLocalEvent(c, e) ==
  /\ e \in EspEvents
  /\ Served(c)
  /\ <<c, e>> \notin recorded
  /\ e \in LocalNext[phone[c]]
  /\ recorded' = recorded \cup {<<c, e>>}
  /\ outbox' = Append(outbox, <<c, e>>)
  /\ phone' = [phone EXCEPT ![c] = e]
  /\ UNCHANGED <<created, cloud, overdue, accepted, sequence, page, cursor>>

(* record_event: a report the cloud has stored before is accepted again;   *)
(* another is stored if it may follow the status of the command.           *)
Repeated(r) == r \in accepted
Follows(r) == ~Repeated(r) /\ Expired[r[1]] \in NextFrom[r[2]]

RecordEvent(r) ==
  \/ /\ Repeated(r)
     /\ cloud' = Expired
     /\ UNCHANGED accepted
  \/ /\ Follows(r)
     /\ cloud' = [Expired EXCEPT ![r[1]] = r[2]]
     /\ accepted' = accepted \cup {r}

(* Mutant: a report that is refused is dropped as well.                    *)
DrainRefused(i) ==
  /\ i <= DrainLimit
  /\ \/ RecordEvent(outbox[i])
     \/ /\ ~Repeated(outbox[i]) /\ ~Follows(outbox[i])
        /\ UNCHANGED <<cloud, accepted>>
  /\ outbox' = RemoveAt(outbox, i)
  /\ UNCHANGED <<created, overdue, sequence, page, cursor, phone, recorded>>

(* A drain posts the oldest reports one after the other and goes on after  *)
(* one that fails, so each of them may be the next that succeeds.  One the *)
(* cloud refuses stays where it is.                                        *)
DrainEvent(i) ==
  /\ i <= DrainLimit
  /\ \/ /\ RecordEvent(outbox[i])
        /\ outbox' = RemoveAt(outbox, i)
     \/ /\ "answer" \in Faults
        /\ RecordEvent(outbox[i])
        /\ UNCHANGED outbox
     \/ /\ "commit" \in Faults
        /\ Repeated(outbox[i]) \/ Follows(outbox[i])
        /\ outbox' = RemoveAt(outbox, i)
        /\ UNCHANGED <<cloud, accepted>>
  /\ UNCHANGED <<created, overdue, sequence, page, cursor, phone, recorded>>

Next ==
  \/ CreateCommand
  \/ ReadCommand
  \/ \E c \in Ids : StopCommand(c) \/ BecomeOverdue(c)
  \/ SequenceChanges
  \/ PollCommands
  \/ PersistPage
  \/ LosePage
  \/ \E c \in Ids, e \in Events : RecordLocalEvent(c, e)
  \/ \E i \in 1..Len(outbox) : DrainEvent(i)

Spec == Init /\ [][Next]_vars

(* Time passes, the bridge service polls and drains every 5 s, and an ESP  *)
(* goes on with the command it is shown.  The choice among the reports it  *)
(* could make is its own; a drain tries every report it reads.             *)
FairSpec ==
  /\ Spec
  /\ WF_vars(PollCommands)
  /\ WF_vars(PersistPage)
  /\ \A c \in Ids :
       /\ WF_vars(BecomeOverdue(c))
       /\ WF_vars(\E e \in Events : RecordLocalEvent(c, e))
  /\ \A r \in Ids \X EspEvents :
       SF_vars(\E i \in 1..Len(outbox) : outbox[i] = r /\ DrainEvent(i))

-------------------------------------------------------------------------------
(* Properties *)

TypeOK ==
  /\ created \in 0..MaxCommands
  /\ cloud \in [Ids -> Statuses \cup {"ABSENT"}]
  /\ overdue \subseteq Ids
  /\ accepted \subseteq Report
  /\ sequence \in BOOLEAN
  /\ page \in [open : BOOLEAN, cursor : 0..MaxCommands,
               status : [Ids -> Locking \cup {"ABSENT"}]]
  /\ cursor \in 0..MaxCommands
  /\ phone \in [Ids -> Statuses \cup {"ABSENT"}]
  /\ recorded \subseteq Report
  /\ outbox \in Seq(Report)

Pending == {outbox[i] : i \in 1..Len(outbox)}

(* Mutual exclusion of manual tests: while one is on its way, or is being  *)
(* stopped and not yet off, the device has no other.                       *)
OneCommand ==
  \A c, d \in Ids : cloud[c] \in Locking /\ cloud[d] \in Locking => c = d

(* Physical proof: the cloud says a command was received, applied or off   *)
(* only when the ESP has reported it, and off only when it still is.       *)
PhysicalProof ==
  \A c \in Ids :
    /\ cloud[c] \in {"FORWARDED", "RECEIVED", "APPLIED", "OFF"} => <<c, cloud[c]>> \in recorded
    /\ cloud[c] = "OFF" => phone[c] = "OFF"

(* The outbox forgets a report only when the cloud has it.                 *)
SentIsKnown == recorded \ Pending \subseteq accepted

(* The cursor never passes a command the phone has not stored and the      *)
(* device is still waiting for: such a command would never be listed again.*)
CursorCoversCommands ==
  \A c \in Ids : c <= cursor /\ cloud[c] \in Locking => phone[c] # "ABSENT"

(* Late, repeated and reordered reports, and stops that cross them, do not *)
(* bring back a command that is over.                                      *)
OverIsFinal ==
  [][\A c \in Ids : cloud[c] \in Over => cloud'[c] = cloud[c]]_vars

(* The device does not stay locked: the command that occupies it ends, or  *)
(* is overdue and will be ended by the next request.                       *)
DeviceFreed ==
  \A c \in Ids : cloud[c] \in Locking ~> Expired[c] \notin Locking

(* The rows of the cloud are leases of the device: whatever is lost,       *)
(* repeated, late or expired, a command is created only when no other      *)
(* holds the device, it moves by one step on one report the ESP has made,  *)
(* and a stop ends only in a lamp that is off.                             *)
Lease == INSTANCE CommandLease WITH MaxLeases <- MaxCommands, lease <- cloud, reported <- recorded
KeepsLease == Lease!LeaseSpec

===============================================================================
