------------------------ MODULE ResultDelivery_proofs ------------------------
(***************************************************************************)
(* Proofs about ResultDelivery for every number of revisions, every set of *)
(* contents and keys and every bound.                                      *)
(*                                                                         *)
(* The safety properties are not inductive one by one: that a cursor names *)
(* one result needs that the announced revision is alive, which needs that *)
(* only the newest revision is open and that revisions are numbered        *)
(* densely.  Inv is their conjunction.                                     *)
(***************************************************************************)
EXTENDS ResultDelivery, TLAPS

(* Revision numbers are dense: exactly 1..latest have a row.               *)
Dense == \A r \in Revisions : r <= latest <=> seq[r] \in Sequence

(* The device has never seen a cursor the server has not reached.          *)
ClientBehind == client.cursor <= delivery.cursor

Inv ==
  /\ TypeOK
  /\ Dense
  /\ ReadyIsServed
  /\ OnlyLatestOpen
  /\ ClientBehind
  /\ CurrentClientIsRight

-------------------------------------------------------------------------------

(* get_or_create_delivery shows what it was asked to show, and moves the   *)
(* cursor exactly when a visible column changes.                           *)
LEMMA AdvanceRow ==
  ASSUME NEW d \in DeliveryRow, NEW c \in Commands,
         NEW a \in 0..MaxRevision, NEW why \in Reasons
  PROVE  /\ Advance(d, c, a, why) \in DeliveryRow
         /\ Advance(d, c, a, why).command = c
         /\ Advance(d, c, a, why).active = a
         /\ Advance(d, c, a, why).cursor >= d.cursor
         /\ Advance(d, c, a, why).cursor = d.cursor => Advance(d, c, a, why) = d
<1> DEFINE new == [d EXCEPT !.command = c, !.active = a, !.reason = why]
<1>1. new \in DeliveryRow
  BY DEF DeliveryRow
<1>2. /\ new.command = c
      /\ new.active = a
      /\ new.cursor = d.cursor
  BY DEF DeliveryRow
<1> HIDE DEF new
<1>3. CASE new = d
  <2>1. Advance(d, c, a, why) = d
    BY <1>3 DEF Advance, new
  <2>2. d.cursor \in Nat
    BY DEF DeliveryRow
  <2> QED
    BY <2>1, <2>2, <1>2, <1>3
<1>4. CASE new # d
  <2> DEFINE moved == [new EXCEPT !.cursor = d.cursor + 1]
  <2>1. Advance(d, c, a, why) = moved
    BY <1>4 DEF Advance, new
  <2>2. d.cursor \in Nat
    BY DEF DeliveryRow
  <2>3. /\ moved \in DeliveryRow
        /\ moved.command = new.command
        /\ moved.active = new.active
        /\ moved.cursor = d.cursor + 1
    BY <1>1, <2>2 DEF DeliveryRow
  <2> HIDE DEF moved
  <2> QED
    BY <2>1, <2>2, <2>3, <1>2
<1> QED
  BY <1>3, <1>4

LEMMA ReopenedRow ==
  ASSUME NEW d \in DeliveryRow
  PROVE  /\ Reopened(d) \in DeliveryRow
         /\ Reopened(d).cursor >= d.cursor
         /\ Reopened(d).cursor = d.cursor => Reopened(d) = d
<1>1. /\ "RESULT_PROCESSING" \in Commands
      /\ NoRevision \in 0..MaxRevision
      /\ "none" \in Reasons
      /\ d.cursor \in Nat
  BY BoundAssumption DEF Commands, NoRevision, Reasons, DeliveryRow
<1>2. CASE d.command = "RGB_SEQUENCE_READY"
  BY <1>1, <1>2 DEF Reopened
<1>3. CASE d.command # "RGB_SEQUENCE_READY"
  BY <1>1, <1>3, AdvanceRow DEF Reopened
<1> QED
  BY <1>2, <1>3

(* A delivery that only announces live revisions is shown as it is.        *)
LEMMA SnapshotOfLive ==
  ReadyIsServed => Snapshot = [cursor |-> delivery.cursor, command |-> delivery.command,
                               rev |-> delivery.active]
BY DEF ReadyIsServed, Snapshot, NoRevision

-------------------------------------------------------------------------------

(* A step that moves the delivery row as get_or_create_delivery does, and  *)
(* leaves it announcing a live revision or none, keeps every cursor a      *)
(* device holds truthful.                                                  *)
LEMMA ClientKept ==
  ASSUME Inv, ReadyIsServed', client' = client,
         delivery' \in DeliveryRow,
         delivery'.cursor >= delivery.cursor,
         delivery'.cursor = delivery.cursor => delivery' = delivery
  PROVE  ClientBehind' /\ CurrentClientIsRight'
<1>1. /\ client.cursor \in Nat
      /\ delivery.cursor \in Nat
      /\ delivery'.cursor \in Nat
      /\ client.cursor <= delivery.cursor
  BY DEF Inv, TypeOK, Result, DeliveryRow, ClientBehind
<1>2. ClientBehind'
  BY <1>1 DEF ClientBehind
<1>3. CurrentClientIsRight'
  <2> SUFFICES ASSUME client.cursor = delivery'.cursor, client.cursor > 0
               PROVE  client = Snapshot'
    BY DEF CurrentClientIsRight
  <2>1. delivery'.cursor = delivery.cursor /\ delivery' = delivery
    BY <1>1
  <2>2. client = Snapshot
    BY <2>1 DEF Inv, CurrentClientIsRight
  <2>3. Snapshot = [cursor |-> delivery.cursor, command |-> delivery.command,
                    rev |-> delivery.active]
    BY SnapshotOfLive DEF Inv
  <2>4. Snapshot' = [cursor |-> delivery'.cursor, command |-> delivery'.command,
                     rev |-> delivery'.active]
    BY DEF ReadyIsServed, Snapshot, NoRevision
  <2> QED
    BY <2>1, <2>2, <2>3, <2>4
<1> QED
  BY <1>2, <1>3

(* A step that only moves the delivery row keeps the invariant.            *)
LEMMA DeliveryStep ==
  ASSUME Inv, UNCHANGED <<latest, seq, log, client>>,
         cancelled' \in BOOLEAN, debug' \in {"idle", "live", "cancelled"},
         NEW d \in DeliveryRow, SetDelivery(d),
         d.cursor >= delivery.cursor,
         d.cursor = delivery.cursor => d = delivery,
         d.command = "RGB_SEQUENCE_READY" <=> d.active # NoRevision,
         d.active # NoRevision =>
           d.active <= latest /\ seq[d.active].status \notin Dead
  PROVE  Inv'
<1>1. TypeOK' /\ Dense' /\ OnlyLatestOpen'
  BY DEF Inv, TypeOK, Dense, OnlyLatestOpen, SetDelivery
<1>2. ReadyIsServed'
  BY DEF ReadyIsServed, SetDelivery
<1>3. ClientBehind' /\ CurrentClientIsRight'
  BY <1>2, ClientKept DEF SetDelivery
<1> QED
  BY <1>1, <1>2, <1>3 DEF Inv

(* Showing anything but a sequence is such a step.                         *)
LEMMA WithdrawStep ==
  ASSUME Inv, UNCHANGED <<latest, seq, log, client>>,
         cancelled' \in BOOLEAN, debug' \in {"idle", "live", "cancelled"},
         NEW d \in {delivery, Reopened(delivery)},
         NEW c \in Commands \ {"RGB_SEQUENCE_READY"}, NEW why \in Reasons,
         SetDelivery(Advance(d, c, NoRevision, why))
  PROVE  Inv'
<1>1. delivery \in DeliveryRow
  BY DEF Inv, TypeOK
<1>2. /\ d \in DeliveryRow
      /\ d.cursor >= delivery.cursor
      /\ d.cursor = delivery.cursor => d = delivery
      /\ d.cursor \in Nat /\ delivery.cursor \in Nat
  BY <1>1, ReopenedRow DEF DeliveryRow
<1>3. NoRevision \in 0..MaxRevision
  BY BoundAssumption DEF NoRevision
<1> DEFINE new == Advance(d, c, NoRevision, why)
<1>4. /\ new \in DeliveryRow
      /\ new.command = c
      /\ new.active = NoRevision
      /\ new.cursor >= d.cursor
      /\ new.cursor = d.cursor => new = d
  BY <1>2, <1>3, AdvanceRow
<1>5. new.cursor \in Nat
  BY <1>4 DEF DeliveryRow
<1>6. SetDelivery(new)
  OBVIOUS
<1> HIDE DEF new
<1>7. /\ new.cursor >= delivery.cursor
      /\ new.cursor = delivery.cursor => new = delivery
  BY <1>2, <1>4, <1>5
<1> QED
  BY <1>4, <1>6, <1>7, DeliveryStep

-------------------------------------------------------------------------------

LEMMA InitInv == Init => Inv
<1> SUFFICES ASSUME Init PROVE Inv
  OBVIOUS
<1>1. NoSequence \notin Sequence
  BY DEF NoSequence, Sequence, Statuses, Open, Dead
<1>2. TypeOK
  <2>1. /\ seq \in [Revisions -> Sequence \cup {NoSequence}]
        /\ log \subseteq Event
    BY DEF Init
  <2>2. latest \in 0..MaxRevision
    BY BoundAssumption DEF Init
  <2>3. /\ cancelled \in BOOLEAN
        /\ debug \in {"idle", "live", "cancelled"}
    BY DEF Init
  <2>4. delivery \in DeliveryRow /\ delivery.cursor <= MaxCursor
    BY BoundAssumption DEF Init, DeliveryRow, NoRevision, Reasons
  <2>5. client \in Result
    BY BoundAssumption DEF Init, Result, NoRevision
  <2> QED
    BY <2>1, <2>2, <2>3, <2>4, <2>5 DEF TypeOK
<1>3. Dense
  BY <1>1 DEF Init, Dense, Revisions
<1>4. ReadyIsServed
  BY DEF Init, ReadyIsServed, NoRevision
<1>5. OnlyLatestOpen
  BY DEF Init, OnlyLatestOpen, Open, NoSequence
<1>6. ClientBehind /\ CurrentClientIsRight
  BY DEF Init, ClientBehind, CurrentClientIsRight
<1> QED
  BY <1>2, <1>3, <1>4, <1>5, <1>6 DEF Inv

LEMMA MarkInv == Inv /\ MarkProcessing => Inv'
<1> SUFFICES ASSUME Inv, MarkProcessing PROVE Inv'
  OBVIOUS
<1>1. /\ UNCHANGED <<latest, seq, log, client>>
      /\ cancelled' \in BOOLEAN
      /\ debug' \in {"idle", "live", "cancelled"}
  BY DEF MarkProcessing, Inv, TypeOK
<1>2. /\ {"RESULT_CANCELLED", "RESULT_PROCESSING"} \subseteq Commands \ {"RGB_SEQUENCE_READY"}
      /\ {"CANCELLED", "none"} \subseteq Reasons
  BY DEF Commands, Reasons
<1>3. \/ SetDelivery(Advance(delivery, "RESULT_CANCELLED", NoRevision, "CANCELLED"))
      \/ SetDelivery(Advance(delivery, "RESULT_PROCESSING", NoRevision, "none"))
  BY DEF MarkProcessing
<1> QED
  BY <1>1, <1>2, <1>3, WithdrawStep

LEMMA CancelInv == Inv /\ Cancel => Inv'
<1> SUFFICES ASSUME Inv, Cancel PROVE Inv'
  OBVIOUS
<1>1. /\ UNCHANGED <<latest, seq, log, client>>
      /\ cancelled' \in BOOLEAN
      /\ debug' \in {"idle", "live", "cancelled"}
      /\ SetDelivery(Advance(delivery, "RESULT_CANCELLED", NoRevision, "ADMIN_CANCELLED"))
  BY DEF Cancel, Inv, TypeOK
<1>2. /\ "RESULT_CANCELLED" \in Commands \ {"RGB_SEQUENCE_READY"}
      /\ "ADMIN_CANCELLED" \in Reasons
  BY DEF Commands, Reasons
<1> QED
  BY <1>1, <1>2, WithdrawStep

(* Publication of a revision that is reused, or of a new one.              *)
LEMMA ReuseInv ==
  ASSUME Inv, NEW answers \in Contents \cup {Incomplete}, PublishReuse(answers),
         UNCHANGED <<log, client>>, cancelled' \in BOOLEAN,
         debug' \in {"idle", "live", "cancelled"}
  PROVE  Inv'
<1>1. PICK r \in Reusable(answers) :
        SetDelivery(Advance(Reopened(delivery), "RGB_SEQUENCE_READY", r, "none"))
  BY DEF PublishReuse
<1>2. UNCHANGED <<latest, seq>>
  BY DEF PublishReuse
<1>3. /\ r \in 1..latest
      /\ seq[r].status \notin Dead
      /\ latest \in 0..MaxRevision
      /\ r \in 0..MaxRevision
      /\ r # NoRevision
  BY BoundAssumption DEF Reusable, Inv, TypeOK, NoRevision
<1>4. delivery \in DeliveryRow
  BY DEF Inv, TypeOK
<1> DEFINE d == Reopened(delivery)
           new == Advance(d, "RGB_SEQUENCE_READY", r, "none")
<1>5. /\ d \in DeliveryRow
      /\ d.cursor >= delivery.cursor
      /\ d.cursor = delivery.cursor => d = delivery
  BY <1>4, ReopenedRow
<1>6. "RGB_SEQUENCE_READY" \in Commands /\ "none" \in Reasons
  BY DEF Commands, Reasons
<1> HIDE DEF d
<1>7. /\ new \in DeliveryRow
      /\ new.command = "RGB_SEQUENCE_READY"
      /\ new.active = r
      /\ new.cursor >= d.cursor
      /\ new.cursor = d.cursor => new = d
  BY <1>3, <1>5, <1>6, AdvanceRow
<1>8. SetDelivery(new)
  BY <1>1 DEF d
<1> HIDE DEF new
<1>9. /\ new.cursor >= delivery.cursor
      /\ new.cursor = delivery.cursor => new = delivery
  BY <1>4, <1>5, <1>7 DEF DeliveryRow
<1> QED
  BY <1>2, <1>3, <1>7, <1>8, <1>9, DeliveryStep

LEMMA NewInv ==
  ASSUME Inv, NEW answers \in Contents \cup {Incomplete}, PublishNew(answers),
         UNCHANGED <<log, client>>, cancelled' \in BOOLEAN,
         debug' \in {"idle", "live", "cancelled"}
  PROVE  Inv'
<1> DEFINE n == latest + 1
           fresh == [status |-> "READY", content |-> answers, next |-> 0]
           d == Reopened(delivery)
           new == Advance(d, "RGB_SEQUENCE_READY", n, "none")
<1>1. /\ latest \in 0..MaxRevision
      /\ latest' = n
      /\ n \in Revisions /\ n \in 0..MaxRevision /\ n # NoRevision
  BY BoundAssumption DEF PublishNew, Inv, TypeOK, Revisions, NoRevision
<1>2. fresh \in Sequence /\ fresh.status = "READY"
  BY BoundAssumption DEF PublishNew, Sequence, Statuses, Open
<1>3. \A r \in Revisions :
        seq'[r] = IF r = n THEN fresh
                  ELSE IF r = latest /\ seq[r].status \in Open
                       THEN [seq[r] EXCEPT !.status = "SUPERSEDED"]
                       ELSE seq[r]
  BY DEF PublishNew
<1>4. seq \in [Revisions -> Sequence \cup {NoSequence}] /\ Dense
  BY DEF Inv, TypeOK
<1>5. \A r \in Revisions : seq[r].status \in Open => seq[r] \in Sequence
  BY <1>4 DEF NoSequence, Open
<1>6. \A s \in Sequence : [s EXCEPT !.status = "SUPERSEDED"] \in Sequence
  BY DEF Sequence, Statuses, Dead
<1>7. \A s \in Sequence : [s EXCEPT !.status = "SUPERSEDED"].status = "SUPERSEDED"
  BY DEF Sequence
<1> HIDE DEF fresh, n
<1>8. \A r \in Revisions :
        /\ seq'[r] \in Sequence \cup {NoSequence}
        /\ seq'[r] \in Sequence <=> seq[r] \in Sequence \/ r = n
  BY <1>2, <1>3, <1>4, <1>5, <1>6
<1>9. seq' \in [Revisions -> Sequence \cup {NoSequence}]
  <2>1. seq' = [r \in Revisions |-> seq'[r]]
    BY DEF PublishNew
  <2> QED
    BY <2>1, <1>8
<1>10. Dense'
  BY <1>1, <1>4, <1>8 DEF Dense, Revisions, n
<1>11. \A r \in Revisions : seq'[r].status \in Open => r = n
  <2> SUFFICES ASSUME NEW r \in Revisions, r # n, seq'[r].status \in Open PROVE FALSE
    OBVIOUS
  <2>1. CASE seq[r].status \in Open
    <3>1. r = latest
      BY <2>1 DEF Inv, OnlyLatestOpen
    <3>2. seq'[r].status = "SUPERSEDED"
      BY <2>1, <3>1, <1>3, <1>5, <1>7
    <3> QED
      BY <3>2 DEF Open
  <2>2. CASE seq[r].status \notin Open
    BY <2>2, <1>3
  <2> QED
    BY <2>1, <2>2
<1>12. seq'[n].status = "READY"
  BY <1>1, <1>2, <1>3
<1>13. delivery \in DeliveryRow /\ d \in DeliveryRow
  BY ReopenedRow DEF Inv, TypeOK
<1>14. /\ d.cursor >= delivery.cursor
       /\ d.cursor = delivery.cursor => d = delivery
  BY <1>13, ReopenedRow
<1>15. "RGB_SEQUENCE_READY" \in Commands /\ "none" \in Reasons
  BY DEF Commands, Reasons
<1>16. SetDelivery(new)
  BY DEF PublishNew, n
<1> HIDE DEF d
<1>17. /\ new \in DeliveryRow
       /\ new.command = "RGB_SEQUENCE_READY"
       /\ new.active = n
       /\ new.cursor >= d.cursor
       /\ new.cursor = d.cursor => new = d
  BY <1>1, <1>13, <1>15, AdvanceRow
<1> HIDE DEF new
<1>18. /\ new.cursor >= delivery.cursor
       /\ new.cursor = delivery.cursor => new = delivery
  BY <1>13, <1>14, <1>17 DEF DeliveryRow
<1>19. TypeOK'
  BY <1>1, <1>9, <1>16, <1>17 DEF Inv, TypeOK, SetDelivery
<1>20. ReadyIsServed'
  BY <1>1, <1>12, <1>16, <1>17 DEF ReadyIsServed, SetDelivery, Dead
<1>21. OnlyLatestOpen'
  BY <1>1, <1>11 DEF OnlyLatestOpen
<1>22. ClientBehind' /\ CurrentClientIsRight'
  BY <1>16, <1>17, <1>18, <1>20, ClientKept DEF SetDelivery
<1> QED
  BY <1>10, <1>19, <1>20, <1>21, <1>22 DEF Inv

LEMMA PublishInv ==
  ASSUME Inv, NEW saw \in BOOLEAN, Publish(saw), debug' \in {"idle", "live", "cancelled"}
  PROVE  Inv'
<1>1. UNCHANGED <<log, client>> /\ cancelled' \in BOOLEAN
  BY DEF Publish, Inv, TypeOK
<1>2. /\ "RESULT_CANCELLED" \in Commands \ {"RGB_SEQUENCE_READY"}
      /\ {"SESSION_CANCELLED", "RGB_RESULTS_DISABLED", "RGB_SEQUENCE_INCOMPLETE"}
           \subseteq Reasons
  BY DEF Commands, Reasons
<1>3. CASE PublishCancelled
  BY <1>1, <1>2, <1>3, WithdrawStep DEF PublishCancelled
<1>4. CASE PublishDisabled
  BY <1>1, <1>2, <1>4, WithdrawStep DEF PublishDisabled
<1>5. ASSUME NEW answers \in Contents \cup {Incomplete}, PublishRefused(answers)
      PROVE  Inv'
  BY <1>1, <1>2, <1>5, WithdrawStep DEF PublishRefused
<1>6. ASSUME NEW answers \in Contents \cup {Incomplete}, PublishReuse(answers)
      PROVE  Inv'
  BY <1>1, <1>6, ReuseInv
<1>7. ASSUME NEW answers \in Contents \cup {Incomplete}, PublishNew(answers)
      PROVE  Inv'
  BY <1>1, <1>7, NewInv
<1> QED
  BY <1>3, <1>4, <1>5, <1>6, <1>7 DEF Publish

(* An accepted event closes or advances its own revision only, and takes   *)
(* the announcement away when it declares the revision invalid.            *)
LEMMA EventInv ==
  ASSUME Inv, NEW e \in Event, RecordEvent(e)
  PROVE  Inv'
<1>1. /\ e.rev \in 1..latest
      /\ e.rev \in Revisions
      /\ e.event \in EventNames
      /\ e.next \in 0..ItemCount
      /\ seq[e.rev].status \notin Dead
      /\ seq[e.rev].status = "COMPLETED" => e.event = "COMPLETED"
      /\ latest \in 0..MaxRevision
  BY DEF RecordEvent, Acceptable, Event, Inv, TypeOK
<1>2. /\ seq \in [Revisions -> Sequence \cup {NoSequence}]
      /\ seq[e.rev] \in Sequence
  BY <1>1 DEF Inv, TypeOK, Dense
<1>3. StatusAfter(e.event) \in Statuses
  BY <1>1 DEF StatusAfter, EventNames, Statuses, Open, Dead
<1> DEFINE row == [seq[e.rev] EXCEPT !.status = StatusAfter(e.event), !.next = e.next]
<1>4. row \in Sequence /\ row.status = StatusAfter(e.event)
  BY <1>1, <1>2, <1>3 DEF Sequence
<1>5. seq' = [seq EXCEPT ![e.rev] = row]
  BY <1>1, <1>2 DEF RecordEvent
<1> HIDE DEF row
<1>6. /\ seq' \in [Revisions -> Sequence \cup {NoSequence}]
      /\ seq'[e.rev] = row
      /\ \A r \in Revisions \ {e.rev} : seq'[r] = seq[r]
  BY <1>1, <1>2, <1>4, <1>5
<1>7. UNCHANGED <<cancelled, latest, client, debug>> /\ log' \subseteq Event
  BY DEF RecordEvent, Inv, TypeOK
<1>8. Dense'
  BY <1>1, <1>2, <1>4, <1>6, <1>7 DEF Inv, Dense
<1>9. OnlyLatestOpen'
  <2> SUFFICES ASSUME NEW r \in Revisions, seq'[r].status \in Open PROVE r = latest
    BY <1>7 DEF OnlyLatestOpen
  <2>1. CASE r # e.rev
    BY <2>1, <1>6 DEF Inv, OnlyLatestOpen
  <2>2. CASE r = e.rev
    <3>1. e.event \in {"RECEIVED", "STARTED", "RESUMED"}
      BY <2>2, <1>1, <1>4, <1>6 DEF StatusAfter, Open, EventNames
    <3>2. seq[r].status \in Open
      BY <3>1, <2>2, <1>1, <1>2 DEF Sequence, Statuses
    <3> QED
      BY <3>2 DEF Inv, OnlyLatestOpen
  <2> QED
    BY <2>1, <2>2
<1>10. /\ delivery \in DeliveryRow
       /\ delivery.cursor \in Nat
       /\ NoRevision \in 0..MaxRevision
  BY BoundAssumption DEF Inv, TypeOK, DeliveryRow, NoRevision
<1>11. /\ delivery' \in DeliveryRow
       /\ delivery'.cursor <= MaxCursor
       /\ delivery'.cursor >= delivery.cursor
       /\ delivery'.cursor = delivery.cursor => delivery' = delivery
       /\ ReadyIsServed'
  <2>1. CASE e.event = "INVALID"
    <3> DEFINE new == Advance(delivery, "RESULT_CANCELLED", NoRevision,
                              "RGB_SEQUENCE_INVALID_REPORTED_BY_DEVICE")
    <3>1. /\ "RESULT_CANCELLED" \in Commands
          /\ "RGB_SEQUENCE_INVALID_REPORTED_BY_DEVICE" \in Reasons
      BY DEF Commands, Reasons
    <3>2. /\ new \in DeliveryRow
          /\ new.command = "RESULT_CANCELLED"
          /\ new.active = NoRevision
          /\ new.cursor >= delivery.cursor
          /\ new.cursor = delivery.cursor => new = delivery
      BY <3>1, <1>10, AdvanceRow
    <3>3. delivery' = new /\ new.cursor <= MaxCursor
      BY <2>1 DEF RecordEvent, SetDelivery
    <3> HIDE DEF new
    <3> QED
      BY <3>2, <3>3 DEF ReadyIsServed
  <2>2. CASE e.event # "INVALID"
    <3>1. delivery' = delivery
      BY <2>2 DEF RecordEvent
    <3>2. row.status \notin Dead
      BY <2>2, <1>1, <1>4 DEF StatusAfter, Dead, EventNames
    <3>3. ASSUME delivery.active # NoRevision
          PROVE  seq'[delivery.active].status \notin Dead
      <4>1. delivery.active \in Revisions
        BY <3>3, <1>10 DEF DeliveryRow, Revisions, NoRevision
      <4> QED
        BY <3>2, <3>3, <4>1, <1>6 DEF Inv, ReadyIsServed
    <3> QED
      BY <3>1, <3>3, <1>7, <1>10 DEF Inv, TypeOK, ReadyIsServed
  <2> QED
    BY <2>1, <2>2
<1>12. TypeOK'
  BY <1>6, <1>7, <1>11 DEF Inv, TypeOK
<1>13. ClientBehind' /\ CurrentClientIsRight'
  BY <1>7, <1>11, ClientKept
<1> QED
  BY <1>8, <1>9, <1>11, <1>12, <1>13 DEF Inv

LEMMA PollInv == Inv /\ Poll => Inv'
<1> SUFFICES ASSUME Inv, Poll PROVE Inv'
  OBVIOUS
<1>1. UNCHANGED <<cancelled, latest, seq, delivery, log, debug>> /\ client' = Snapshot
  BY DEF Poll
<1>2. Snapshot = [cursor |-> delivery.cursor, command |-> delivery.command,
                  rev |-> delivery.active]
  BY SnapshotOfLive DEF Inv
<1>3. client' \in Result /\ client'.cursor = delivery.cursor /\ delivery.cursor \in Nat
  BY <1>1, <1>2 DEF Inv, TypeOK, DeliveryRow, Result
<1>4. TypeOK' /\ Dense' /\ ReadyIsServed' /\ OnlyLatestOpen'
  BY <1>1, <1>3 DEF Inv, TypeOK, Dense, ReadyIsServed, OnlyLatestOpen
<1>5. ClientBehind'
  BY <1>1, <1>3 DEF ClientBehind
<1>6. Snapshot' = Snapshot
  BY <1>1 DEF Snapshot
<1>7. CurrentClientIsRight'
  BY <1>1, <1>6 DEF CurrentClientIsRight
<1> QED
  BY <1>4, <1>5, <1>7 DEF Inv

LEMMA NextInv == Inv /\ [Next]_vars => Inv'
<1> SUFFICES ASSUME Inv, [Next]_vars PROVE Inv'
  OBVIOUS
<1>1. CASE MarkProcessing
  BY <1>1, MarkInv
<1>2. CASE Cancel
  BY <1>2, CancelInv
<1>3. CASE WorkflowPublish
  BY <1>3, PublishInv DEF WorkflowPublish, Inv, TypeOK
<1>4. CASE DebugLoad
  BY <1>4 DEF DebugLoad, Inv, TypeOK, Dense, ReadyIsServed, OnlyLatestOpen,
              ClientBehind, CurrentClientIsRight, Snapshot
<1>5. CASE DebugPublish
  BY <1>5, PublishInv DEF DebugPublish
<1>6. ASSUME NEW e \in Event, RecordEvent(e) PROVE Inv'
  BY <1>6, EventInv
<1>7. CASE Poll
  BY <1>7, PollInv
<1>8. CASE UNCHANGED vars
  BY <1>8 DEF vars, Inv, TypeOK, Dense, ReadyIsServed, OnlyLatestOpen,
              ClientBehind, CurrentClientIsRight, Snapshot
<1> QED
  BY <1>1, <1>2, <1>3, <1>4, <1>5, <1>6, <1>7, <1>8 DEF Next

(* Every reachable state satisfies the invariant.                          *)
THEOREM Invariance == Spec => []Inv
BY InitInv, NextInv, PTL DEF Spec

(* Type correctness.                                                       *)
THEOREM TypeCorrect == Spec => []TypeOK
<1>1. Inv => TypeOK
  BY DEF Inv
<1> QED
  BY <1>1, Invariance, PTL

(* RGB_SEQUENCE_READY never points at a revision the server would refuse.  *)
THEOREM ReadyServed == Spec => []ReadyIsServed
<1>1. Inv => ReadyIsServed
  BY DEF Inv
<1> QED
  BY <1>1, Invariance, PTL

(* However many publications, reuses and reports, one revision is playable.*)
THEOREM LatestOpen == Spec => []OnlyLatestOpen
<1>1. Inv => OnlyLatestOpen
  BY DEF Inv
<1> QED
  BY <1>1, Invariance, PTL

(* A device that is answered "nothing new" holds the current result.       *)
THEOREM ClientIsRight == Spec => []CurrentClientIsRight
<1>1. Inv => CurrentClientIsRight
  BY DEF Inv
<1> QED
  BY <1>1, Invariance, PTL

-------------------------------------------------------------------------------

Final == {"RGB_SEQUENCE_READY", "RESULT_CANCELLED"}

(* The environment in which no one calls the debug endpoint.               *)
NoDebug == "debug" \notin Publishers

(* Every step leaves the delivery row alone or moves it once more in the   *)
(* manner of get_or_create_delivery; PROCESSING is shown only before the   *)
(* first final result, and a step that sees the session cancelled shows    *)
(* RESULT_CANCELLED.                                                       *)
DeliveryMoves ==
  \/ delivery' = delivery /\ cancelled' = cancelled
  \/ \E d \in {delivery, Reopened(delivery)}, c \in Commands,
        a \in 0..MaxRevision, why \in Reasons :
       /\ delivery' = Advance(d, c, a, why)
       /\ c = "RESULT_PROCESSING" => delivery.command \notin Final
       /\ NoDebug /\ debug = "idle" /\ cancelled' => c = "RESULT_CANCELLED"

LEMMA PublishMoves ==
  ASSUME Inv, NEW saw \in BOOLEAN, Publish(saw),
         NoDebug /\ debug = "idle" => saw = cancelled
  PROVE  DeliveryMoves
<1>1. cancelled' = cancelled
  BY DEF Publish
<1>2. /\ {"RESULT_CANCELLED", "RGB_SEQUENCE_READY"} \subseteq Commands
      /\ {"SESSION_CANCELLED", "RGB_RESULTS_DISABLED", "RGB_SEQUENCE_INCOMPLETE", "none"}
           \subseteq Reasons
      /\ NoRevision \in 0..MaxRevision
      /\ latest \in 0..MaxRevision
  BY BoundAssumption DEF Commands, Reasons, NoRevision, Inv, TypeOK
<1>3. CASE saw /\ PublishCancelled
  BY <1>2, <1>3 DEF PublishCancelled, SetDelivery, DeliveryMoves
<1>4. CASE ~saw /\ PublishDisabled
  BY <1>2, <1>4 DEF PublishDisabled, SetDelivery, DeliveryMoves
<1>5. ASSUME ~saw, NEW answers \in Contents \cup {Incomplete}, PublishRefused(answers)
      PROVE  DeliveryMoves
  BY <1>2, <1>5 DEF PublishRefused, SetDelivery, DeliveryMoves
<1>6. ASSUME ~saw, NEW answers \in Contents \cup {Incomplete}, PublishReuse(answers)
      PROVE  DeliveryMoves
  <2>1. PICK r \in Reusable(answers) :
          delivery' = Advance(Reopened(delivery), "RGB_SEQUENCE_READY", r, "none")
    BY <1>6 DEF PublishReuse, SetDelivery
  <2>2. r \in 0..MaxRevision
    BY <1>2, BoundAssumption DEF Reusable
  <2>3. ~(NoDebug /\ debug = "idle" /\ cancelled')
    BY <1>1, <1>6
  <2> QED
    BY <1>2, <2>1, <2>2, <2>3 DEF DeliveryMoves
<1>7. ASSUME ~saw, NEW answers \in Contents \cup {Incomplete}, PublishNew(answers)
      PROVE  DeliveryMoves
  <2>1. delivery' = Advance(Reopened(delivery), "RGB_SEQUENCE_READY", latest + 1, "none")
    BY <1>7 DEF PublishNew, SetDelivery
  <2>2. latest + 1 \in 0..MaxRevision
    BY <1>2, <1>7, BoundAssumption DEF PublishNew
  <2>3. ~(NoDebug /\ debug = "idle" /\ cancelled')
    BY <1>1, <1>7
  <2> QED
    BY <1>2, <2>1, <2>2, <2>3 DEF DeliveryMoves
<1> QED
  BY <1>3, <1>4, <1>5, <1>6, <1>7 DEF Publish

LEMMA NextMoves == Inv /\ [Next]_vars => DeliveryMoves
<1> SUFFICES ASSUME Inv, [Next]_vars PROVE DeliveryMoves
  OBVIOUS
<1>1. /\ {"RESULT_CANCELLED", "RESULT_PROCESSING"} \subseteq Commands
      /\ {"CANCELLED", "ADMIN_CANCELLED", "none",
          "RGB_SEQUENCE_INVALID_REPORTED_BY_DEVICE"} \subseteq Reasons
      /\ NoRevision \in 0..MaxRevision
  BY BoundAssumption DEF Commands, Reasons, NoRevision
<1>2. CASE MarkProcessing
  BY <1>1, <1>2 DEF MarkProcessing, SetDelivery, DeliveryMoves, Final
<1>3. CASE Cancel
  BY <1>1, <1>3 DEF Cancel, SetDelivery, DeliveryMoves
<1>4. CASE WorkflowPublish
  <2>1. cancelled \in BOOLEAN /\ Publish(cancelled)
    BY <1>4 DEF WorkflowPublish, Inv, TypeOK
  <2> QED
    BY <2>1, PublishMoves
<1>5. CASE DebugPublish
  <2>1. Publish(debug = "cancelled") /\ debug # "idle"
    BY <1>5 DEF DebugPublish
  <2> QED
    BY <2>1, PublishMoves
<1>6. ASSUME NEW e \in Event, RecordEvent(e) PROVE DeliveryMoves
  BY <1>1, <1>6 DEF RecordEvent, SetDelivery, DeliveryMoves
<1>7. CASE DebugLoad \/ Poll \/ UNCHANGED vars
  BY <1>7 DEF DebugLoad, Poll, vars, DeliveryMoves
<1> QED
  BY <1>2, <1>3, <1>4, <1>5, <1>6, <1>7 DEF Next

(* What a move of the delivery row amounts to.                             *)
LEMMA MovedRow ==
  ASSUME Inv, NEW d \in {delivery, Reopened(delivery)}, NEW c \in Commands,
         NEW a \in 0..MaxRevision, NEW why \in Reasons,
         delivery' = Advance(d, c, a, why)
  PROVE  /\ delivery'.command = c
         /\ delivery'.cursor >= delivery.cursor
         /\ delivery'.cursor = delivery.cursor => delivery' = delivery
<1>1. delivery \in DeliveryRow
  BY DEF Inv, TypeOK
<1>2. /\ d \in DeliveryRow
      /\ d.cursor >= delivery.cursor
      /\ d.cursor = delivery.cursor => d = delivery
  BY <1>1, ReopenedRow DEF DeliveryRow
<1>3. /\ delivery' \in DeliveryRow
      /\ delivery'.command = c
      /\ delivery'.cursor >= d.cursor
      /\ delivery'.cursor = d.cursor => delivery' = d
  BY <1>2, AdvanceRow
<1>4. delivery.cursor \in Nat /\ d.cursor \in Nat /\ delivery'.cursor \in Nat
  BY <1>1, <1>2, <1>3 DEF DeliveryRow
<1> QED
  BY <1>2, <1>3, <1>4

(* A final result is never followed by RESULT_PROCESSING.                  *)
THEOREM NoRegression == Spec => NoRegressionToProcessing
<1>1. ASSUME Inv, [Next]_vars
      PROVE  [delivery.command \in Final => delivery'.command \in Final]_vars
  <2> SUFFICES ASSUME delivery.command \in Final PROVE delivery'.command \in Final
    OBVIOUS
  <2>1. CASE delivery' = delivery
    BY <2>1
  <2>2. ASSUME NEW d \in {delivery, Reopened(delivery)}, NEW c \in Commands,
               NEW a \in 0..MaxRevision, NEW why \in Reasons,
               delivery' = Advance(d, c, a, why),
               c = "RESULT_PROCESSING" => delivery.command \notin Final
        PROVE  delivery'.command \in Final
    <3>1. delivery'.command = c
      BY <1>1, <2>2, MovedRow
    <3> QED
      BY <3>1, <2>2 DEF Commands, Final
  <2> QED
    BY <1>1, <2>1, <2>2, NextMoves DEF DeliveryMoves
<1>2. [][delivery.command \in Final => delivery'.command \in Final]_vars
        => NoRegressionToProcessing
  BY PTL DEF NoRegressionToProcessing, Final
<1> QED
  BY <1>1, <1>2, Invariance, PTL DEF Spec

(* A cursor never moves back, and two results never share one.             *)
THEOREM CursorNames == Spec => CursorNamesResult
<1>1. ASSUME Inv, Inv', [Next]_vars
      PROVE  /\ delivery'.cursor >= delivery.cursor
             /\ delivery'.cursor = delivery.cursor => Snapshot' = Snapshot
  <2>1. /\ delivery'.cursor >= delivery.cursor
        /\ delivery'.cursor = delivery.cursor => delivery' = delivery
    <3>1. CASE delivery' = delivery
      <4>1. delivery.cursor \in Nat
        BY <1>1 DEF Inv, TypeOK, DeliveryRow
      <4> QED
        BY <3>1, <4>1
    <3>2. ASSUME NEW d \in {delivery, Reopened(delivery)}, NEW c \in Commands,
                 NEW a \in 0..MaxRevision, NEW why \in Reasons,
                 delivery' = Advance(d, c, a, why)
          PROVE  /\ delivery'.cursor >= delivery.cursor
                 /\ delivery'.cursor = delivery.cursor => delivery' = delivery
      BY <1>1, <3>2, MovedRow
    <3> QED
      BY <1>1, <3>1, <3>2, NextMoves DEF DeliveryMoves
  <2>2. /\ Snapshot = [cursor |-> delivery.cursor, command |-> delivery.command,
                       rev |-> delivery.active]
        /\ Snapshot' = [cursor |-> delivery'.cursor, command |-> delivery'.command,
                        rev |-> delivery'.active]
    BY <1>1 DEF Inv, ReadyIsServed, Snapshot, NoRevision
  <2> QED
    BY <2>1, <2>2
<1> QED
  BY <1>1, Invariance, PTL DEF Spec, CursorNamesResult

(* Without the debug endpoint no debug request is ever open.               *)
FenceInv == NoDebug => CancelFence /\ debug = "idle"

LEMMA FenceStep ==
  ASSUME Inv, FenceInv, [Next]_vars
  PROVE  FenceInv'
<1> SUFFICES ASSUME NoDebug PROVE CancelFence' /\ debug' = "idle"
  BY DEF FenceInv, NoDebug
<1>0. CancelFence /\ debug = "idle"
  BY DEF FenceInv
<1>1. debug' = "idle"
  BY <1>0 DEF NoDebug, Next, MarkProcessing, Cancel, WorkflowPublish, DebugLoad,
              DebugPublish, RecordEvent, Poll, vars
<1>2. CASE delivery' = delivery /\ cancelled' = cancelled
  BY <1>0, <1>1, <1>2 DEF CancelFence
<1>3. ASSUME NEW d \in {delivery, Reopened(delivery)}, NEW c \in Commands,
             NEW a \in 0..MaxRevision, NEW why \in Reasons,
             delivery' = Advance(d, c, a, why),
             cancelled' => c = "RESULT_CANCELLED"
      PROVE  CancelFence'
  BY <1>3, MovedRow DEF CancelFence
<1>4. CancelFence'
  BY <1>0, <1>2, <1>3, NextMoves DEF DeliveryMoves, CancelFence
<1> QED
  BY <1>1, <1>4

(* Without the debug endpoint the cancellation fence holds: the workflow   *)
(* reads the session under its lock before it publishes.                   *)
THEOREM Fence == Spec => [](NoDebug => CancelFence)
<1>1. Init => FenceInv
  BY DEF Init, CancelFence, FenceInv
<1>2. Inv /\ FenceInv /\ [Next]_vars => FenceInv'
  BY FenceStep
<1>3. FenceInv => (NoDebug => CancelFence)
  BY DEF FenceInv
<1> QED
  BY <1>1, <1>2, <1>3, Invariance, PTL DEF Spec

-------------------------------------------------------------------------------

(* What is stored of the events of a revision exists only from its         *)
(* publication on; with the two properties it makes an invariant.          *)
LogIsPublished == \A e \in log : e.rev <= latest

LogInv ==
  /\ LogIsPublished
  /\ RowMatchesLog
  /\ CompletedOnce

LEMMA LogKept == LogInv /\ UNCHANGED <<latest, seq, log>> => LogInv'
BY DEF LogInv, LogIsPublished, RowMatchesLog, CompletedOnce

(* A publication closes at most the newest revision, of which neither a    *)
(* completion nor an invalidation was reported, and opens one of which     *)
(* nothing was reported.                                                   *)
LEMMA NewLog ==
  ASSUME Inv, LogInv, NEW answers \in Contents, PublishNew(answers), log' = log
  PROVE  LogInv'
<1>1. /\ latest \in Nat /\ latest' = latest + 1
      /\ latest + 1 \in Revisions /\ 1..latest \subseteq Revisions
      /\ log \subseteq Event /\ log' = log
  BY BoundAssumption DEF Inv, TypeOK, PublishNew, Revisions
<1>2. seq'[latest + 1] = [status |-> "READY", content |-> answers, next |-> 0]
  BY <1>1 DEF PublishNew
<1>3. ASSUME NEW r \in 1..latest
      PROVE  /\ seq'[r].next = seq[r].next
             /\ seq'[r].status = "COMPLETED" <=> seq[r].status = "COMPLETED"
             /\ seq'[r].status = "INVALID" <=> seq[r].status = "INVALID"
             /\ seq'[r].status = "READY" => seq[r].status = "READY"
  <2>1. r \in Revisions /\ r # latest + 1 /\ seq[r] \in Sequence
    BY <1>1, <1>3 DEF Inv, Dense
  <2>2. CASE r = latest /\ seq[r].status \in Open
    <3>1. seq'[r] = [seq[r] EXCEPT !.status = "SUPERSEDED"]
      BY <2>1, <2>2 DEF PublishNew
    <3>2. seq'[r].next = seq[r].next /\ seq'[r].status = "SUPERSEDED"
      BY <2>1, <3>1 DEF Sequence
    <3> QED
      BY <2>2, <3>2 DEF Open
  <2>3. CASE ~(r = latest /\ seq[r].status \in Open)
    <3>1. seq'[r] = seq[r]
      BY <2>1, <2>3 DEF PublishNew
    <3> QED
      BY <3>1
  <2> QED
    BY <2>2, <2>3
<1>4. \A e \in log : e.rev \in Nat /\ e.rev <= latest
  BY <1>1 DEF LogInv, LogIsPublished, Event, Revisions
<1>5. LogIsPublished'
  BY <1>1, <1>4 DEF LogIsPublished
<1>6. \A r \in 1..latest' : r \in 1..latest \/ r = latest + 1
  BY <1>1
<1>7. {e \in log : e.rev = latest + 1} = {}
  BY <1>1, <1>4
<1>8. RowMatchesLog'
  <2> SUFFICES ASSUME NEW r \in 1..latest', NEW S, S = {e \in log : e.rev = r}
               PROVE  /\ \A e \in S : e.next <= seq'[r].next
                      /\ seq'[r].next > 0 => \E e \in S : e.next = seq'[r].next
                      /\ seq'[r].status = "COMPLETED" <=> \E e \in S : e.event = "COMPLETED"
                      /\ seq'[r].status = "INVALID" <=> \E e \in S : e.event = "INVALID"
                      /\ seq'[r].status = "READY" => S = {}
    BY <1>1 DEF RowMatchesLog
  <2>1. CASE r = latest + 1
    BY <2>1, <1>2, <1>7
  <2>2. CASE r \in 1..latest
    <3>1. /\ \A e \in S : e.next <= seq[r].next
          /\ seq[r].next > 0 => \E e \in S : e.next = seq[r].next
          /\ seq[r].status = "COMPLETED" <=> \E e \in S : e.event = "COMPLETED"
          /\ seq[r].status = "INVALID" <=> \E e \in S : e.event = "INVALID"
          /\ seq[r].status = "READY" => S = {}
      BY <2>2 DEF LogInv, RowMatchesLog
    <3> QED
      BY <2>2, <3>1, <1>3
  <2> QED
    BY <2>1, <2>2, <1>6
<1>9. CompletedOnce'
  <2> SUFFICES ASSUME NEW r \in 1..latest'
               PROVE  /\ seq'[r].status = "COMPLETED" => seq'[r].next = ItemCount
                      /\ \A x, y \in log : /\ x.rev = r /\ y.rev = r
                                           /\ x.event = "COMPLETED" /\ y.event = "COMPLETED"
                                           => x = y
    BY <1>1 DEF CompletedOnce
  <2>1. CASE r = latest + 1
    BY <2>1, <1>2, <1>7
  <2>2. CASE r \in 1..latest
    BY <2>2, <1>3 DEF LogInv, CompletedOnce
  <2> QED
    BY <2>1, <2>2, <1>6
<1> QED
  BY <1>5, <1>8, <1>9 DEF LogInv

(* An accepted event moves the progress of its row to its own, is of a row *)
(* on which neither a completion nor an invalidation is stored (a second   *)
(* COMPLETED would be the first one), and decides the status.              *)
LEMMA EventLog ==
  ASSUME Inv, LogInv, NEW e \in Event, RecordEvent(e)
  PROVE  LogInv'
<1>1. /\ Acceptable(e)
      /\ latest' = latest /\ latest \in Nat
      /\ log' = log \cup {e} /\ log \subseteq Event
      /\ e.rev \in 1..latest /\ e.rev \in Revisions
      /\ e.next \in 0..ItemCount /\ e.next >= seq[e.rev].next
  BY DEF RecordEvent, Acceptable, Event, Inv, TypeOK
<1>2. /\ seq \in [Revisions -> Sequence \cup {NoSequence}]
      /\ seq[e.rev] \in Sequence
      /\ seq[e.rev].next \in 0..ItemCount
  BY <1>1 DEF Inv, TypeOK, Dense, Sequence
<1>3. /\ seq'[e.rev].status = StatusAfter(e.event)
      /\ seq'[e.rev].next = e.next
      /\ \A r \in Revisions \ {e.rev} : seq'[r] = seq[r]
  BY <1>1, <1>2 DEF RecordEvent, Sequence
<1>4. /\ StatusAfter(e.event) = "COMPLETED" <=> e.event = "COMPLETED"
      /\ StatusAfter(e.event) = "INVALID" <=> e.event = "INVALID"
      /\ StatusAfter(e.event) # "READY"
  BY DEF StatusAfter, Event, EventNames
<1>5. 1..latest \subseteq Revisions
  BY BoundAssumption DEF Inv, TypeOK, Revisions
<1>6. \A x \in log : x.rev = e.rev => x.event # "COMPLETED" /\ x.event # "INVALID"
  <2> SUFFICES ASSUME NEW x \in log, x.rev = e.rev
               PROVE  x.event # "COMPLETED" /\ x.event # "INVALID"
    OBVIOUS
  <2>1. ~SameIdentity(x, e) /\ seq[e.rev].status \notin Dead
    BY <1>1 DEF Acceptable
  <2>2. x.event # "INVALID"
    BY <1>1, <2>1 DEF LogInv, RowMatchesLog, Dead
  <2>3. ASSUME x.event = "COMPLETED" PROVE FALSE
    <3>1. seq[e.rev].status = "COMPLETED"
      BY <1>1, <2>3 DEF LogInv, RowMatchesLog
    <3>2. e.event = "COMPLETED"
      BY <1>1, <3>1 DEF Acceptable
    <3> QED
      BY <2>1, <2>3, <3>2 DEF SameIdentity
  <2> QED
    BY <2>2, <2>3
<1>7. LogIsPublished'
  BY <1>1 DEF LogInv, LogIsPublished
<1>8. RowMatchesLog'
  <2> SUFFICES ASSUME NEW r \in 1..latest, NEW S, S = {x \in log' : x.rev = r}
               PROVE  /\ \A x \in S : x.next <= seq'[r].next
                      /\ seq'[r].next > 0 => \E x \in S : x.next = seq'[r].next
                      /\ seq'[r].status = "COMPLETED" <=> \E x \in S : x.event = "COMPLETED"
                      /\ seq'[r].status = "INVALID" <=> \E x \in S : x.event = "INVALID"
                      /\ seq'[r].status = "READY" => S = {}
    BY <1>1 DEF RowMatchesLog
  <2>1. CASE r # e.rev
    <3>1. S = {x \in log : x.rev = r} /\ seq'[r] = seq[r]
      BY <1>1, <1>3, <1>5, <2>1
    <3> QED
      BY <3>1 DEF LogInv, RowMatchesLog
  <2>2. CASE r = e.rev
    <3>1. e \in S /\ \A x \in S : x = e \/ (x \in log /\ x.rev = e.rev)
      BY <1>1, <2>2
    <3>2. \A x \in S : x.next <= seq'[r].next
      <4> SUFFICES ASSUME NEW x \in S, x \in log, x.rev = e.rev
                   PROVE  x.next <= e.next
        BY <1>1, <1>3, <2>2, <3>1
      <4>1. x.next <= seq[e.rev].next /\ x.next \in 0..ItemCount
        BY <1>1 DEF LogInv, RowMatchesLog, Event
      <4> QED
        BY <4>1, <1>1, <1>2, BoundAssumption
    <3>3. /\ seq'[r].status = "COMPLETED" <=> \E x \in S : x.event = "COMPLETED"
          /\ seq'[r].status = "INVALID" <=> \E x \in S : x.event = "INVALID"
      BY <1>3, <1>4, <1>6, <2>2, <3>1
    <3> QED
      BY <1>3, <1>4, <2>2, <3>1, <3>2, <3>3
  <2> QED
    BY <2>1, <2>2
<1>9. CompletedOnce'
  <2> SUFFICES ASSUME NEW r \in 1..latest
               PROVE  /\ seq'[r].status = "COMPLETED" => seq'[r].next = ItemCount
                      /\ \A x, y \in log' : /\ x.rev = r /\ y.rev = r
                                            /\ x.event = "COMPLETED" /\ y.event = "COMPLETED"
                                            => x = y
    BY <1>1 DEF CompletedOnce
  <2>1. CASE r # e.rev
    BY <1>1, <1>3, <1>5, <2>1 DEF LogInv, CompletedOnce
  <2>2. CASE r = e.rev
    <3>1. seq'[r].status = "COMPLETED" => seq'[r].next = ItemCount
      BY <1>1, <1>3, <1>4, <2>2 DEF Acceptable
    <3> QED
      BY <1>1, <1>6, <2>2, <3>1
  <2> QED
    BY <2>1, <2>2
<1> QED
  BY <1>7, <1>8, <1>9 DEF LogInv

LEMMA PublishLog ==
  ASSUME Inv, LogInv, NEW saw \in BOOLEAN, Publish(saw)
  PROVE  LogInv'
<1>1. log' = log
  BY DEF Publish
<1>2. CASE UNCHANGED <<latest, seq>>
  BY <1>1, <1>2, LogKept
<1>3. ASSUME NEW answers \in Contents \cup {Incomplete}, PublishNew(answers)
      PROVE  LogInv'
  <2>1. answers \in Contents
    BY <1>3 DEF PublishNew
  <2> QED
    BY <1>1, <1>3, <2>1, NewLog
<1> QED
  BY <1>2, <1>3 DEF Publish, PublishCancelled, PublishDisabled, PublishRefused, PublishReuse

LEMMA NextLog == Inv /\ LogInv /\ [Next]_vars => LogInv'
<1> SUFFICES ASSUME Inv, LogInv, [Next]_vars PROVE LogInv'
  OBVIOUS
<1>1. CASE MarkProcessing \/ Cancel \/ DebugLoad \/ Poll \/ UNCHANGED vars
  BY <1>1, LogKept DEF MarkProcessing, Cancel, DebugLoad, Poll, vars
<1>2. CASE WorkflowPublish
  BY <1>2, PublishLog DEF WorkflowPublish, Inv, TypeOK
<1>3. CASE DebugPublish
  BY <1>3, PublishLog DEF DebugPublish
<1>4. ASSUME NEW e \in Event, RecordEvent(e) PROVE LogInv'
  BY <1>4, EventLog
<1> QED
  BY <1>1, <1>2, <1>3, <1>4 DEF Next

LEMMA LogInvariance == Spec => []LogInv
<1>1. Init => LogInv
  BY DEF Init, LogInv, LogIsPublished, RowMatchesLog, CompletedOnce
<1> QED
  BY <1>1, NextLog, Invariance, PTL DEF Spec

(* For any number of revisions, events and keys: a row's status and        *)
(* progress are exactly what the stored events of its revision say.        *)
THEOREM RowFromLog == Spec => []RowMatchesLog
<1>1. LogInv => RowMatchesLog
  BY DEF LogInv
<1> QED
  BY <1>1, LogInvariance, PTL

(* A revision is completed by one event, which reports every item.         *)
THEOREM OneCompletion == Spec => []CompletedOnce
<1>1. LogInv => CompletedOnce
  BY DEF LogInv
<1> QED
  BY <1>1, LogInvariance, PTL

===============================================================================
