------------------------- MODULE DeviceCommands_proofs -------------------------
(***************************************************************************)
(* Proofs about DeviceCommands for any number of commands, any ESP, every  *)
(* set of faults and every limit of a drain.                               *)
(*                                                                         *)
(* The invariant follows a command on its way.  Down to the phone: a page  *)
(* in flight has every command up to its cursor that still occupies the    *)
(* device and is not stored yet.  Back to the cloud: whatever the cloud    *)
(* knows has been recorded, and whatever was recorded as off stays off.    *)
(***************************************************************************)
EXTENDS DeviceCommands, SequenceTheorems, TLAPS

(* The cursors name commands that exist, and the others do not exist.      *)
Numbered ==
  /\ \A c \in Ids : c > created => cloud[c] = "ABSENT"
  /\ cursor <= created
  /\ page.open => cursor <= page.cursor /\ page.cursor <= created

PageCovers ==
  \A c \in Ids : page.open /\ c <= page.cursor /\ cloud[c] \in Locking =>
    phone[c] # "ABSENT" \/ page.status[c] # "ABSENT"

(* Reports move from the ESP to the phone to the cloud, in this order.     *)
Reported ==
  /\ Pending \subseteq recorded
  /\ accepted \subseteq recorded
  /\ \A c \in Ids :
       /\ cloud[c] \in {"FORWARDED", "RECEIVED", "APPLIED", "OFF"} => <<c, cloud[c]>> \in recorded
       /\ <<c, "OFF">> \in recorded => phone[c] = "OFF"

Inv == TypeOK /\ OneCommand /\ Numbered /\ CursorCoversCommands /\ PageCovers /\ Reported

(* No command begins to occupy the device.                                 *)
NoneEnters == \A c \in Ids : cloud'[c] \in Locking => cloud[c] \in Locking

-------------------------------------------------------------------------------

(* Expiry only ends commands that are active.                              *)
LEMMA ExpiredStatus ==
  ASSUME TypeOK
  PROVE  /\ Expired \in [Ids -> Statuses \cup {"ABSENT"}]
         /\ \A c \in Ids : Expired[c] = cloud[c] \/ (Expired[c] = "EXPIRED" /\ cloud[c] \in Active)
  BY DEF Expired, TypeOK, Statuses, Over

(* A report the cloud takes moves its command along NextFrom.              *)
LEMMA RecordedStatus ==
  ASSUME TypeOK, NEW c \in Ids, NEW e \in Events, RecordEvent(<<c, e>>)
  PROVE  /\ cloud' \in [Ids -> Statuses \cup {"ABSENT"}]
         /\ NoneEnters
         /\ \A d \in Ids : \/ cloud'[d] = cloud[d]
                           \/ cloud[d] \in Locking /\ cloud'[d] = "EXPIRED"
                           \/ cloud[d] \in Locking /\ d = c /\ cloud'[d] = e
         /\ accepted \subseteq accepted'
         /\ accepted' \subseteq accepted \cup {<<c, e>>}
         /\ <<c, e>> \in accepted'
<1>1. CASE Repeated(<<c, e>>) /\ cloud' = Expired /\ UNCHANGED accepted
  BY <1>1, ExpiredStatus DEF Repeated, NoneEnters, Locking, Active
<1>2. CASE /\ Follows(<<c, e>>)
           /\ cloud' = [Expired EXCEPT ![c] = e]
           /\ accepted' = accepted \cup {<<c, e>>}
  <2>1. Expired[c] \in NextFrom[e]
    BY <1>2 DEF Follows
  <2>2. Expired[c] \in Locking \/ (e = "OFF" /\ Expired[c] = "OFF")
    BY <2>1 DEF NextFrom, Events, Locking, Active
  <2>3. e \in Statuses
    BY DEF Events, Statuses, Locking, Active, Over
  <2>4. /\ cloud'[c] = e
        /\ \A d \in Ids : d # c => cloud'[d] = Expired[d]
        /\ cloud' \in [Ids -> Statuses \cup {"ABSENT"}]
    BY <1>2, <2>3, ExpiredStatus
  <2>5. Expired[c] \in Locking => cloud[c] \in Locking /\ cloud[c] = Expired[c]
    BY ExpiredStatus DEF Locking, Active
  <2>6. Expired[c] = "OFF" => cloud[c] = "OFF"
    BY ExpiredStatus
  <2>7. \A d \in Ids : d # c =>
          cloud'[d] = cloud[d] \/ (cloud[d] \in Locking /\ cloud'[d] = "EXPIRED")
    BY <2>4, ExpiredStatus DEF Locking
  <2>8. cloud'[c] = cloud[c] \/ (cloud[c] \in Locking /\ cloud'[c] = e)
    BY <2>2, <2>4, <2>5, <2>6
  <2>9. NoneEnters
    BY <2>7, <2>8 DEF NoneEnters, Locking, Active
  <2> QED
    BY <1>2, <2>4, <2>7, <2>8, <2>9
<1> QED
  BY <1>1, <1>2 DEF RecordEvent

(* RemoveAt takes one element out of a sequence.                           *)
LEMMA RemoveAtElements ==
  ASSUME NEW S, NEW s \in Seq(S), NEW i \in 1..Len(s)
  PROVE  /\ RemoveAt(s, i) \in Seq(S)
         /\ \A j \in 1..Len(RemoveAt(s, i)) : \E k \in 1..Len(s) : RemoveAt(s, i)[j] = s[k]
         /\ \A k \in 1..Len(s) : k # i =>
              \E j \in 1..Len(RemoveAt(s, i)) : RemoveAt(s, i)[j] = s[k]
<1> DEFINE left == SubSeq(s, 1, i - 1)
           right == SubSeq(s, i + 1, Len(s))
<1>1. /\ left \in Seq(S) /\ Len(left) = i - 1
      /\ \A j \in 1..(i - 1) : left[j] = s[j]
  OBVIOUS
<1>2. /\ right \in Seq(S) /\ Len(right) = Len(s) - i
      /\ \A j \in 1..(Len(s) - i) : right[j] = s[i + j]
  OBVIOUS
<1>3. RemoveAt(s, i) = left \o right
  BY DEF RemoveAt
<1> HIDE DEF left, right
<1>4. /\ RemoveAt(s, i) \in Seq(S)
      /\ Len(RemoveAt(s, i)) = Len(s) - 1
      /\ \A j \in 1..(Len(s) - 1) :
           RemoveAt(s, i)[j] = IF j <= i - 1 THEN left[j] ELSE right[j - (i - 1)]
  <2>1. Len(s) \in Nat /\ i \in Nat /\ i >= 1 /\ i <= Len(s)
    OBVIOUS
  <2>2. /\ left \o right \in Seq(S)
        /\ Len(left \o right) = Len(left) + Len(right)
        /\ \A j \in 1..(Len(left) + Len(right)) :
             (left \o right)[j] = IF j <= Len(left) THEN left[j] ELSE right[j - Len(left)]
    BY <1>1, <1>2, ConcatProperties
  <2>3. Len(left) = i - 1 /\ Len(left) + Len(right) = Len(s) - 1
    BY <1>1, <1>2, <2>1
  <2> QED
    BY <1>3, <2>2, <2>3
<1>5. \A j \in 1..(Len(s) - 1) : RemoveAt(s, i)[j] = IF j < i THEN s[j] ELSE s[j + 1]
  BY <1>1, <1>2, <1>4
<1>6. ASSUME NEW k \in 1..Len(s), k # i
      PROVE  \E j \in 1..(Len(s) - 1) : RemoveAt(s, i)[j] = s[k]
  <2>1. CASE k < i
    BY <1>5, <2>1
  <2>2. CASE k > i
    <3>1. k - 1 \in 1..(Len(s) - 1) /\ RemoveAt(s, i)[k - 1] = s[k]
      BY <1>5, <2>2
    <3> QED
      BY <3>1
  <2> QED
    BY <1>6, <2>1, <2>2
<1>7. ASSUME NEW j \in 1..(Len(s) - 1)
      PROVE  \E k \in 1..Len(s) : RemoveAt(s, i)[j] = s[k]
  <2>1. j \in 1..Len(s) /\ j + 1 \in 1..Len(s)
    OBVIOUS
  <2> QED
    BY <1>5, <2>1
<1> HIDE DEF RemoveAt
<1> QED
  BY <1>4, <1>6, <1>7

(* What a removal leaves pending.                                          *)
LEMMA PendingRemoved ==
  ASSUME outbox \in Seq(Report), NEW i \in 1..Len(outbox), outbox' = RemoveAt(outbox, i)
  PROVE  /\ outbox' \in Seq(Report)
         /\ Pending' \subseteq Pending
         /\ Pending \ {outbox[i]} \subseteq Pending'
<1>1. /\ outbox' \in Seq(Report)
      /\ \A j \in 1..Len(outbox') : \E k \in 1..Len(outbox) : outbox'[j] = outbox[k]
      /\ \A k \in 1..Len(outbox) : k # i => \E j \in 1..Len(outbox') : outbox'[j] = outbox[k]
  BY RemoveAtElements
<1> QED
  BY <1>1 DEF Pending

-------------------------------------------------------------------------------

LEMMA InitInv == Init => Inv
<1> SUFFICES ASSUME Init PROVE Inv
  OBVIOUS
<1> USE DeviceCommandsAssumption
<1>1. TypeOK
  <2>1. 0 \in 0..MaxCommands
    OBVIOUS
  <2>2. /\ NoStatus \in [Ids -> Statuses \cup {"ABSENT"}]
        /\ NoStatus \in [Ids -> Locking \cup {"ABSENT"}]
    BY DEF NoStatus
  <2>3. NoPage \in [open : BOOLEAN, cursor : 0..MaxCommands,
                    status : [Ids -> Locking \cup {"ABSENT"}]]
    BY <2>1, <2>2 DEF NoPage
  <2>4. <<>> \in Seq(Report)
    OBVIOUS
  <2> QED
    BY <2>1, <2>2, <2>3, <2>4 DEF Init, TypeOK
<1>2. Pending = {}
  BY DEF Init, Pending
<1>3. \A c \in Ids : cloud[c] = "ABSENT"
  BY DEF Init, NoStatus
<1>4. OneCommand /\ CursorCoversCommands /\ PageCovers
  BY <1>3 DEF OneCommand, CursorCoversCommands, PageCovers, Locking, Active
<1>5. Numbered
  BY <1>3 DEF Init, Numbered, NoPage
<1>6. Reported
  BY <1>2, <1>3 DEF Init, Reported
<1> QED
  BY <1>1, <1>4, <1>5, <1>6 DEF Inv

(* A step of the cloud that takes up no new command and learns only what   *)
(* was recorded.                                                           *)
LEMMA CloudInv ==
  ASSUME Inv,
         UNCHANGED <<created, sequence, page, cursor, phone, recorded>>,
         overdue' \subseteq Ids,
         cloud' \in [Ids -> Statuses \cup {"ABSENT"}],
         NoneEnters,
         \A c \in Ids : cloud[c] = "ABSENT" => cloud'[c] = "ABSENT",
         \A c \in Ids : \/ cloud'[c] = cloud[c]
                        \/ cloud'[c] \in {"CANCELLED", "FAILED", "EXPIRED"}
                        \/ <<c, cloud'[c]>> \in recorded,
         accepted' \subseteq recorded, outbox' \in Seq(Report), Pending' \subseteq recorded
  PROVE  Inv'
<1>1. TypeOK'
  BY DEF Inv, TypeOK
<1>2. OneCommand' /\ CursorCoversCommands' /\ PageCovers'
  BY DEF Inv, OneCommand, CursorCoversCommands, PageCovers, NoneEnters
<1>3. Numbered'
  BY DEF Inv, Numbered
<1>4. Reported'
  BY DEF Inv, Reported
<1> QED
  BY <1>1, <1>2, <1>3, <1>4 DEF Inv

LEMMA CreateInv == Inv /\ CreateCommand => Inv'
<1> SUFFICES ASSUME Inv, CreateCommand PROVE Inv'
  OBVIOUS
<1> DEFINE new == created + 1
<1>1. /\ new \in Ids /\ created \in Nat
      /\ created' = new
      /\ cloud' = [Expired EXCEPT ![new] = "QUEUED"]
  BY DeviceCommandsAssumption DEF Inv, TypeOK, CreateCommand, Ids
<1>2. /\ cloud' \in [Ids -> Statuses \cup {"ABSENT"}]
      /\ cloud'[new] = "QUEUED"
      /\ \A c \in Ids : c # new =>
           cloud'[c] = cloud[c] \/ (cloud'[c] = "EXPIRED" /\ cloud[c] \in Active)
      /\ \A c \in Ids : c # new => cloud'[c] \notin Locking
  BY <1>1, ExpiredStatus DEF Inv, CreateCommand, Statuses, Locking, Active
<1>3. UNCHANGED <<overdue, accepted, sequence, page, cursor, phone, recorded, outbox>>
  BY DEF CreateCommand
<1>4. TypeOK'
  <2>1. created' \in 0..MaxCommands
    BY <1>1 DEF Ids
  <2> QED
    BY <1>2, <1>3, <2>1 DEF Inv, TypeOK
<1>5. OneCommand'
  BY <1>2 DEF OneCommand
<1>6. Numbered'
  <2>1. ASSUME NEW c \in Ids, c > new PROVE cloud'[c] = "ABSENT"
    <3>1. c > created /\ c # new
      BY <1>1, <2>1 DEF Ids
    <3> QED
      BY <1>2, <3>1 DEF Inv, Numbered, Active
  <2>2. cursor \in Nat /\ page.cursor \in Nat
    BY DEF Inv, TypeOK
  <2> HIDE DEF new
  <2>3. created <= new
    BY <1>1 DEF new
  <2>4. cursor <= new /\ (page.open => cursor <= page.cursor /\ page.cursor <= new)
    BY <1>1, <2>2, <2>3 DEF Inv, Numbered, Ids
  <2> QED
    BY <1>1, <1>3, <2>1, <2>4 DEF Numbered
<1>7. \A c \in Ids : c <= created => cloud'[c] \notin Locking
  BY <1>1, <1>2 DEF Ids
<1>8. CursorCoversCommands' /\ PageCovers'
  <2>1. cursor \in Nat /\ page.cursor \in Nat /\ cursor <= created
        /\ (page.open => page.cursor <= created)
    BY DEF Inv, TypeOK, Numbered
  <2>2. \A c \in Ids : c <= cursor => c <= created
    BY <1>1, <2>1 DEF Ids
  <2>3. \A c \in Ids : page.open /\ c <= page.cursor => c <= created
    BY <1>1, <2>1 DEF Ids
  <2> QED
    BY <1>3, <1>7, <2>2, <2>3 DEF CursorCoversCommands, PageCovers
<1>9. Reported'
  <2>1. ASSUME NEW c \in Ids
        PROVE  /\ cloud'[c] \in {"FORWARDED", "RECEIVED", "APPLIED", "OFF"} =>
                    <<c, cloud'[c]>> \in recorded
    BY <1>2 DEF Inv, Reported
  <2> QED
    BY <1>3, <2>1 DEF Inv, Reported, Pending
<1> QED
  BY <1>4, <1>5, <1>6, <1>8, <1>9 DEF Inv

LEMMA AdminInv ==
  ASSUME Inv, ReadCommand \/ \E c \in Ids : StopCommand(c) \/ BecomeOverdue(c)
  PROVE  Inv'
<1>1. /\ outbox' \in Seq(Report) /\ Pending' \subseteq recorded /\ accepted' \subseteq recorded
      /\ UNCHANGED <<created, sequence, page, cursor, phone, recorded>>
      /\ overdue' \subseteq Ids
  BY DEF ReadCommand, StopCommand, BecomeOverdue, Inv, TypeOK, Reported, Pending
<1>2. CASE cloud' = Expired \/ UNCHANGED cloud
  <2>1. cloud' \in [Ids -> Statuses \cup {"ABSENT"}]
    BY <1>2, ExpiredStatus DEF Inv, TypeOK
  <2>2. \A c \in Ids : cloud'[c] = cloud[c] \/ (cloud'[c] = "EXPIRED" /\ cloud[c] \in Active)
    BY <1>2, ExpiredStatus DEF Inv
  <2>3. NoneEnters
    BY <2>2 DEF NoneEnters, Locking
  <2> QED
    BY <1>1, <2>1, <2>2, <2>3, CloudInv DEF Active
<1>3. ASSUME NEW c \in Ids, Expired[c] \in Active,
             cloud' = [Expired EXCEPT ![c] = "CANCELLED"]
      PROVE  Inv'
  <2>1. cloud' \in [Ids -> Statuses \cup {"ABSENT"}]
    BY <1>3, ExpiredStatus DEF Inv, Statuses, Locking
  <2>2. cloud'[c] = "CANCELLED" /\ cloud[c] \in Active
    BY <1>3, ExpiredStatus DEF Inv, Active
  <2>3. \A d \in Ids : d # c =>
          cloud'[d] = cloud[d] \/ (cloud'[d] = "EXPIRED" /\ cloud[d] \in Active)
    BY <1>3, ExpiredStatus DEF Inv
  <2>4. NoneEnters
    BY <2>2, <2>3 DEF NoneEnters, Locking
  <2> QED
    BY <1>1, <2>1, <2>2, <2>3, <2>4, CloudInv DEF Active
<1> QED
  BY <1>2, <1>3 DEF ReadCommand, StopCommand, BecomeOverdue

LEMMA SequenceInv == Inv /\ SequenceChanges => Inv'
  BY DEF SequenceChanges, Inv, TypeOK, OneCommand, Numbered, CursorCoversCommands,
         PageCovers, Reported, Pending

LEMMA PollInv == Inv /\ PollCommands => Inv'
<1> SUFFICES ASSUME Inv, PollCommands PROVE Inv'
  OBVIOUS
<1>1. PICK first \in {cursor, cursor + 1} :
        LET listed == {c \in Ids : c >= first /\ cloud[c] \in Locking}
        IN  page' = [open |-> TRUE,
                     status |-> [c \in Ids |-> IF c \in listed THEN cloud[c] ELSE "ABSENT"],
                     cursor |-> CHOOSE n \in listed \cup {cursor} :
                                  \A c \in listed \cup {cursor} : c <= n]
  BY DEF PollCommands
<1> DEFINE listed == {c \in Ids : c >= first /\ cloud[c] \in Locking}
           newest == CHOOSE n \in listed \cup {cursor} :
                       \A c \in listed \cup {cursor} : c <= n
           status == [c \in Ids |-> IF c \in listed THEN cloud[c] ELSE "ABSENT"]
<1>2. UNCHANGED <<created, cloud, overdue, accepted, sequence, cursor, phone, recorded, outbox>>
  BY DEF PollCommands
<1>3. cursor \in Nat /\ created \in Nat /\ cursor <= created /\ MaxCommands \in Nat
      /\ created <= MaxCommands
  BY DeviceCommandsAssumption DEF Inv, TypeOK, Numbered
<1>4. \A c, d \in listed : c = d
  BY DEF Inv, OneCommand
<1>5. \A c \in listed : c \in Nat /\ c >= cursor /\ c <= created
  BY <1>3 DEF Inv, Numbered, Ids, Locking, Active
<1>6. \E n \in listed \cup {cursor} : \A c \in listed \cup {cursor} : c <= n
  <2>1. CASE listed = {}
    BY <1>3, <2>1
  <2>2. CASE listed # {}
    <3>1. PICK n : n \in listed
      BY <2>2
    <3>2. \A c \in listed \cup {cursor} : c <= n
      BY <1>3, <1>4, <1>5, <3>1
    <3> QED
      BY <3>1, <3>2
  <2> QED
    BY <2>1, <2>2
<1>7. newest \in listed \cup {cursor} /\ \A c \in listed \cup {cursor} : c <= newest
  BY <1>6
<1>8. newest \in Nat /\ cursor <= newest /\ newest <= created
  BY <1>3, <1>5, <1>7
<1>9. page' = [open |-> TRUE, status |-> status, cursor |-> newest]
  BY <1>1
<1>10. status \in [Ids -> Locking \cup {"ABSENT"}]
  OBVIOUS
<1>11. \A c \in Ids : c <= newest /\ cloud[c] \in Locking =>
         c <= cursor \/ status[c] # "ABSENT"
  BY <1>3 DEF Ids, Locking, Active
<1> HIDE DEF newest, status, listed
<1>12. page'.open = TRUE /\ page'.cursor = newest /\ page'.status = status
  BY <1>9
<1>13. TypeOK'
  <2>1. newest \in 0..MaxCommands
    BY <1>3, <1>8
  <2>2. page' \in [open : BOOLEAN, cursor : 0..MaxCommands,
                   status : [Ids -> Locking \cup {"ABSENT"}]]
    BY <1>9, <1>10, <2>1
  <2> QED
    BY <1>2, <2>2 DEF Inv, TypeOK
<1>14. Numbered'
  BY <1>2, <1>8, <1>12 DEF Inv, Numbered
<1>15. PageCovers'
  BY <1>2, <1>11, <1>12 DEF Inv, PageCovers, CursorCoversCommands
<1>16. OneCommand' /\ CursorCoversCommands' /\ Reported'
  BY <1>2 DEF Inv, OneCommand, CursorCoversCommands, Reported, Pending
<1> QED
  BY <1>13, <1>14, <1>15, <1>16 DEF Inv

LEMMA PersistInv == Inv /\ (PersistPage \/ LosePage) => Inv'
<1> SUFFICES ASSUME Inv, PersistPage \/ LosePage PROVE Inv'
  OBVIOUS
<1>1. UNCHANGED <<created, cloud, overdue, accepted, sequence, recorded, outbox>>
      /\ page.open /\ page' = NoPage
  BY DEF PersistPage, LosePage
<1>2. page'.open = FALSE
  BY <1>1 DEF NoPage
<1>3. NoPage \in [open : BOOLEAN, cursor : 0..MaxCommands,
                  status : [Ids -> Locking \cup {"ABSENT"}]]
  BY DeviceCommandsAssumption DEF NoPage, NoStatus
<1>4. PageCovers' /\ OneCommand'
  BY <1>1, <1>2 DEF Inv, PageCovers, OneCommand
<1>5. CASE LosePage
  <2>1. UNCHANGED <<cursor, phone>>
    BY <1>5 DEF LosePage
  <2>2. TypeOK'
    BY <1>1, <1>3, <2>1 DEF Inv, TypeOK
  <2>3. Numbered' /\ CursorCoversCommands' /\ Reported'
    BY <1>1, <1>2, <2>1 DEF Inv, Numbered, CursorCoversCommands, Reported, Pending
  <2> QED
    BY <1>4, <2>2, <2>3 DEF Inv
<1>6. CASE PersistPage
  <2>1. /\ phone' = [c \in Ids |-> IF phone[c] = "ABSENT" THEN page.status[c] ELSE phone[c]]
        /\ cursor' = page.cursor
    BY <1>6 DEF PersistPage
  <2>2. phone' \in [Ids -> Statuses \cup {"ABSENT"}]
    BY <2>1 DEF Inv, TypeOK, Statuses
  <2>3. TypeOK'
    BY <1>1, <1>3, <2>1, <2>2 DEF Inv, TypeOK
  <2>4. Numbered'
    BY <1>1, <1>2, <2>1 DEF Inv, Numbered
  <2>5. CursorCoversCommands'
    BY <1>1, <2>1 DEF Inv, PageCovers, CursorCoversCommands
  <2>6. Reported'
    BY <1>1, <2>1 DEF Inv, Reported, Pending
  <2> QED
    BY <1>4, <2>3, <2>4, <2>5, <2>6 DEF Inv
<1> QED
  BY <1>5, <1>6

LEMMA ReportInv ==
  ASSUME Inv, NEW c \in Ids, NEW e \in Events, RecordLocalEvent(c, e)
  PROVE  Inv'
<1>1. /\ UNCHANGED <<created, cloud, overdue, accepted, sequence, page, cursor>>
      /\ recorded' = recorded \cup {<<c, e>>}
      /\ outbox' = Append(outbox, <<c, e>>)
      /\ phone' = [phone EXCEPT ![c] = e]
      /\ phone[c] \in Locking
  BY DEF RecordLocalEvent, Served
<1>2. <<c, e>> \in Report /\ e \in Statuses
  BY DEF Report, Events, Statuses, Locking, Active, Over
<1>3. TypeOK'
  BY <1>1, <1>2 DEF Inv, TypeOK
<1>4. Pending' \subseteq Pending \cup {<<c, e>>}
  <2>1. outbox \in Seq(Report)
    BY DEF Inv, TypeOK
  <2> QED
    BY <1>1, <1>2, <2>1 DEF Pending
<1>5. phone'[c] = e /\ e # "ABSENT" /\ \A d \in Ids : d # c => phone'[d] = phone[d]
  BY <1>1 DEF Inv, TypeOK, Events
<1>6. OneCommand' /\ Numbered'
  BY <1>1 DEF Inv, OneCommand, Numbered
<1>7. CursorCoversCommands' /\ PageCovers'
  BY <1>1, <1>5 DEF Inv, CursorCoversCommands, PageCovers
<1>8. Reported'
  <2>1. <<c, "OFF">> \notin recorded
    BY <1>1 DEF Inv, Reported, Locking, Active
  <2> QED
    BY <1>1, <1>4, <1>5, <2>1 DEF Inv, Reported
<1> QED
  BY <1>3, <1>6, <1>7, <1>8 DEF Inv

LEMMA DrainInv ==
  ASSUME Inv, NEW i \in 1..Len(outbox), DrainEvent(i)
  PROVE  Inv'
<1>1. outbox \in Seq(Report) /\ outbox[i] \in Report /\ outbox[i] \in recorded
  BY DEF Inv, TypeOK, Reported, Pending
<1>2. PICK c \in Ids, e \in Events : outbox[i] = <<c, e>>
  BY <1>1 DEF Report
<1>3. /\ outbox' \in Seq(Report)
      /\ Pending' \subseteq recorded
  <2>1. CASE UNCHANGED outbox
    BY <1>1, <2>1 DEF Inv, Reported, Pending
  <2>2. CASE outbox' = RemoveAt(outbox, i)
    BY <1>1, <2>2, PendingRemoved DEF Inv, Reported
  <2> QED
    BY <2>1, <2>2 DEF DrainEvent
<1>4. UNCHANGED <<created, overdue, sequence, page, cursor, phone, recorded>>
  BY DEF DrainEvent
<1>5. CASE RecordEvent(outbox[i])
  <2>1. RecordEvent(<<c, e>>)
    BY <1>2, <1>5
  <2>2. /\ cloud' \in [Ids -> Statuses \cup {"ABSENT"}]
        /\ NoneEnters
        /\ \A d \in Ids : \/ cloud'[d] = cloud[d]
                          \/ cloud[d] \in Locking /\ cloud'[d] = "EXPIRED"
                          \/ cloud[d] \in Locking /\ d = c /\ cloud'[d] = e
        /\ accepted' \subseteq accepted \cup {<<c, e>>}
    BY <2>1, RecordedStatus DEF Inv
  <2>3. accepted' \subseteq recorded
    BY <1>1, <1>2, <2>2 DEF Inv, Reported
  <2>4. \A d \in Ids : cloud[d] = "ABSENT" => cloud'[d] = "ABSENT"
    BY <2>2 DEF Locking, Active
  <2>5. \A d \in Ids : \/ cloud'[d] = cloud[d]
                       \/ cloud'[d] \in {"CANCELLED", "FAILED", "EXPIRED"}
                       \/ <<d, cloud'[d]>> \in recorded
    BY <1>1, <1>2, <2>2
  <2>6. overdue' \subseteq Ids
    BY <1>4 DEF Inv, TypeOK
  <2> QED
    BY <1>3, <1>4, <2>2, <2>3, <2>4, <2>5, <2>6, CloudInv
<1>6. CASE UNCHANGED <<cloud, accepted>>
  <2>1. NoneEnters
    BY <1>6 DEF NoneEnters
  <2>2. cloud' \in [Ids -> Statuses \cup {"ABSENT"}] /\ overdue' \subseteq Ids
        /\ accepted' \subseteq recorded
    BY <1>4, <1>6 DEF Inv, TypeOK, Reported
  <2> QED
    BY <1>3, <1>4, <1>6, <2>1, <2>2, CloudInv
<1> QED
  BY <1>5, <1>6 DEF DrainEvent

LEMMA NextInv == Inv /\ [Next]_vars => Inv'
<1> SUFFICES ASSUME Inv, [Next]_vars PROVE Inv'
  OBVIOUS
<1>1. CASE CreateCommand
  BY <1>1, CreateInv
<1>2. CASE ReadCommand \/ \E c \in Ids : StopCommand(c) \/ BecomeOverdue(c)
  BY <1>2, AdminInv
<1>3. CASE SequenceChanges
  BY <1>3, SequenceInv
<1>4. CASE PollCommands
  BY <1>4, PollInv
<1>5. CASE PersistPage \/ LosePage
  BY <1>5, PersistInv
<1>6. CASE \E c \in Ids, e \in Events : RecordLocalEvent(c, e)
  BY <1>6, ReportInv
<1>7. CASE \E i \in 1..Len(outbox) : DrainEvent(i)
  BY <1>7, DrainInv
<1>8. CASE UNCHANGED vars
  BY <1>8 DEF vars, Inv, TypeOK, OneCommand, Numbered, CursorCoversCommands, PageCovers,
              Reported, Pending
<1> QED
  BY <1>1, <1>2, <1>3, <1>4, <1>5, <1>6, <1>7, <1>8 DEF Next

(* Inv is an invariant of the device, its gateway and the cloud.           *)
THEOREM Invariance == Spec => []Inv
<1>1. Init => Inv
  BY InitInv
<1>2. Inv /\ [Next]_vars => Inv'
  BY NextInv
<1> QED
  BY <1>1, <1>2, PTL DEF Spec

(* The rows of the cloud and of the phone keep their types.                *)
THEOREM TypeCorrect == Spec => []TypeOK
<1>1. Inv => TypeOK
  BY DEF Inv
<1> QED
  BY <1>1, Invariance, PTL

(* A device never has two manual tests, a stopped one that is not yet off  *)
(* included.                                                               *)
THEOREM Exclusion == Spec => []OneCommand
<1>1. Inv => OneCommand
  BY DEF Inv
<1> QED
  BY <1>1, Invariance, PTL

(* The cloud never claims a physical effect the ESP did not report.        *)
THEOREM Proven == Spec => []PhysicalProof
<1>1. Inv => PhysicalProof
  BY DEF Inv, Reported, PhysicalProof
<1> QED
  BY <1>1, Invariance, PTL

(* No poll skips a command, however old the page it stores.                *)
THEOREM NothingSkipped == Spec => []CursorCoversCommands
<1>1. Inv => CursorCoversCommands
  BY DEF Inv
<1> QED
  BY <1>1, Invariance, PTL

-------------------------------------------------------------------------------

(* No step of the cloud moves a command that is over.                      *)
LEMMA OverStep ==
  ASSUME Inv, [Next]_vars, NEW c \in Ids, cloud[c] \in Over
  PROVE  cloud'[c] = cloud[c]
<1>1. Expired[c] = cloud[c]
  BY ExpiredStatus DEF Inv, Over, Active
<1>2. CASE CreateCommand
  <2>1. created \in Nat /\ created + 1 > created
    BY DEF Inv, TypeOK
  <2>2. c # created + 1
    BY <2>1 DEF Inv, Numbered, Over
  <2> QED
    BY <1>1, <1>2, <2>2 DEF CreateCommand, Expired
<1>3. CASE ReadCommand \/ \E d \in Ids : StopCommand(d) \/ BecomeOverdue(d)
  <2>1. \/ cloud' = Expired
        \/ UNCHANGED cloud
        \/ \E d \in Ids : Expired[d] \in Active /\ cloud' = [Expired EXCEPT ![d] = "CANCELLED"]
    BY <1>3 DEF ReadCommand, StopCommand, BecomeOverdue
  <2> QED
    BY <1>1, <2>1, ExpiredStatus DEF Inv, Over, Active
<1>4. CASE \E i \in 1..Len(outbox) : DrainEvent(i)
  <2>1. PICK i \in 1..Len(outbox) : DrainEvent(i)
    BY <1>4
  <2>2. PICK d \in Ids, e \in Events : outbox[i] = <<d, e>>
    BY DEF Inv, TypeOK, Report
  <2>3. CASE RecordEvent(<<d, e>>)
    <3>1. \/ cloud'[c] = cloud[c]
          \/ cloud[c] \in Locking
      BY <2>3, RecordedStatus DEF Inv
    <3> QED
      BY <3>1 DEF Over, Locking, Active
  <2> QED
    BY <2>1, <2>2, <2>3 DEF DrainEvent
<1>5. CASE \/ SequenceChanges \/ PollCommands \/ PersistPage \/ LosePage
           \/ \E d \in Ids, e \in Events : RecordLocalEvent(d, e)
           \/ UNCHANGED vars
  BY <1>5 DEF SequenceChanges, PollCommands, PersistPage, LosePage, RecordLocalEvent, vars
<1> QED
  BY <1>2, <1>3, <1>4, <1>5 DEF Next

(* A command that is off, failed or expired stays so, whatever reports and *)
(* stops still come in.                                                    *)
THEOREM OverStays == Spec => OverIsFinal
<1>1. Inv /\ [Next]_vars => [\A c \in Ids : cloud[c] \in Over => cloud'[c] = cloud[c]]_vars
  BY OverStep
<1> QED
  BY <1>1, Invariance, PTL DEF Spec, OverIsFinal

(* A report leaves the outbox only when its acceptance was committed.      *)
LEMMA SentStep ==
  ASSUME "commit" \notin Faults, Inv, [Next]_vars, SentIsKnown
  PROVE  SentIsKnown'
<1>1. CASE UNCHANGED <<recorded, outbox>> /\ accepted \subseteq accepted'
  BY <1>1 DEF SentIsKnown, Pending
<1>2. CASE \E c \in Ids, e \in Events : RecordLocalEvent(c, e)
  <2>1. PICK c \in Ids, e \in Events :
          recorded' = recorded \cup {<<c, e>>} /\ outbox' = Append(outbox, <<c, e>>)
    BY <1>2 DEF RecordLocalEvent
  <2>2. accepted' = accepted /\ outbox \in Seq(Report) /\ <<c, e>> \in Report
    BY <1>2 DEF RecordLocalEvent, Inv, TypeOK, Report
  <2>3. <<c, e>> \in Pending' /\ Pending \subseteq Pending'
    <3>1. Len(outbox') = Len(outbox) + 1 /\ outbox'[Len(outbox) + 1] = <<c, e>>
          /\ \A i \in 1..Len(outbox) : outbox'[i] = outbox[i]
      BY <2>1, <2>2
    <3>2. Len(outbox) \in Nat
      BY <2>2
    <3>3. Len(outbox) + 1 \in 1..Len(outbox') /\ \A i \in 1..Len(outbox) : i \in 1..Len(outbox')
      BY <3>1, <3>2
    <3> QED
      BY <3>1, <3>3 DEF Pending
  <2> QED
    BY <2>1, <2>2, <2>3 DEF SentIsKnown
<1>3. CASE \E i \in 1..Len(outbox) : DrainEvent(i)
  <2>1. PICK i \in 1..Len(outbox) : DrainEvent(i)
    BY <1>3
  <2>2. PICK c \in Ids, e \in Events : outbox[i] = <<c, e>>
    BY DEF Inv, TypeOK, Report
  <2>3. /\ RecordEvent(<<c, e>>) /\ recorded' = recorded
        /\ outbox' = RemoveAt(outbox, i) \/ UNCHANGED outbox
    BY <2>1, <2>2 DEF DrainEvent
  <2>4. accepted \subseteq accepted' /\ <<c, e>> \in accepted'
    BY <2>3, RecordedStatus DEF Inv
  <2>5. Pending \ {<<c, e>>} \subseteq Pending'
    <3>1. CASE UNCHANGED outbox
      BY <3>1 DEF Pending
    <3>2. CASE outbox' = RemoveAt(outbox, i)
      BY <2>2, <3>2, PendingRemoved DEF Inv, TypeOK
    <3> QED
      BY <2>3, <3>1, <3>2
  <2> QED
    BY <2>3, <2>4, <2>5 DEF SentIsKnown
<1> QED
  BY <1>1, <1>2, <1>3
  DEF Next, vars, CreateCommand, ReadCommand, StopCommand, BecomeOverdue,
      SequenceChanges, PollCommands, PersistPage, LosePage

(* Unless a commit fails after its answer was sent, the phone keeps every  *)
(* report the cloud does not have.                                         *)
THEOREM OutboxKept ==
  ASSUME "commit" \notin Faults
  PROVE  Spec => []SentIsKnown
<1>1. Init => SentIsKnown
  BY DEF Init, SentIsKnown
<1>2. Inv /\ SentIsKnown /\ [Next]_vars => SentIsKnown'
  BY SentStep
<1> QED
  BY <1>1, <1>2, Invariance, PTL DEF Spec
-------------------------------------------------------------------------------
(* The refinement of CommandLease.  A step of the cloud expires what is    *)
(* overdue and then does what it is for; as one command at most occupies   *)
(* the device, only one of the two changes anything, or both are the grant *)
(* of the next lease.                                                      *)

(* The commands that exist are those created, and only they are listed.    *)
Known ==
  \A c \in Ids : /\ cloud[c] # "ABSENT" <=> c <= created
                 /\ page.status[c] # "ABSENT" \/ phone[c] # "ABSENT" => c <= created

LEMMA KnownStarts == Init => Known
  BY DeviceCommandsAssumption DEF Init, Known, NoPage, NoStatus, Ids

LEMMA ExpiresOne ==
  ASSUME Inv
  PROVE  \/ Expired = cloud
         \/ \E c \in Ids : cloud[c] \in Active /\ Expired = [cloud EXCEPT ![c] = "EXPIRED"]
<1>1. cloud \in [Ids -> Statuses \cup {"ABSENT"}] /\ Expired \in [Ids -> Statuses \cup {"ABSENT"}]
  BY ExpiredStatus DEF Inv, TypeOK
<1>2. CASE \A c \in Ids : Expired[c] = cloud[c]
  BY <1>1, <1>2
<1>3. ASSUME NEW c \in Ids, Expired[c] # cloud[c]
      PROVE  cloud[c] \in Active /\ Expired = [cloud EXCEPT ![c] = "EXPIRED"]
  <2>1. Expired[c] = "EXPIRED" /\ cloud[c] \in Active
    BY <1>3, ExpiredStatus DEF Inv
  <2>2. \A d \in Ids : d # c => Expired[d] = cloud[d]
    BY <2>1, ExpiredStatus DEF Inv, OneCommand, Locking
  <2>3. \A d \in Ids : Expired[d] = [cloud EXCEPT ![c] = "EXPIRED"][d]
    BY <1>1, <2>1, <2>2
  <2> QED
    BY <1>1, <2>1, <2>3
<1> QED
  BY <1>2, <1>3

(* A command that is asked about and not overdue is the only one there is. *)
LEMMA HeldAlone ==
  ASSUME Inv, NEW c \in Ids, Expired[c] \in Locking
  PROVE  Expired = cloud
<1>1. ASSUME NEW d \in Ids, cloud[d] \in Active, Expired = [cloud EXCEPT ![d] = "EXPIRED"]
      PROVE  FALSE
  <2>1. Expired[d] = "EXPIRED"
    BY <1>1 DEF Inv, TypeOK
  <2>2. d # c
    BY <2>1 DEF Locking, Active
  <2>3. cloud[c] \in Locking
    BY <1>1, <2>2 DEF Inv, TypeOK
  <2> QED
    BY <1>1, <2>2, <2>3 DEF Inv, OneCommand, Locking
<1> QED
  BY <1>1, ExpiresOne

LEMMA ExpiryLapses ==
  ASSUME Inv, cloud' = Expired, UNCHANGED recorded
  PROVE  Lease!LeaseNext \/ UNCHANGED <<cloud, recorded>>
<1>1. ASSUME NEW c \in Ids, cloud[c] \in Active, Expired = [cloud EXCEPT ![c] = "EXPIRED"]
      PROVE  Lease!LeaseNext
  <2>1. Lease!Lapse(c)
    BY <1>1 DEF Lease!Lapse, Lease!Held, Active
  <2> QED
    BY <2>1 DEF Lease!LeaseNext, Lease!Leases, Ids
<1> QED
  BY <1>1, ExpiresOne

LEMMA CreateGrants ==
  ASSUME Inv, Known, CreateCommand
  PROVE  Lease!LeaseNext
<1> DEFINE n == created + 1
<1>1. n \in Ids
  BY DeviceCommandsAssumption DEF Inv, TypeOK, CreateCommand, Ids
<1>2. \A m \in Ids : cloud[m] = "ABSENT" <=> m >= n
  BY DeviceCommandsAssumption DEF Inv, TypeOK, Known, Ids
<1>3. \A m \in Ids : Expired[m] \notin Locking
  BY DEF CreateCommand
<1>4. \A m \in Ids : cloud[m] # "CANCELLED"
  BY <1>3, ExpiredStatus DEF Inv, Locking, Active
<1>5. \A m \in Ids : Expired[m] = IF cloud[m] \in Active THEN "EXPIRED" ELSE cloud[m]
  BY <1>3, ExpiredStatus DEF Inv, Locking
<1>6. Expired \in [Ids -> Statuses \cup {"ABSENT"}]
  BY ExpiredStatus DEF Inv
<1>7. cloud' = [Expired EXCEPT ![n] = "QUEUED"] /\ UNCHANGED recorded
  BY DEF CreateCommand
<1> HIDE DEF n
<1>8. cloud' = [m \in Ids |-> IF m = n THEN "QUEUED" ELSE IF cloud[m] \in Active THEN "EXPIRED" ELSE cloud[m]]
  BY <1>5, <1>6, <1>7
<1>9. Lease!Grant(n)
  BY <1>2, <1>4, <1>7, <1>8 DEF Lease!Grant, Lease!Leases, Lease!Held, Ids, Active
<1> QED
  BY <1>1, <1>9 DEF Lease!LeaseNext, Lease!Leases, Ids

LEMMA StopStops ==
  ASSUME Inv, NEW c \in Ids, StopCommand(c)
  PROVE  Lease!LeaseNext \/ UNCHANGED <<cloud, recorded>>
<1>1. UNCHANGED recorded
  BY DEF StopCommand
<1>2. CASE Expired[c] \in Active
  <2>1. Expired = cloud /\ cloud' = [cloud EXCEPT ![c] = "CANCELLED"]
    BY <1>2, HeldAlone DEF StopCommand, Locking
  <2>2. Lease!Stop(c)
    BY <1>1, <1>2, <2>1 DEF Lease!Stop, Lease!Held, Active
  <2> QED
    BY <2>2 DEF Lease!LeaseNext, Lease!Leases, Ids
<1>3. CASE Expired[c] \notin Active
  BY <1>1, <1>3, ExpiryLapses DEF StopCommand
<1> QED
  BY <1>2, <1>3

LEMMA ReportAdvances ==
  ASSUME Inv, NEW c \in Ids, NEW e \in Events, <<c, e>> \in recorded, RecordEvent(<<c, e>>), UNCHANGED recorded
  PROVE  Lease!LeaseNext \/ UNCHANGED <<cloud, recorded>>
<1>1. CASE cloud' = Expired
  BY <1>1, ExpiryLapses
<1>2. CASE Expired[c] \in NextFrom[e] /\ cloud' = [Expired EXCEPT ![c] = e]
  <2>1. Expired \in [Ids -> Statuses \cup {"ABSENT"}]
    BY ExpiredStatus DEF Inv
  <2>2. CASE Expired[c] = e
    <3>1. cloud' = Expired
      BY <1>2, <2>1, <2>2
    <3> QED
      BY <3>1, ExpiryLapses
  <2>3. CASE Expired[c] # e
    <3>1. Expired[c] \in Locking
      BY <1>2, <2>3 DEF NextFrom, Events, Locking, Active
    <3>2. Expired = cloud /\ cloud' = [cloud EXCEPT ![c] = e]
      BY <1>2, <3>1, HeldAlone
    <3>3. CASE e = "CANCELLED"
      <4>1. Lease!Stop(c)
        BY <1>2, <2>3, <3>2, <3>3 DEF Lease!Stop, Lease!Held, NextFrom, Active
      <4> QED
        BY <4>1 DEF Lease!LeaseNext, Lease!Leases, Ids
    <3>4. CASE e = "EXPIRED"
      <4>1. Lease!Lapse(c)
        BY <1>2, <3>2, <3>4 DEF Lease!Lapse, Lease!Held, NextFrom, Active
      <4> QED
        BY <4>1 DEF Lease!LeaseNext, Lease!Leases, Ids
    <3>5. CASE e \in {"FORWARDED", "RECEIVED", "APPLIED", "OFF", "FAILED"}
      <4>1. <<cloud[c], e>> \in {<<"QUEUED", "FORWARDED">>, <<"FORWARDED", "RECEIVED">>,
                                 <<"RECEIVED", "APPLIED">>, <<"APPLIED", "OFF">>, <<"CANCELLED", "OFF">>}
                                  \cup Active \X {"FAILED"}
        BY <1>2, <2>3, <3>2, <3>5 DEF NextFrom, Active
      <4>2. Lease!Advance(c, e)
        BY <3>2, <4>1 DEF Lease!Advance, Lease!Held, Active
      <4>3. e \in Lease!Reports
        BY <3>5 DEF Lease!Reports, Lease!Held, Lease!Ending
      <4> QED
        BY <4>2, <4>3 DEF Lease!LeaseNext, Lease!Leases, Ids
    <3> QED
      BY <3>3, <3>4, <3>5 DEF Events
  <2> QED
    BY <2>2, <2>3
<1> QED
  BY <1>1, <1>2 DEF RecordEvent, Follows

(* The ESP reports on a command that was created.                          *)
LEMMA ReportReports ==
  ASSUME Inv, Known, NEW c \in Ids, NEW e \in Events, RecordLocalEvent(c, e)
  PROVE  Lease!LeaseNext
<1>1. phone[c] # "ABSENT"
  BY DEF RecordLocalEvent, Served, Locking, Active
<1>2. cloud[c] # "ABSENT"
  BY <1>1 DEF Known
<1>3. Lease!Report(c, e)
  BY <1>2 DEF Lease!Report, RecordLocalEvent
<1>4. e \in Lease!Reports
  BY DEF Events, Lease!Reports, Lease!Held, Lease!Ending
<1> QED
  BY <1>3, <1>4 DEF Lease!LeaseNext, Lease!Leases, Ids

LEMMA LeaseStep ==
  ASSUME Inv, Known, [Next]_vars
  PROVE  Lease!LeaseNext \/ UNCHANGED <<cloud, recorded>>
<1>1. CASE ReadCommand
  BY <1>1, ExpiryLapses DEF ReadCommand
<1>2. ASSUME NEW i \in 1..Len(outbox), DrainEvent(i)
      PROVE  Lease!LeaseNext \/ UNCHANGED <<cloud, recorded>>
  <2>1. PICK c \in Ids, e \in Events : outbox[i] = <<c, e>>
    BY DEF Inv, TypeOK, Report
  <2>2. <<c, e>> \in recorded /\ UNCHANGED recorded
    BY <1>2, <2>1 DEF Inv, Reported, Pending, DrainEvent
  <2> QED
    BY <1>2, <2>1, <2>2, ReportAdvances DEF DrainEvent
<1>3. CASE \/ \E c \in Ids : BecomeOverdue(c)
           \/ SequenceChanges \/ PollCommands \/ PersistPage \/ LosePage \/ UNCHANGED vars
  BY <1>3 DEF BecomeOverdue, SequenceChanges, PollCommands, PersistPage, LosePage, vars
<1> QED
  BY <1>1, <1>2, <1>3, CreateGrants, StopStops, ReportReports DEF Next

LEMMA KnownStep == Inv /\ Known /\ [Next]_vars => Known'
<1> SUFFICES ASSUME Inv, Known, [Next]_vars PROVE Known'
  OBVIOUS
<1>1. ASSUME UNCHANGED <<created, page, phone>>, NEW S, cloud' \in [Ids -> S],
             \A c \in Ids : cloud[c] = "ABSENT" <=> cloud'[c] = "ABSENT"
      PROVE  Known'
  BY <1>1 DEF Known
<1>2. CASE CreateCommand
  <2>1. created \in Nat /\ Expired \in [Ids -> Statuses \cup {"ABSENT"}]
    BY ExpiredStatus DEF Inv, TypeOK
  <2>2. \A c \in Ids : cloud'[c] = IF c = created + 1 THEN "QUEUED" ELSE Expired[c]
    BY <1>2, <2>1 DEF CreateCommand
  <2>3. \A c \in Ids : Expired[c] = "ABSENT" <=> cloud[c] = "ABSENT"
    BY ExpiredStatus DEF Inv, Active
  <2>4. \A c \in Ids : c <= created + 1 <=> c <= created \/ c = created + 1
    BY <2>1, DeviceCommandsAssumption DEF Ids
  <2> QED
    BY <1>2, <2>2, <2>3, <2>4 DEF Known, CreateCommand
<1>3. CASE \/ ReadCommand
           \/ \E c \in Ids : StopCommand(c) \/ BecomeOverdue(c)
           \/ SequenceChanges
  <2>1. UNCHANGED <<created, page, phone>>
    BY <1>3 DEF ReadCommand, StopCommand, BecomeOverdue, SequenceChanges
  <2>2. \A c \in Ids : cloud'[c] = "ABSENT" <=> cloud[c] = "ABSENT"
    BY <1>3, ExpiredStatus DEF Inv, TypeOK, Active, ReadCommand, StopCommand, BecomeOverdue, SequenceChanges
  <2> QED
    BY <2>1, <2>2 DEF Known
<1>4. CASE PollCommands
  <2>1. UNCHANGED <<created, cloud, phone>>
    BY <1>4 DEF PollCommands
  <2>2. \A c \in Ids : page'.status[c] # "ABSENT" => cloud[c] # "ABSENT"
    BY <1>4 DEF PollCommands
  <2> QED
    BY <2>1, <2>2 DEF Known
<1>5. CASE PersistPage \/ LosePage
  <2>1. UNCHANGED <<created, cloud>> /\ \A c \in Ids : page'.status[c] = "ABSENT"
    BY <1>5 DEF PersistPage, LosePage, NoPage, NoStatus
  <2>2. \A c \in Ids : phone'[c] # "ABSENT" => phone[c] # "ABSENT" \/ page.status[c] # "ABSENT"
    BY <1>5 DEF PersistPage, LosePage
  <2> QED
    BY <2>1, <2>2 DEF Known
<1>6. CASE \E c \in Ids, e \in Events : RecordLocalEvent(c, e)
  <2>1. PICK c \in Ids, e \in Events : RecordLocalEvent(c, e)
    BY <1>6
  <2>2. phone[c] # "ABSENT"
    BY <2>1 DEF RecordLocalEvent, Served, Locking, Active
  <2>3. UNCHANGED <<created, cloud, page>> /\ \A d \in Ids : phone'[d] # "ABSENT" => phone[d] # "ABSENT"
    BY <2>1, <2>2 DEF RecordLocalEvent, Inv, TypeOK
  <2> QED
    BY <2>3 DEF Known
<1>7. CASE \E i \in 1..Len(outbox) : DrainEvent(i)
  <2>1. PICK i \in 1..Len(outbox) : DrainEvent(i)
    BY <1>7
  <2>2. PICK c \in Ids, e \in Events : outbox[i] = <<c, e>>
    BY DEF Inv, TypeOK, Report
  <2>3. \A d \in Ids : cloud'[d] = "ABSENT" <=> cloud[d] = "ABSENT"
    <3>1. CASE RecordEvent(<<c, e>>)
      BY <3>1, RecordedStatus DEF Inv, Events, Locking, Active
    <3> QED
      BY <2>1, <2>2, <3>1 DEF DrainEvent
  <2> QED
    BY <2>1, <2>3 DEF Known, DrainEvent
<1>8. CASE UNCHANGED vars
  BY <1>8 DEF Known, vars
<1> QED
  BY <1>2, <1>3, <1>4, <1>5, <1>6, <1>7, <1>8 DEF Next

(* The commands of the cloud are leases of the device, for any number of   *)
(* them, every ESP and every fault.                                        *)
THEOREM LeaseKept == Spec => KeepsLease
<1>1. Init => Lease!LeaseInit
  BY DEF Init, Lease!LeaseInit, NoStatus, Ids, Lease!Leases
<1>2. Inv /\ Known /\ [Next]_vars => [Lease!LeaseNext]_(Lease!leaseVars)
  BY LeaseStep DEF Lease!leaseVars
<1> QED
  BY <1>1, <1>2, KnownStarts, KnownStep, Invariance, PTL DEF Spec, KeepsLease, Lease!LeaseSpec

(* Whatever implements the leases has the device for one of them at a      *)
(* time: exclusion is part of what the cloud is shown to keep.             *)
THEOREM LeaseExcludes == Lease!LeaseSpec => []OneCommand
<1> DEFINE Alone == /\ cloud \in [Ids -> Lease!Held \cup Lease!Ending \cup {"CANCELLED", "ABSENT"}]
                    /\ OneCommand
<1>1. Lease!LeaseInit => Alone
  BY DEF Lease!LeaseInit, Lease!Leases, Ids, OneCommand, Locking, Active
<1>2. Alone /\ [Lease!LeaseNext]_(Lease!leaseVars) => Alone'
  <2> SUFFICES ASSUME Alone, [Lease!LeaseNext]_(Lease!leaseVars) PROVE Alone'
    OBVIOUS
  <2> USE DEF OneCommand, Locking, Active, Lease!Held, Lease!Ending, Lease!Leases, Ids
  <2>1. ASSUME NEW n \in Ids, Lease!Grant(n) PROVE Alone'
    BY <2>1 DEF Lease!Grant
  <2>2. ASSUME NEW n \in Ids, Lease!Lapse(n) \/ Lease!Stop(n) PROVE Alone'
    BY <2>2 DEF Lease!Lapse, Lease!Stop
  <2>3. ASSUME NEW n \in Ids, NEW e \in Lease!Reports, Lease!Advance(n, e) PROVE Alone'
    BY <2>3 DEF Lease!Advance, Lease!Reports
  <2>4. ASSUME UNCHANGED cloud PROVE Alone'
    BY <2>4
  <2> QED
    BY <2>1, <2>2, <2>3, <2>4 DEF Lease!LeaseNext, Lease!leaseVars, Lease!Report
<1> QED
  BY <1>1, <1>2, PTL DEF Lease!LeaseSpec

===============================================================================
