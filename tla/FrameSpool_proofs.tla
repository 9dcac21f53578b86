--------------------------- MODULE FrameSpool_proofs ---------------------------
(***************************************************************************)
(* Proofs about FrameSpool for any number of commands, captures, frames,   *)
(* contents and attempts.                                                  *)
(*                                                                         *)
(* The first invariant says what the phone knows between the steps of a    *)
(* worker: work that has begun is for a known frame, and a 2xx that was    *)
(* received is about the content the cloud keeps.  The second follows a    *)
(* burst: as long as it is right, every frame behind its index is durable. *)
(***************************************************************************)
EXTENDS FrameSpool, FiniteSetTheorems, TLAPS

(* The command, the captures at the button and the bridge are different    *)
(* producers, and a capture at the button is none a command names.         *)
LEMMA Names ==
  /\ Cameras = {Command} \cup Manual /\ Producers = Cameras \cup {Bridge}
  /\ Command # Bridge /\ Command \notin Manual /\ Bridge \notin Manual
  /\ Manual \subseteq Captures
  /\ \A c \in Manual : c \in Nat /\ c > MaxCursor
BY FrameSpoolAssumption DEF Command, Manual, Bridge, Cameras, Producers, Captures

USE Names DEF cancelVars

(* Who may be at work: the camera or the bridge, each on slots of its own. *)
BurstInv ==
  /\ source # "ANDROID_CAMERA" =>
       /\ \A p \in Cameras : burst[p] = NoBurst
       /\ detached = {}
       /\ ui \in {"off", "idle"}
       /\ cursor = 0
  /\ source = "ANDROID_CAMERA" => burst[Bridge] = NoBurst
  /\ burst[Command] # NoBurst => burst[Command].cap \in 1 .. MaxCursor
  /\ \A c \in Manual : burst[c] # NoBurst => burst[c].cap = c
  /\ \A p \in Cameras : burst[p].pc # "verify"

WorkInv ==
  \A s \in Slots :
    /\ work[s] \in {"posting", "accepted", "acked"} => Known(s)
    /\ work[s] = "accepted" => ledger[s] = row[s].sha
    /\ work[s] = "acked" => row[s].ack

Inv ==
  /\ TypeOK
  /\ BurstInv
  /\ WorkInv
  /\ AckedIsStored

-------------------------------------------------------------------------------

(* A producer at work is on a slot, with its content once it has one.      *)
LEMMA AtWork ==
  ASSUME TypeOK, NEW p \in Producers, burst[p].pc # "none"
  PROVE  burst[p] \in Burst /\ burst[p] # NoBurst /\ Slot(p) \in Slots
<1>1. burst[p] \in Burst
  BY DEF TypeOK, NoBurst
<1> QED
  BY <1>1 DEF Burst, NoBurst, Slot, SlotOf, Slots

(* The next frame of a burst, or its end, is a burst of the same capture,  *)
(* neither in an insert nor in a check.                                    *)
LEMMA AdvancedBurst ==
  ASSUME TypeOK, NEW p \in Producers, NEW ok \in BOOLEAN, burst[p] \in Burst
  PROVE  /\ Advanced(p, ok) \in Burst
         /\ Advanced(p, ok) # NoBurst
         /\ Advanced(p, ok).cap = burst[p].cap
         /\ Advanced(p, ok).pc \in {"shoot", "complete"}
         /\ Advanced(p, ok).sha = NoContent
         /\ Advanced(p, ok).pc = "shoot" => Advanced(p, ok).idx = burst[p].idx + 1
         /\ Advanced(p, ok).saved = Saved(burst[p], ok)
<1> DEFINE b == burst[p]
<1>1. b.idx \in Nat /\ Saved(b, ok) \in SUBSET Indexes /\ Frames \in Nat
  BY FrameSpoolAssumption DEF Burst, Indexes, Saved
<1>2. CASE p \in Cameras /\ b.idx + 1 < Frames
  <2>1. Advanced(p, ok) = [b EXCEPT !.pc = "shoot", !.idx = @ + 1, !.sha = NoContent, !.saved = Saved(b, ok)]
    BY <1>2 DEF Advanced
  <2>2. b.idx + 1 \in Indexes
    BY <1>1, <1>2 DEF Indexes
  <2>3. Advanced(p, ok) \in Burst
    BY <1>1, <2>1, <2>2 DEF Burst
  <2>4. Advanced(p, ok).pc = "shoot" /\ Advanced(p, ok).cap = b.cap /\ Advanced(p, ok).idx = b.idx + 1
    BY <2>1 DEF Burst
  <2>5. Advanced(p, ok).sha = NoContent /\ Advanced(p, ok).saved = Saved(b, ok)
    BY <2>1 DEF Burst
  <2> QED
    BY <2>3, <2>4, <2>5 DEF NoBurst
<1>3. CASE ~(p \in Cameras /\ b.idx + 1 < Frames)
  <2>1. Advanced(p, ok) = [b EXCEPT !.pc = "complete", !.sha = NoContent, !.saved = Saved(b, ok)]
    BY <1>3 DEF Advanced
  <2>3. Advanced(p, ok) \in Burst
    BY <1>1, <2>1 DEF Burst
  <2>4. Advanced(p, ok).pc = "complete" /\ Advanced(p, ok).cap = b.cap
    BY <2>1 DEF Burst
  <2>5. Advanced(p, ok).sha = NoContent /\ Advanced(p, ok).saved = Saved(b, ok)
    BY <2>1 DEF Burst
  <2> QED
    BY <2>3, <2>4, <2>5 DEF NoBurst
<1> QED
  BY <1>2, <1>3

(* A known frame has a row; a frame without one has nothing known of it.   *)
LEMMA RowType ==
  ASSUME TypeOK, NEW s \in Slots
  PROVE  /\ Known(s) <=> row[s] \in Row
         /\ Known(s) <=> row[s].sha # NoContent
         /\ ~Known(s) => row[s] = NoRow /\ ~row[s].ack
  BY FrameSpoolAssumption DEF TypeOK, Known, Row, NoRow

-------------------------------------------------------------------------------

LEMMA InitInv == Init => Inv
<1> SUFFICES ASSUME Init PROVE Inv
  OBVIOUS
<1>1. TypeOK
  BY FrameSpoolAssumption DEF Init, TypeOK, Ledger!LedgerInit
<1>2. BurstInv
  BY FrameSpoolAssumption DEF Init, BurstInv, NoBurst, Producers, Cameras
<1>3. WorkInv /\ AckedIsStored
  BY DEF Init, WorkInv, AckedIsStored, NoRow
<1> QED
  BY <1>1, <1>2, <1>3 DEF Inv

(* A producer moves on within its capture, or is done.                     *)
LEMMA BurstMoves ==
  ASSUME Inv, NEW p \in Producers, NEW b \in Burst \cup {NoBurst},
         burst' = [burst EXCEPT ![p] = b],
         b # NoBurst => burst[p].pc # "none" /\ b.cap = burst[p].cap /\ b.pc # "verify",
         UNCHANGED source,
         source # "ANDROID_CAMERA" => ui' \in {"off", "idle"} /\ cursor' = 0 /\ detached' = {}
  PROVE  BurstInv' /\ burst' \in [Producers -> Burst \cup {NoBurst}]
<1> USE DEF Inv
<1>1. burst' \in [Producers -> Burst \cup {NoBurst}]
  BY DEF TypeOK
<1>2. \A q \in Producers : burst'[q] = IF q = p THEN b ELSE burst[q]
  BY DEF TypeOK
<1>3. b # NoBurst => burst[p] # NoBurst
  BY DEF NoBurst
<1>4. NoBurst.pc = "none"
  BY DEF NoBurst
<1>5. /\ source' # "ANDROID_CAMERA" => \A q \in Cameras : burst'[q] = NoBurst
      /\ source' = "ANDROID_CAMERA" => burst'[Bridge] = NoBurst
  BY <1>2, <1>3 DEF BurstInv
<1>6. /\ burst'[Command] # NoBurst => burst'[Command].cap \in 1 .. MaxCursor
      /\ \A c \in Manual : burst'[c] # NoBurst => burst'[c].cap = c
  BY <1>2, <1>3 DEF BurstInv
<1>7. \A q \in Cameras : burst'[q].pc # "verify"
  BY <1>2, <1>4 DEF BurstInv
<1> QED
  BY <1>1, <1>5, <1>6, <1>7 DEF BurstInv

(* The bursts are left alone.                                              *)
LEMMA BurstStays ==
  ASSUME Inv, UNCHANGED <<source, burst>>,
         source # "ANDROID_CAMERA" => ui' \in {"off", "idle"} /\ cursor' = 0 /\ detached' = {}
  PROVE  BurstInv'
  BY DEF Inv, BurstInv

(* What the workers know is left alone.                                    *)
LEMMA WorkStays ==
  ASSUME Inv, UNCHANGED <<row, ledger>>,
         \A s \in Slots : work'[s] \in {work[s], "none", "queued"}
  PROVE  WorkInv' /\ AckedIsStored'
  BY DEF Inv, WorkInv, AckedIsStored, Known

LEMMA PollInv == ASSUME Inv, PollCommand PROVE Inv'
<1> USE DEF Inv
<1>1. PICK n \in 1 .. MaxCursor :
        /\ commands' \in {commands, [commands EXCEPT ![n] = IF commands[n] = "none" THEN Desired ELSE commands[n]]}
        /\ \/ ui' = "closing" /\ UNCHANGED burst
           \/ burst' = [burst EXCEPT ![Command] = Start(n)] /\ UNCHANGED ui
  BY DEF PollCommand
<1>2. source = "ANDROID_CAMERA" /\ ui = "polling"
  BY DEF PollCommand, BurstInv
<1>3. UNCHANGED <<source, session, ledger, confirmed, cursor, file, row, work, owned,
                  cancelVars, together>>
  BY DEF PollCommand
<1>4. Start(n) \in Burst /\ Start(n) # NoBurst /\ Start(n).pc = "shoot" /\ Start(n).cap = n
  BY FrameSpoolAssumption DEF Start, Burst, NoBurst, Captures, Indexes
<1>5. commands' \in [1 .. MaxCursor -> {"none", "CAPTURE_FULL", "STOP"}]
  BY <1>1 DEF TypeOK, Desired
<1>6. \A p \in Producers : burst'[p] = burst[p] \/ (p = Command /\ burst'[p] = Start(n))
  BY <1>1 DEF TypeOK
<1>7. burst' \in [Producers -> Burst \cup {NoBurst}]
  BY <1>1, <1>4 DEF TypeOK
<1>8. TypeOK'
  BY <1>1, <1>3, <1>5, <1>7 DEF TypeOK
<1>9. BurstInv'
  <2>1. source' = "ANDROID_CAMERA" /\ burst'[Bridge] = NoBurst
    BY <1>2, <1>3, <1>6 DEF BurstInv
  <2>2. /\ burst'[Command] # NoBurst => burst'[Command].cap \in 1 .. MaxCursor
        /\ \A c \in Manual : burst'[c] # NoBurst => burst'[c].cap = c
    BY <1>4, <1>6 DEF BurstInv
  <2>3. \A p \in Cameras : burst'[p].pc # "verify"
    BY <1>4, <1>6 DEF BurstInv
  <2> QED
    BY <2>1, <2>2, <2>3 DEF BurstInv
<1> QED
  BY <1>3, <1>8, <1>9, WorkStays

LEMMA PressInv == ASSUME Inv, PressCapture PROVE Inv'
<1> USE DEF Inv
<1>1. PICK n \in Manual : burst' = [burst EXCEPT ![n] = Start(n)]
  BY DEF PressCapture
<1>2. /\ source = "ANDROID_CAMERA"
      /\ UNCHANGED <<cloudVars, viewVars, file, row, work, owned, cancelVars, together>>
  BY DEF PressCapture
<1>3. Start(n) \in Burst /\ Start(n) # NoBurst /\ Start(n).pc = "shoot" /\ Start(n).cap = n
  BY FrameSpoolAssumption DEF Start, Burst, NoBurst, Indexes
<1>4. \A p \in Producers : burst'[p] = burst[p] \/ (p = n /\ burst'[p] = Start(n))
  BY <1>1 DEF TypeOK
<1>5. TypeOK'
  BY <1>1, <1>2, <1>3 DEF TypeOK, cloudVars, viewVars
<1>6. BurstInv'
  <2>1. source' = "ANDROID_CAMERA" /\ burst'[Bridge] = NoBurst
    BY <1>2, <1>4 DEF BurstInv, viewVars
  <2>2. /\ burst'[Command] # NoBurst => burst'[Command].cap \in 1 .. MaxCursor
        /\ \A c \in Manual : burst'[c] # NoBurst => burst'[c].cap = c
    BY <1>3, <1>4 DEF BurstInv
  <2>3. \A p \in Cameras : burst'[p].pc # "verify"
    BY <1>3, <1>4 DEF BurstInv
  <2> QED
    BY <2>1, <2>2, <2>3 DEF BurstInv
<1> QED
  BY <1>2, <1>5, <1>6, WorkStays DEF cloudVars

(* A burst that moves, with what a move leaves alone.                      *)
LEMMA MoveInv ==
  ASSUME Inv, NEW p \in Producers, NEW b \in Burst \cup {NoBurst},
         burst' = [burst EXCEPT ![p] = b],
         b # NoBurst => burst[p].pc # "none" /\ b.cap = burst[p].cap /\ b.pc # "verify",
         UNCHANGED <<cloudVars, source, row, late>>,
         cursor' \in 0 .. MaxCursor, source # "ANDROID_CAMERA" => cursor' = cursor,
         ui' \in {ui, "closing"}, source # "ANDROID_CAMERA" => ui' = ui,
         \A s \in Slots : work'[s] \in {work[s], "none", "queued"},
         file' \in [Slots -> Contents \cup {NoContent}],
         work' \in [Slots -> {"none", "queued", "posting", "accepted", "acked"}],
         owned' \subseteq Slots, together' \in Nat,
         detached' \subseteq Burst, source # "ANDROID_CAMERA" => detached' = detached
  PROVE  Inv'
<1> USE DEF Inv
<1>1. source # "ANDROID_CAMERA" => ui' \in {"off", "idle"} /\ cursor' = 0 /\ detached' = {}
  BY DEF BurstInv
<1>2. BurstInv' /\ burst' \in [Producers -> Burst \cup {NoBurst}]
  BY <1>1, BurstMoves
<1>3. TypeOK'
  BY <1>2 DEF TypeOK, cloudVars
<1> QED
  BY <1>2, <1>3, WorkStays DEF cloudVars

LEMMA ShootInv == ASSUME Inv, NEW p \in Producers, Shoot(p) PROVE Inv'
<1> USE DEF Inv
<1>1. burst[p] \in Burst /\ Slot(p) \in Slots
  BY AtWork DEF Shoot
<1>2. UNCHANGED <<cloudVars, viewVars, row, work, owned, cancelVars, together>>
  BY DEF Shoot
<1>3. CASE \E c \in Contents : /\ file' = [file EXCEPT ![Slot(p)] = c]
                               /\ burst' = [burst EXCEPT ![p].pc = "check", ![p].sha = c]
  <2>1. PICK c \in Contents : /\ file' = [file EXCEPT ![Slot(p)] = c]
                              /\ burst' = [burst EXCEPT ![p].pc = "check", ![p].sha = c]
    BY <1>3
  <2> DEFINE b == [burst[p] EXCEPT !.pc = "check", !.sha = c]
  <2>2. b \in Burst /\ b.pc = "check" /\ b.cap = burst[p].cap
    BY <1>1 DEF Burst
  <2>3. burst' = [burst EXCEPT ![p] = b]
    BY <2>1 DEF TypeOK
  <2>4. file' \in [Slots -> Contents \cup {NoContent}]
    BY <2>1 DEF TypeOK
  <2> HIDE DEF b
  <2> QED
    BY <1>2, <2>2, <2>3, <2>4, MoveInv DEF Shoot, viewVars, TypeOK
<1>4. CASE /\ file' \in {file, [file EXCEPT ![Slot(p)] = NoContent]}
           /\ Advance(p, FALSE)
  <2>1. file' \in [Slots -> Contents \cup {NoContent}]
    BY <1>4 DEF TypeOK
  <2> QED
    BY <1>1, <1>2, <1>4, <2>1, AdvancedBurst, MoveInv DEF Shoot, Advance, viewVars, TypeOK
<1> QED
  BY <1>3, <1>4 DEF Shoot

(* The pages between the check and the insert can be counted.              *)
LEMMA EnteringFinite ==
  ASSUME burst' \in [Producers -> Burst \cup {NoBurst}], detached' \subseteq Burst
  PROVE  IsFiniteSet(Entering') /\ Entering' \subseteq Captures /\ Cardinality(Entering') \in Nat
<1>1. ASSUME NEW b \in detached' \cup {burst'[p] : p \in Producers}, b.pc = "insert"
      PROVE  b.cap \in Captures
  BY <1>1 DEF Burst, NoBurst
<1>2. Entering' \subseteq Captures
  BY <1>1 DEF Entering
<1>3. IsFiniteSet(Captures)
  BY FS_Interval, FrameSpoolAssumption DEF Captures
<1> QED
  BY <1>2, <1>3, FS_Subset, FS_CardinalityType

LEMMA CheckInv == ASSUME Inv, NEW p \in Producers, Check(p) PROVE Inv'
<1> USE DEF Inv
<1>1. burst[p] \in Burst /\ Slot(p) \in Slots
  BY AtWork DEF Check
<1>2. UNCHANGED <<cloudVars, viewVars, file, row, work, owned, cancelVars>>
  BY DEF Check
<1>3. CASE \E ok \in BOOLEAN : Advance(p, ok) /\ UNCHANGED together
  <2>1. PICK ok \in BOOLEAN : burst' = [burst EXCEPT ![p] = Advanced(p, ok)]
    BY <1>3 DEF Advance
  <2>2. /\ Advanced(p, ok) \in Burst
        /\ Advanced(p, ok).cap = burst[p].cap
        /\ Advanced(p, ok).pc \in {"shoot", "complete"}
    BY <1>1, AdvancedBurst
  <2> QED
    BY <1>2, <1>3, <2>1, <2>2, MoveInv DEF Check, viewVars, TypeOK
<1>4. CASE /\ At(p, "insert")
           /\ together' = IF Cardinality(Entering') > together THEN Cardinality(Entering')
                          ELSE together
  <2> DEFINE b == [burst[p] EXCEPT !.pc = "insert"]
  <2>1. b \in Burst /\ b.pc = "insert" /\ b.cap = burst[p].cap
    BY <1>1 DEF Burst
  <2>2. burst' = [burst EXCEPT ![p] = b]
    BY <1>4 DEF At, TypeOK
  <2> HIDE DEF b
  <2>3. burst' \in [Producers -> Burst \cup {NoBurst}] /\ detached' \subseteq Burst
    BY <1>2, <2>1, <2>2 DEF TypeOK
  <2>4. Cardinality(Entering') \in Nat
    BY <2>3, EnteringFinite
  <2>5. together' \in Nat
    BY <1>4, <2>4 DEF TypeOK
  <2> QED
    BY <1>2, <2>1, <2>2, <2>5, MoveInv DEF Check, viewVars, TypeOK
<1> QED
  BY <1>3, <1>4 DEF Check

LEMMA EnqueueInv == ASSUME Inv, NEW p \in Producers, Enqueue(p) PROVE Inv'
<1> USE DEF Inv
<1>1. burst[p] \in Burst /\ Slot(p) \in Slots
  BY AtWork DEF Enqueue
<1>2. /\ UNCHANGED <<cloudVars, viewVars, file, row, owned, cancelVars, together>>
      /\ burst' = [burst EXCEPT ![p] = Advanced(p, TRUE)]
  BY DEF Enqueue, Advance
<1>3. /\ work' \in [Slots -> {"none", "queued", "posting", "accepted", "acked"}]
      /\ \A s \in Slots : work'[s] \in {work[s], "queued"}
  BY <1>1 DEF Enqueue, Enqueued, TypeOK
<1>4. /\ Advanced(p, TRUE) \in Burst
      /\ Advanced(p, TRUE).cap = burst[p].cap
      /\ Advanced(p, TRUE).pc \in {"shoot", "complete"}
  BY <1>1, AdvancedBurst
<1>5. /\ burst[p].pc # "none"
      /\ UNCHANGED <<source, ui, cursor>>
  BY <1>2 DEF Enqueue, viewVars
<1>6. /\ cursor' \in 0 .. MaxCursor
      /\ file' \in [Slots -> Contents \cup {NoContent}] /\ owned' \subseteq Slots
      /\ together' \in Nat /\ detached' \subseteq Burst /\ UNCHANGED detached
  BY <1>2, <1>5 DEF TypeOK
<1> QED
  BY <1>2, <1>3, <1>4, <1>5, <1>6, MoveInv

(* The ends of a burst.                                                    *)
LEMMA EndsInv ==
  ASSUME Inv,
         \/ CompleteCommand \/ EndSession \/ EspAnswer
         \/ \E c \in Manual : CompleteButton(c)
  PROVE  Inv'
<1> USE DEF Inv
<1>0. NoBurst.pc = "none"
  BY DEF NoBurst
<1>1. CASE CompleteCommand
  <2>1. burst[Command] \in Burst /\ burst[Command] # NoBurst
    BY <1>0, <1>1, AtWork DEF CompleteCommand
  <2>2. source = "ANDROID_CAMERA" /\ burst[Command].cap \in 1 .. MaxCursor
    BY <2>1 DEF BurstInv, Cameras
  <2>3. cursor' \in 0 .. MaxCursor
    BY <1>1, <2>2, FrameSpoolAssumption DEF CompleteCommand, TypeOK
  <2> QED
    BY <1>0, <1>1, <2>2, <2>3, MoveInv DEF CompleteCommand, Finish, TypeOK
<1>2. ASSUME NEW c \in Manual, CompleteButton(c) PROVE Inv'
  BY <1>0, <1>2, MoveInv DEF CompleteButton, Finish, viewVars, TypeOK
<1>3. CASE EndSession
  <2>1. file' \in [Slots -> Contents \cup {NoContent}]
    BY <1>3 DEF EndSession, TypeOK
  <2>2. burst[Command].pc \in {"insert", "enqueue"} => burst[Command] \in Burst
    BY AtWork
  <2>3. detached' \subseteq Burst
    BY <1>3, <2>2 DEF EndSession, TypeOK
  <2> QED
    BY <1>0, <1>3, <2>1, <2>3, MoveInv DEF EndSession, Finish, TypeOK
<1>4. CASE EspAnswer
  <2>1. Slot(Bridge) \in Slots
    BY <1>0, <1>4, AtWork DEF EspAnswer
  <2>2. /\ work' \in [Slots -> {"none", "queued", "posting", "accepted", "acked"}]
        /\ \A s \in Slots : work'[s] \in {work[s], "queued"}
        /\ owned' \subseteq Slots
    BY <1>4, <2>1 DEF EspAnswer, Enqueued, TypeOK
  <2> QED
    BY <1>0, <1>4, <2>2, MoveInv DEF EspAnswer, Finish, viewVars, TypeOK
<1> QED
  BY <1>1, <1>2, <1>3, <1>4

(* A row is inserted for an unknown frame.                                 *)
LEMMA InsertedRow ==
  ASSUME Inv, NEW b \in Burst, SlotOf(b) \in Slots, ~Known(SlotOf(b)), Inserted(b),
         UNCHANGED <<cloudVars, work>>
  PROVE  /\ row' \in [Slots -> Row \cup {NoRow}]
         /\ \A t \in Slots \ {SlotOf(b)} : row'[t] = row[t]
         /\ row'[SlotOf(b)].sha = b.sha /\ ~row'[SlotOf(b)].ack
         /\ WorkInv' /\ AckedIsStored'
<1> USE DEF Inv
<1> DEFINE s == SlotOf(b)
           r == [sha |-> b.sha, ack |-> FALSE, attempts |-> 0]
<1>1. row' = [row EXCEPT ![s] = r]
  BY DEF Inserted
<1>2. b.sha \in Contents \cup {NoContent} /\ r.sha = b.sha /\ ~r.ack
  BY DEF Burst
<1>3. row' \in [Slots -> Row \cup {NoRow}]
  <2>1. 0 \in 0 .. MaxAttempts
    BY FrameSpoolAssumption
  <2>2. r \in Row \cup {NoRow}
    BY <1>2, <2>1 DEF Row, NoRow
  <2> QED
    BY <1>1, <2>2 DEF TypeOK
<1> HIDE DEF r, s
<1>4. s \in Slots /\ ~Known(s)
  BY DEF s
<1>5. row'[s] = r /\ \A t \in Slots \ {s} : row'[t] = row[t]
  BY <1>1, <1>4 DEF TypeOK
<1>6. WorkInv'
  BY <1>4, <1>5 DEF WorkInv, Known, cloudVars, TypeOK
<1>7. AckedIsStored'
  BY <1>2, <1>5 DEF AckedIsStored, cloudVars
<1> QED
  BY <1>2, <1>3, <1>5, <1>6, <1>7 DEF s

LEMMA InsertInv == ASSUME Inv, NEW p \in Producers, Insert(p) PROVE Inv'
<1> USE DEF Inv
<1>1. burst[p] \in Burst /\ SlotOf(burst[p]) \in Slots /\ burst[p].pc = "insert"
  BY AtWork DEF Insert, Slot
<1>2. UNCHANGED <<cloudVars, viewVars, file, work, owned, cancelVars, together>>
  BY DEF Insert
<1>3. CASE ~Known(Slot(p)) /\ Inserted(burst[p]) /\ At(p, "enqueue")
  <2> DEFINE b == [burst[p] EXCEPT !.pc = "enqueue"]
  <2>1. b \in Burst /\ b.pc = "enqueue" /\ b.cap = burst[p].cap /\ burst' = [burst EXCEPT ![p] = b]
    BY <1>1, <1>3 DEF Burst, At, TypeOK
  <2> HIDE DEF b
  <2>2. BurstInv' /\ burst' \in [Producers -> Burst \cup {NoBurst}]
    BY <1>1, <1>2, <2>1, BurstMoves DEF BurstInv, viewVars
  <2>3. row' \in [Slots -> Row \cup {NoRow}] /\ WorkInv' /\ AckedIsStored'
    BY <1>1, <1>2, <1>3, InsertedRow DEF Slot
  <2>4. TypeOK'
    BY <1>2, <2>2, <2>3 DEF TypeOK, cloudVars, viewVars
  <2> QED
    BY <2>2, <2>3, <2>4
<1>4. CASE Advance(p, FALSE) /\ UNCHANGED row
  BY <1>1, <1>2, <1>4, AdvancedBurst, MoveInv DEF Advance, viewVars, TypeOK
<1> QED
  BY <1>3, <1>4 DEF Insert

(* What a cancelled burst still does.                                      *)
LEMMA DetachedInv ==
  ASSUME Inv, NEW b \in detached, InsertDetached(b) \/ EnqueueDetached(b)
  PROVE  Inv'
<1> USE DEF Inv
<1>1. /\ b \in Burst /\ SlotOf(b) \in Slots
      /\ UNCHANGED <<cloudVars, viewVars, burst, file, owned, together>>
      /\ detached' = detached \ {b}
  BY DEF InsertDetached, EnqueueDetached, TypeOK, SlotOf, Slots, Burst
<1>2. BurstInv'
  BY <1>1, BurstStays DEF BurstInv, viewVars
<1>3. CASE InsertDetached(b) /\ UNCHANGED <<row, late>>
  BY <1>1, <1>2, <1>3, WorkStays DEF InsertDetached, TypeOK, cloudVars, viewVars
<1>4. CASE /\ InsertDetached(b) /\ ~Known(SlotOf(b)) /\ Inserted(b)
           /\ late' = late \cup {SlotOf(b)}
  <2>1. row' \in [Slots -> Row \cup {NoRow}] /\ WorkInv' /\ AckedIsStored'
    BY <1>1, <1>4, InsertedRow DEF InsertDetached
  <2>2. TypeOK'
    BY <1>1, <1>4, <2>1 DEF InsertDetached, TypeOK, cloudVars, viewVars
  <2> QED
    BY <1>2, <2>1, <2>2
<1>5. CASE EnqueueDetached(b)
  <2>1. /\ work' \in [Slots -> {"none", "queued", "posting", "accepted", "acked"}]
        /\ \A s \in Slots : work'[s] \in {work[s], "queued"}
        /\ UNCHANGED <<row, late>>
    BY <1>1, <1>5 DEF EnqueueDetached, Enqueued, TypeOK
  <2>2. TypeOK'
    BY <1>1, <2>1 DEF TypeOK, cloudVars, viewVars
  <2> QED
    BY <1>1, <1>2, <2>1, <2>2, WorkStays DEF cloudVars
<1> QED
  BY <1>3, <1>4, <1>5 DEF InsertDetached

LEMMA EspFrameInv == ASSUME Inv, NEW s \in Slots, EspFrame(s) PROVE Inv'
<1> USE DEF Inv
<1>1. PICK c \in Contents :
        /\ file' = [file EXCEPT ![s] = c]
        /\ burst' = [burst EXCEPT ![Bridge] =
             [pc |-> "verify", cap |-> s[1], idx |-> s[2], sha |-> c, saved |-> {}]]
  BY DEF EspFrame
<1> DEFINE b == [pc |-> "verify", cap |-> s[1], idx |-> s[2], sha |-> c, saved |-> {}]
<1>2. /\ source = "ESP32_CAMERA"
      /\ UNCHANGED <<cloudVars, viewVars, row, work, owned, cancelVars, together>>
  BY DEF EspFrame, Serving
<1>3. b \in Burst /\ b.pc = "verify"
  BY DEF Burst, Slots
<1> HIDE DEF b
<1>4. burst' = [burst EXCEPT ![Bridge] = b]
  BY <1>1 DEF b
<1>5. TypeOK'
  <2>1. file' \in [Slots -> Contents \cup {NoContent}]
    BY <1>1 DEF TypeOK
  <2>2. burst' \in [Producers -> Burst \cup {NoBurst}]
    BY <1>3, <1>4 DEF TypeOK
  <2> QED
    BY <1>2, <2>1, <2>2 DEF TypeOK, cloudVars, viewVars
<1>6. \A p \in Producers : burst'[p] = IF p = Bridge THEN b ELSE burst[p]
  BY <1>4 DEF TypeOK
<1>7. BurstInv'
  BY <1>2, <1>6 DEF BurstInv, viewVars
<1> QED
  BY <1>2, <1>5, <1>7, WorkStays DEF cloudVars

LEMMA EspVerifyInv == ASSUME Inv, EspVerify PROVE Inv'
<1> USE DEF Inv
<1>0. Bridge \in Producers /\ NoBurst.pc = "none"
  BY DEF Producers, NoBurst
<1>1. burst[Bridge] \in Burst /\ Slot(Bridge) \in Slots
  BY <1>0, AtWork DEF EspVerify
<1>2. /\ UNCHANGED <<cloudVars, viewVars, row, work, owned, cancelVars, together>>
      /\ burst[Bridge].pc = "verify"
  BY DEF EspVerify
<1>3. CASE At(Bridge, "check") /\ UNCHANGED file
  <2> DEFINE b == [burst[Bridge] EXCEPT !.pc = "check"]
  <2>1. b \in Burst /\ b.pc = "check" /\ b.cap = burst[Bridge].cap
    BY <1>1 DEF Burst
  <2>2. burst' = [burst EXCEPT ![Bridge] = b]
    BY <1>0, <1>3 DEF At, TypeOK
  <2> HIDE DEF b
  <2> QED
    BY <1>0, <1>2, <1>3, <2>1, <2>2, MoveInv DEF viewVars, TypeOK
<1>4. CASE file' = [file EXCEPT ![Slot(Bridge)] = NoContent] /\ Finish(Bridge)
  BY <1>0, <1>2, <1>4, MoveInv DEF Finish, viewVars, TypeOK
<1> QED
  BY <1>3, <1>4 DEF EspVerify

LEMMA DieInv == ASSUME Inv, Die PROVE Inv'
<1> USE DEF Inv
<1>1. /\ ui' = "off"
      /\ burst' = [p \in Producers |-> NoBurst]
      /\ UNCHANGED <<cloudVars, source, file, row, owned, late, together>>
      /\ detached' = {}
      /\ \A s \in Slots : work'[s] \in {"none", "queued"}
      /\ work' \in [Slots -> {"none", "queued"}]
  BY DEF Die
<1>2. cursor' \in 0 .. cursor
  BY FrameSpoolAssumption DEF Die, TypeOK
<1>3. TypeOK'
  BY <1>1, <1>2, FrameSpoolAssumption DEF TypeOK, cloudVars
<1>4. BurstInv'
  BY <1>1, <1>2 DEF BurstInv, NoBurst
<1> QED
  BY <1>1, <1>3, <1>4, WorkStays DEF cloudVars

(* Steps of the view model and of the bridge that leave bursts alone.      *)
LEMMA QuietInv ==
  ASSUME Inv,
         \/ ReenqueueAllPending \/ AwaitSpoolDrain \/ EndSignal \/ CloseInCloud
         \/ Resume \/ \E s \in Slots : EspDuplicate(s)
  PROVE  Inv'
<1> USE DEF Inv
<1>1. /\ UNCHANGED <<ledger, confirmed, commands, source, cursor, burst, file, row>>
      /\ UNCHANGED <<detached, together>> /\ late' \subseteq late
  BY DEF ReenqueueAllPending, AwaitSpoolDrain, EndSignal, CloseInCloud, Resume, EspDuplicate,
         cloudVars, viewVars
<1>2. source # "ANDROID_CAMERA" => ui' \in {"off", "idle"}
  BY DEF ReenqueueAllPending, AwaitSpoolDrain, EndSignal, CloseInCloud, Resume, EspDuplicate,
         viewVars, BurstInv
<1>3. session' \in {"CAPTURING", "LOCKED"} /\ owned' \subseteq Slots
  BY DEF ReenqueueAllPending, AwaitSpoolDrain, EndSignal, CloseInCloud, Resume, EspDuplicate,
         cloudVars, TypeOK
<1>4. ui' \in {"off", "polling", "closing", "signalling", "idle", "ended"}
  BY DEF ReenqueueAllPending, AwaitSpoolDrain, EndSignal, CloseInCloud, Resume, EspDuplicate,
         viewVars, TypeOK
<1>5. /\ work' \in [Slots -> {"none", "queued", "posting", "accepted", "acked"}]
      /\ \A s \in Slots : work'[s] \in {work[s], "queued"}
  BY DEF ReenqueueAllPending, Enqueued, AwaitSpoolDrain, EndSignal, CloseInCloud, Resume,
         EspDuplicate, TypeOK
<1>6. TypeOK'
  BY <1>1, <1>3, <1>4, <1>5 DEF TypeOK
<1>7. BurstInv'
  BY <1>1, <1>2, BurstStays DEF BurstInv, Known
<1> QED
  BY <1>1, <1>5, <1>6, <1>7, WorkStays

(* The steps of a worker: only on what the cloud has kept is a frame       *)
(* accepted, and only on an acceptance acknowledged.                       *)
LEMMA UploadInv == ASSUME Inv, NEW s \in Slots, UploadStep(s) PROVE Inv'
<1> USE DEF Inv
<1>1. UNCHANGED <<session, commands, source, ui, cursor, burst, owned, cancelVars, together>>
  BY DEF UploadStep, BeginUpload, CloudKeeps, CloudConfirms, Rejected, Retried, Acknowledge,
         DeleteFile, cloudVars, viewVars
<1>2. /\ work' \in [Slots -> {"none", "queued", "posting", "accepted", "acked"}]
      /\ \A t \in Slots \ {s} : work'[t] = work[t]
  BY DEF UploadStep, BeginUpload, CloudKeeps, CloudConfirms, Rejected, Retried, Acknowledge,
         DeleteFile, Worked, TypeOK
<1>3. file' \in [Slots -> Contents \cup {NoContent}]
  BY DEF UploadStep, BeginUpload, CloudKeeps, CloudConfirms, Rejected, Retried, Acknowledge,
         DeleteFile, TypeOK
<1>4. BurstInv' /\ TypeOK' /\ WorkInv' /\ AckedIsStored'
  <2>1. CASE UNCHANGED <<ledger, confirmed, row>> /\ work'[s] \in {work[s], "none", "queued"}
    <3>1. BurstInv'
      BY <1>1, <2>1, BurstStays DEF BurstInv, Known
    <3>2. TypeOK'
      BY <1>1, <1>2, <1>3, <2>1 DEF TypeOK
    <3> QED
      BY <1>2, <2>1, <3>1, <3>2, WorkStays
  <2>2. CASE BeginUpload(s)
    <3>1. UNCHANGED <<ledger, confirmed, row>> /\ (work'[s] = "posting" => Known(s))
      BY <2>2 DEF BeginUpload, Worked, Sendable, Pending, TypeOK, cloudVars
    <3>2. work'[s] \in {"posting", "none"}
      BY <2>2 DEF BeginUpload, Worked, TypeOK
    <3>3. BurstInv'
      BY <1>1, <3>1, BurstStays DEF BurstInv, Known
    <3>4. TypeOK'
      BY <1>1, <1>2, <1>3, <3>1 DEF TypeOK
    <3> QED
      BY <1>2, <3>1, <3>2, <3>3, <3>4 DEF WorkInv, AckedIsStored, Known
  <2>3. CASE CloudKeeps(s)
    <3>1. UNCHANGED <<row, work, confirmed>> /\ Known(s) /\ ledger[s] = NoContent
          /\ ledger' = [ledger EXCEPT ![s] = row[s].sha]
      BY <2>3 DEF CloudKeeps, Ledger!Keep, WorkInv
    <3>2. row[s].sha \in Contents
      BY <3>1, RowType DEF Row
    <3>3. BurstInv'
      BY <1>1, <3>1, BurstStays DEF BurstInv, Known
    <3>4. TypeOK'
      BY <1>1, <1>2, <1>3, <3>1, <3>2 DEF TypeOK
    <3>5. \A t \in Slots : ledger'[t] = IF t = s THEN row[s].sha ELSE ledger[t]
      BY <3>1 DEF TypeOK
    <3> QED
      BY <3>1, <3>3, <3>4, <3>5 DEF WorkInv, AckedIsStored, Known
  <2>4. CASE CloudConfirms(s)
    <3>1. /\ UNCHANGED <<row, ledger>> /\ Known(s) /\ ledger[s] = row[s].sha
          /\ work'[s] = "accepted" /\ confirmed' = confirmed \cup {<<s, row[s].sha>>}
      BY <2>4 DEF CloudConfirms, Ledger!Confirm, WorkInv, Worked, TypeOK
    <3>2. row[s].sha \in Contents
      BY <3>1, RowType DEF Row
    <3>3. BurstInv'
      BY <1>1, <3>1, BurstStays DEF BurstInv, Known
    <3>4. TypeOK'
      BY <1>1, <1>2, <1>3, <3>1, <3>2 DEF TypeOK
    <3> QED
      BY <1>2, <3>1, <3>3, <3>4 DEF WorkInv, AckedIsStored, Known
  <2>5. CASE Rejected(s) \/ Retried(s)
    <3>1. /\ UNCHANGED <<ledger, confirmed>> /\ Known(s) /\ Tried(s)
          /\ work'[s] \in {"none", "queued"}
      BY <2>5 DEF Rejected, Retried, WorkInv, Worked, TypeOK, cloudVars
    <3>2. row[s] \in Row
      BY <3>1, RowType
    <3> DEFINE n == IF row[s].attempts < MaxAttempts THEN row[s].attempts + 1 ELSE row[s].attempts
    <3>3. n \in 0 .. MaxAttempts
      BY <3>2, FrameSpoolAssumption DEF Row
    <3>4. row' = [row EXCEPT ![s] = [row[s] EXCEPT !.attempts = n]]
      BY <3>1 DEF Tried, TypeOK
    <3> HIDE DEF n
    <3>5. [row[s] EXCEPT !.attempts = n] \in Row
      BY <3>2, <3>3 DEF Row
    <3>6. row' \in [Slots -> Row \cup {NoRow}]
      BY <3>4, <3>5 DEF TypeOK
    <3>7. TypeOK'
      BY <1>1, <1>2, <1>3, <3>1, <3>6 DEF TypeOK
    <3>8. /\ row'[s] \in Row /\ row'[s].sha = row[s].sha /\ row'[s].ack = row[s].ack
          /\ \A t \in Slots \ {s} : row'[t] = row[t]
      BY <3>2, <3>4, <3>5 DEF TypeOK, Row
    <3>9. \A t \in Slots : Known(t)' <=> Known(t)
      BY <3>1, <3>7, <3>8, RowType DEF Known, NoRow, Row
    <3>10. BurstInv'
      BY <1>1, <3>9, BurstStays DEF BurstInv
    <3> QED
      BY <1>2, <3>1, <3>7, <3>8, <3>9, <3>10 DEF WorkInv, AckedIsStored
  <2>6. CASE Acknowledge(s)
    <3>1. /\ UNCHANGED <<ledger, confirmed>> /\ Known(s) /\ ledger[s] = row[s].sha
          /\ row' = [row EXCEPT ![s].ack = TRUE] /\ work'[s] = "acked"
      BY <2>6 DEF Acknowledge, WorkInv, Worked, TypeOK, cloudVars
    <3>2. row[s] \in Row
      BY <3>1, RowType
    <3>3. row' = [row EXCEPT ![s] = [row[s] EXCEPT !.ack = TRUE]]
      BY <3>1 DEF TypeOK
    <3>4. [row[s] EXCEPT !.ack = TRUE] \in Row
      BY <3>2 DEF Row
    <3>5. TypeOK'
      BY <1>1, <1>2, <1>3, <3>1, <3>3, <3>4 DEF TypeOK
    <3>6. /\ row'[s] \in Row /\ row'[s].sha = row[s].sha /\ row'[s].ack
          /\ \A t \in Slots \ {s} : row'[t] = row[t]
      BY <3>2, <3>3, <3>4 DEF TypeOK, Row
    <3>7. \A t \in Slots : Known(t)' <=> Known(t)
      BY <3>1, <3>6, FrameSpoolAssumption DEF Known, NoRow, Row
    <3>8. BurstInv'
      BY <1>1, <3>7, BurstStays DEF BurstInv
    <3> QED
      BY <1>2, <3>1, <3>5, <3>6, <3>7, <3>8 DEF WorkInv, AckedIsStored
  <2>7. CASE DeleteFile(s)
    BY <2>1, <2>7 DEF DeleteFile, Worked, TypeOK, cloudVars
  <2> QED
    BY <2>2, <2>3, <2>4, <2>5, <2>6, <2>7 DEF UploadStep
<1> QED
  BY <1>4

-------------------------------------------------------------------------------

LEMMA StutterInv == ASSUME Inv, UNCHANGED vars PROVE Inv'
  BY DEF Inv, vars, cloudVars, viewVars, TypeOK, BurstInv, WorkInv, AckedIsStored, Known

(* The steps of neither the session, a burst nor an upload.                *)
OtherStep ==
  \/ \E c \in Manual : CompleteButton(c)
  \/ \E b \in detached : InsertDetached(b) \/ EnqueueDetached(b)

THEOREM Invariance == Spec => []Inv
<1>1. Inv /\ [Next]_vars => Inv'
  BY PollInv, PressInv, ShootInv, CheckInv, InsertInv, EnqueueInv, EndsInv, EspFrameInv,
     EspVerifyInv, DieInv, QuietInv, UploadInv, DetachedInv, StutterInv
  DEF Next, SessionStep, BurstStep, EspStep
<1> QED
  BY InitInv, <1>1, PTL DEF Spec

(* The spool, the bursts and the cloud keep their types.                   *)
THEOREM TypeCorrect == Spec => []TypeOK
<1>1. Inv => TypeOK
  BY DEF Inv
<1> QED
  BY Invariance, <1>1, PTL

(* A JPEG the phone deletes on an acknowledgement is in the cloud, however *)
(* often it was shot, sent, refused or answered before (UploadWorker).     *)
THEOREM AckIsTrue == Spec => []AckedIsStored
<1>1. Inv => AckedIsStored
  BY DEF Inv
<1> QED
  BY Invariance, <1>1, PTL

-------------------------------------------------------------------------------
(* The effect of a command.  As long as no row of a command is lost, the   *)
(* commands are issued without gaps and the phone works on the next one.   *)

Durable(s) == Known(s) /\ (file[s] = row[s].sha \/ ledger[s] = row[s].sha)

CommandInv ==
  /\ \A n \in 1 .. MaxCursor, m \in 1 .. MaxCursor :
       m < n /\ commands[n] # "none" => commands[m] # "none"
  /\ \A n \in 1 .. cursor : commands[n] # "none"
  /\ burst[Command] # NoBurst =>
       burst[Command].cap = cursor + 1 /\ commands[cursor + 1] # "none"

BehindCursor == \A c \in 1 .. cursor, i \in Indexes : Durable(<<c, i>>)

BehindIndex ==
  LET b == burst[Command] IN
    /\ \A i \in b.saved : b.pc # "complete" => i < b.idx
    /\ b.pc \in {"check", "insert"} => b.sha # NoContent
    /\ \A s \in Slots :
         /\ s[1] = b.cap /\ s[2] \in b.saved => Durable(s)
         /\ s = <<b.cap, b.idx>> =>
              /\ b.pc = "check" => file[s] = b.sha \/ row[s].ack
              /\ b.pc = "insert" => Known(s) \/ file[s] = b.sha
              /\ b.pc = "enqueue" => Durable(s)

EffectInv == CommandInv /\ BehindCursor /\ BehindIndex

(* No step touches the file of a command's frame while it is not shot,     *)
(* except to delete it behind an acknowledgement.                          *)
LEMMA FileStep ==
  ASSUME Inv, Next, source = "ANDROID_CAMERA", NEW s \in Slots, s[1] <= MaxCursor,
         burst[Command].pc = "shoot" => Slot(Command) # s
  PROVE  file'[s] = file[s] \/ (Known(s) /\ row[s].ack /\ row'[s] = row[s])
<1> USE DEF Inv
<1>1. CASE SessionStep
  <2>1. burst[Bridge].pc = "none"
    BY DEF BurstInv, NoBurst
  <2> QED
    BY <1>1, <2>1 DEF SessionStep, PollCommand, PressCapture, CompleteCommand, ReenqueueAllPending,
       EndSession, AwaitSpoolDrain, EndSignal, CloseInCloud, Die, Resume,
       EspVerify, EspAnswer, TypeOK
<1>2. CASE \E p \in Producers : BurstStep(p)
  <2>1. PICK p \in Producers : BurstStep(p)
    BY <1>2
  <2>2. CASE Shoot(p)
    <3>1. burst[p] # NoBurst /\ burst[p].pc = "shoot" /\ burst[p] \in Burst
      BY <2>2, AtWork DEF Shoot
    <3>2. p \in Manual => s[1] # burst[p].cap
      <4>1. p \in Manual => burst[p].cap > MaxCursor
        BY <3>1 DEF BurstInv
      <4>2. burst[p].cap \in Nat /\ MaxCursor \in Nat /\ s[1] \in Nat
        BY <3>1, FrameSpoolAssumption DEF Burst, Captures, Slots
      <4> QED
        BY <4>1, <4>2
    <3>3. Slot(p) # s
      BY <3>1, <3>2 DEF BurstInv, Slot, SlotOf
    <3> QED
      BY <2>2, <3>3 DEF Shoot, TypeOK
  <2>3. CASE Check(p) \/ Insert(p) \/ Enqueue(p)
    BY <2>3 DEF Check, Insert, Enqueue
  <2> QED
    BY <2>1, <2>2, <2>3 DEF BurstStep
<1>3. CASE \E t \in Slots : UploadStep(t) \/ EspStep(t)
  <2>1. PICK t \in Slots : UploadStep(t) \/ EspStep(t)
    BY <1>3
  <2>2. CASE DeleteFile(t)
    BY <2>2 DEF DeleteFile, WorkInv, TypeOK
  <2> QED
    BY <2>1, <2>2 DEF UploadStep, BeginUpload, CloudKeeps, CloudConfirms, Rejected, Retried,
       Acknowledge, EspStep, EspFrame, EspDuplicate, Serving
<1>4. CASE OtherStep
  BY <1>4 DEF OtherStep, CompleteButton, InsertDetached, EnqueueDetached
<1> QED
  BY <1>1, <1>2, <1>3, <1>4 DEF Next, OtherStep

(* A row, once there, keeps its hash and its acknowledgement.              *)
LEMMA RowStep ==
  ASSUME Inv, Next, NEW s \in Slots, Known(s)
  PROVE  Known(s)' /\ row'[s].sha = row[s].sha /\ (row[s].ack => row'[s].ack)
<1> USE DEF Inv
<1>0. row[s] \in Row /\ row[s].sha \in Contents /\ NoRow.sha = NoContent
  BY RowType DEF Row, NoRow
<1>b. ASSUME NEW b, ~Known(SlotOf(b)), Inserted(b) PROVE row'[s] = row[s]
  <2>1. SlotOf(b) # s
    BY <1>b
  <2> QED
    BY <1>b, <2>1 DEF Inserted, TypeOK
<1>1. CASE SessionStep
  BY <1>1 DEF SessionStep, PollCommand, PressCapture, CompleteCommand, ReenqueueAllPending,
     EndSession, AwaitSpoolDrain, EndSignal, CloseInCloud, Die, Resume,
     EspVerify, EspAnswer, Known
<1>2. CASE \E p \in Producers : BurstStep(p)
  <2>1. PICK p \in Producers : BurstStep(p)
    BY <1>2
  <2>2. CASE Insert(p)
    BY <1>b, <2>2 DEF Insert, Slot, Known
  <2> QED
    BY <2>1, <2>2 DEF BurstStep, Shoot, Check, Enqueue, Known
<1>3. CASE \E t \in Slots : UploadStep(t) \/ EspStep(t)
  <2>1. PICK t \in Slots : UploadStep(t) \/ EspStep(t)
    BY <1>3
  <2>2. CASE Rejected(t) \/ Retried(t)
    <3>1. Tried(t)
      BY <2>2 DEF Rejected, Retried
    <3> QED
      BY <1>0, <3>1, FrameSpoolAssumption DEF Tried, TypeOK, Known, Row
  <2>3. CASE Acknowledge(t)
    BY <1>0, <2>3, FrameSpoolAssumption DEF Acknowledge, TypeOK, Known, Row
  <2> QED
    BY <2>1, <2>2, <2>3 DEF UploadStep, BeginUpload, CloudKeeps, CloudConfirms, DeleteFile,
       EspStep, EspFrame, EspDuplicate, Known
<1>4. CASE OtherStep
  BY <1>b, <1>4 DEF OtherStep, CompleteButton, InsertDetached, EnqueueDetached, Known
<1> QED
  BY <1>1, <1>2, <1>3, <1>4 DEF Next, OtherStep

(* The cloud replaces nothing it has kept.                                 *)
LEMMA LedgerStep ==
  ASSUME Inv, Next, NEW s \in Slots
  PROVE  ledger'[s] = ledger[s] \/ ledger[s] = NoContent
  BY DEF Inv, TypeOK, Next, SessionStep, PollCommand, PressCapture, CompleteCommand,
     ReenqueueAllPending, EndSession, AwaitSpoolDrain, EndSignal, CloseInCloud,
     Die, Resume, EspVerify, EspAnswer, BurstStep, Shoot, Check, Insert, Enqueue, UploadStep,
     BeginUpload, CloudKeeps, CloudConfirms, Rejected, Retried, Acknowledge, DeleteFile, EspStep,
     EspFrame, EspDuplicate, CompleteButton, InsertDetached, EnqueueDetached, cloudVars,
     Ledger!Keep, Ledger!Confirm

LEMMA DurableStep ==
  ASSUME Inv, Next, source = "ANDROID_CAMERA", NEW s \in Slots, s[1] <= MaxCursor,
         burst[Command].pc = "shoot" => Slot(Command) # s, Durable(s)
  PROVE  Durable(s)'
<1>1. Known(s)' /\ row'[s].sha = row[s].sha /\ row[s].sha # NoContent
  BY RowStep, RowType DEF Durable, Inv
<1>2. CASE ledger[s] = row[s].sha
  BY <1>1, <1>2, LedgerStep DEF Durable
<1>3. CASE file[s] = row[s].sha /\ ledger[s] # row[s].sha
  <2>1. ~row[s].ack
    BY <1>3 DEF Inv, AckedIsStored
  <2> QED
    BY <1>1, <1>3, <2>1, FileStep DEF Durable
<1> QED
  BY <1>2, <1>3 DEF Durable

(* What a step may do to the cursor, the commands and the burst of the     *)
(* command: only PollCommand, the burst's own steps and Die do any of it.  *)
LEMMA QuietStep ==
  ASSUME Inv, Next
  PROVE  \/ PollCommand \/ CompleteCommand \/ Die \/ EndSession
         \/ BurstStep(Command)
         \/ (UNCHANGED <<commands, cursor>> /\ burst'[Command] = burst[Command])
<1> USE DEF Inv
<1>0. Command \in Producers /\ Bridge \in Producers
  OBVIOUS
<1>1. CASE SessionStep
  BY <1>0, <1>1 DEF SessionStep, PressCapture, ReenqueueAllPending, AwaitSpoolDrain,
     EndSignal, CloseInCloud, Resume, EspVerify, EspAnswer, At, Finish, cloudVars, viewVars, TypeOK
<1>2. CASE \E p \in Producers : BurstStep(p)
  <2>1. PICK p \in Producers : BurstStep(p)
    BY <1>2
  <2>2. CASE p # Command
    BY <1>0, <2>1, <2>2 DEF BurstStep, Shoot, Check, Insert, Enqueue, Advance, At, cloudVars, viewVars,
       TypeOK
  <2> QED
    BY <2>1, <2>2
<1>3. CASE \E t \in Slots : UploadStep(t) \/ EspStep(t)
  <2>1. PICK t \in Slots : UploadStep(t) \/ EspStep(t)
    BY <1>3
  <2>2. CASE EspFrame(t)
    BY <1>0, <2>2 DEF EspFrame, cloudVars, viewVars, TypeOK
  <2> QED
    BY <2>1, <2>2 DEF UploadStep, BeginUpload, CloudKeeps, CloudConfirms, Rejected, Retried,
       Acknowledge, DeleteFile, EspStep, EspDuplicate, cloudVars, viewVars
<1>4. CASE OtherStep
  BY <1>4 DEF OtherStep, CompleteButton, Finish, InsertDetached, EnqueueDetached, cloudVars, viewVars,
     TypeOK
<1> QED
  BY <1>1, <1>2, <1>3, <1>4 DEF Next, OtherStep

(* Without a gap in the commands the cloud answers the next one.           *)
LEMMA NextIsNext ==
  ASSUME Inv, CommandInv, cursor < MaxCursor
  PROVE  NextCursor = cursor + 1
<1>1. cursor \in Nat /\ MaxCursor \in Nat
  BY FrameSpoolAssumption DEF Inv, TypeOK
<1>2. \A n \in Issued : n <= cursor \/ commands[cursor + 1] # "none"
  <2>1. ASSUME NEW n \in Issued, ~(n <= cursor) PROVE commands[cursor + 1] # "none"
    <3>1. n = cursor + 1 \/ cursor + 1 < n
      BY <1>1, <2>1 DEF Issued
    <3>2. n \in 1 .. MaxCursor /\ cursor + 1 \in 1 .. MaxCursor /\ commands[n] # "none"
      BY <1>1 DEF Issued
    <3> QED
      BY <3>1, <3>2 DEF CommandInv
  <2> QED
    BY <2>1
<1> QED
  BY <1>2 DEF NextCursor

LEMMA CommandStep ==
  ASSUME Inv, Inv', CommandInv, Next, "commit" \notin Faults
  PROVE  CommandInv'
<1> USE DEF Inv
<1>0. cursor \in 0 .. MaxCursor /\ cursor' \in 0 .. MaxCursor /\ MaxCursor \in Nat
      /\ Command \in Producers
  BY FrameSpoolAssumption DEF TypeOK, Producers, Cameras
<1>1. CASE PollCommand
  <2>1. NextCursor = cursor + 1 /\ cursor + 1 \in 1 .. MaxCursor
    BY <1>0, <1>1, NextIsNext DEF PollCommand
  <2>2. PICK c : /\ c # "none"
                 /\ commands' = [commands EXCEPT ![cursor + 1] = c]
                 /\ burst' \in {burst, [burst EXCEPT ![Command] = Start(cursor + 1)]}
    BY <1>1, <2>1 DEF PollCommand, Desired
  <2>3. UNCHANGED cursor /\ burst[Command] = NoBurst
    BY <1>1 DEF PollCommand
  <2>4. \A n \in 1 .. MaxCursor : commands'[n] = IF n = cursor + 1 THEN c ELSE commands[n]
    BY <2>2 DEF TypeOK
  <2>5. burst'[Command] # NoBurst => burst'[Command].cap = cursor + 1
    BY <1>0, <2>2, <2>3 DEF TypeOK, Start
  <2>6. \A n \in 1 .. cursor : commands'[n] # "none"
    BY <1>0, <2>4, <2>2 DEF CommandInv
  <2>7. \A n \in 1 .. MaxCursor, m \in 1 .. MaxCursor :
          m < n /\ commands'[n] # "none" => commands'[m] # "none"
    <3> SUFFICES ASSUME NEW n \in 1 .. MaxCursor, NEW m \in 1 .. MaxCursor, m < n,
                        commands'[n] # "none"
                 PROVE  commands'[m] # "none"
      OBVIOUS
    <3>1. CASE n = cursor + 1
      BY <1>0, <2>6, <3>1
    <3>2. CASE n # cursor + 1
      BY <2>2, <2>4, <3>2 DEF CommandInv
    <3> QED
      BY <3>1, <3>2
  <2> QED
    BY <2>1, <2>2, <2>3, <2>4, <2>5, <2>6, <2>7 DEF CommandInv
<1>2. CASE CompleteCommand
  <2>1. burst[Command].cap = cursor + 1 /\ commands[cursor + 1] # "none"
    BY <1>0, <1>2, AtWork DEF CompleteCommand, CommandInv
  <2>2. /\ UNCHANGED commands /\ cursor' \in {cursor, cursor + 1}
        /\ burst'[Command] = NoBurst
    BY <1>0, <1>2, <2>1 DEF CompleteCommand, Finish, cloudVars, TypeOK
  <2>3. \A n \in 1 .. cursor' : n \in 1 .. cursor \/ n = cursor + 1
    BY <1>0, <2>2
  <2> QED
    BY <2>1, <2>2, <2>3 DEF CommandInv
<1>3. CASE Die
  <2>1. UNCHANGED commands /\ burst'[Command] = NoBurst /\ cursor' \in 0 .. cursor
    BY <1>0, <1>3 DEF Die, cloudVars
  <2>2. \A n \in 1 .. cursor' : n \in 1 .. cursor
    BY <1>0, <2>1
  <2> QED
    BY <2>1, <2>2 DEF CommandInv
<1>4. CASE EndSession
  BY <1>0, <1>4 DEF EndSession, Finish, CommandInv, cloudVars, TypeOK
<1>5. CASE BurstStep(Command)
  <2>1. burst[Command] \in Burst /\ burst[Command] # NoBurst
    BY <1>0, <1>5, AtWork DEF BurstStep, Shoot, Check, Insert, Enqueue
  <2>2. UNCHANGED <<commands, cursor>>
    BY <1>5 DEF BurstStep, Shoot, Check, Insert, Enqueue, cloudVars, viewVars
  <2>3. burst'[Command].cap = burst[Command].cap
    <3>1. \A ok \in BOOLEAN : Advanced(Command, ok).cap = burst[Command].cap
      BY <1>0, <2>1, AdvancedBurst
    <3>2. \A ok \in BOOLEAN : Advance(Command, ok) => burst'[Command] = Advanced(Command, ok)
      BY <1>0 DEF Advance, TypeOK
    <3>3. \A pc \in {"insert", "enqueue"} :
            At(Command, pc) => burst'[Command].cap = burst[Command].cap
      BY <1>0, <2>1 DEF At, TypeOK, Burst
    <3>4. CASE Shoot(Command)
      <4>1. \A c \in Contents :
              burst' = [burst EXCEPT ![Command].pc = "check", ![Command].sha = c]
                => burst'[Command].cap = burst[Command].cap
        BY <1>0, <2>1 DEF TypeOK, Burst
      <4> QED
        BY <3>1, <3>2, <3>4, <4>1 DEF Shoot
    <3>5. CASE Check(Command) \/ Insert(Command) \/ Enqueue(Command)
      BY <3>1, <3>2, <3>3, <3>5 DEF Check, Insert, Enqueue
    <3> QED
      BY <1>5, <3>4, <3>5 DEF BurstStep
  <2> QED
    BY <2>1, <2>2, <2>3 DEF CommandInv
<1>6. CASE (UNCHANGED <<commands, cursor>> /\ burst'[Command] = burst[Command])
  BY <1>6 DEF CommandInv
<1> QED
  BY <1>1, <1>2, <1>3, <1>4, <1>5, <1>6, QuietStep

(* A frame behind the cursor is never shot again.                          *)
LEMMA CursorStep ==
  ASSUME Inv, Inv', EffectInv, Next
  PROVE  BehindCursor'
<1> USE DEF Inv, EffectInv
<1>0. /\ cursor \in 0 .. MaxCursor /\ MaxCursor \in Nat /\ MaxCursor + ManualCaptures \in Nat
      /\ Command \in Producers /\ MaxCursor <= MaxCursor + ManualCaptures
  BY FrameSpoolAssumption DEF TypeOK, Producers, Cameras
<1>1. CASE source # "ANDROID_CAMERA"
  <2>1. cursor' = 0
    <3>1. cursor = 0 /\ ui # "polling" /\ burst[Command].pc = "none"
      BY <1>1 DEF BurstInv, Cameras, NoBurst
    <3>2. ~PollCommand /\ ~CompleteCommand /\ ~EndSession /\ ~BurstStep(Command)
      BY <1>1, <3>1 DEF PollCommand, CompleteCommand, EndSession, BurstStep, Shoot, Check, Insert,
         Enqueue
    <3>3. Die => cursor' = 0
      BY <3>1 DEF Die
    <3> QED
      BY <3>1, <3>2, <3>3, QuietStep
  <2>2. ~(\E c : c \in 1 .. cursor')
    BY <2>1
  <2> QED
    BY <2>2 DEF BehindCursor
<1>2. CASE source = "ANDROID_CAMERA"
  <2> SUFFICES ASSUME NEW c \in 1 .. cursor', NEW i \in Indexes PROVE Durable(<<c, i>>)'
    BY DEF BehindCursor
  <2> DEFINE s == <<c, i>>
  <2>1. cursor' <= cursor \/ (CompleteCommand /\ cursor' = burst[Command].cap)
    <3>1. PollCommand \/ EndSession \/ BurstStep(Command) => cursor' = cursor
      BY DEF PollCommand, EndSession, BurstStep, Shoot, Check, Insert, Enqueue, viewVars
    <3>2. Die => cursor' <= cursor
      BY <1>0 DEF Die
    <3> QED
      BY <1>0, <3>1, <3>2, QuietStep DEF CompleteCommand
  <2>2. CompleteCommand => burst[Command].cap = cursor + 1
    BY <1>0, AtWork DEF CompleteCommand, CommandInv
  <2>3. cursor' \in Nat /\ (cursor' <= cursor \/ (CompleteCommand /\ cursor' = cursor + 1))
    <3>1. cursor' \in Nat
      BY <1>0 DEF TypeOK
    <3> QED
      BY <2>1, <2>2, <3>1
  <2>4. CASE c \in 1 .. cursor
    <3>1. Durable(s) /\ s \in Slots /\ s[1] = c /\ s[1] <= MaxCursor
      BY <1>0, <2>4 DEF BehindCursor, Slots, Captures
    <3>2. burst[Command].pc = "shoot" => Slot(Command) # s
      <4>1. burst[Command].pc = "shoot" => burst[Command].cap = cursor + 1
        BY <1>0, AtWork DEF CommandInv
      <4> QED
        BY <1>0, <2>4, <4>1 DEF Slot, SlotOf
    <3> HIDE DEF s
    <3>3. Durable(s)'
      BY <1>2, <3>1, <3>2, DurableStep
    <3> QED
      BY <3>3 DEF s
  <2>5. CASE CompleteCommand /\ cursor' = cursor + 1 /\ c = cursor + 1
    <3>1. EffectDurable(burst[Command])
      BY <1>0, <2>5 DEF CompleteCommand
    <3>2. i \in burst[Command].saved /\ burst[Command].cap = c
      BY <2>2, <2>5, <3>1 DEF EffectDurable
    <3>3. s \in Slots
      <4>1. cursor' \in 0 .. MaxCursor
        BY <1>0 DEF TypeOK
      <4>2. c \in Captures
        BY <4>1, FrameSpoolAssumption DEF Captures
      <4> QED
        BY <4>2 DEF Slots
    <3>4. Durable(s)
      BY <3>2, <3>3 DEF BehindIndex
    <3>5. UNCHANGED <<file, row, ledger>>
      BY <2>5 DEF CompleteCommand, cloudVars
    <3> QED
      BY <3>4, <3>5 DEF Durable, Known
  <2> QED
    BY <1>0, <2>3, <2>4, <2>5
<1> QED
  BY <1>1, <1>2

(* What the burst of a command has saved stays durable while it goes on.   *)
LEMMA SavedStep ==
  ASSUME Inv, EffectInv, Next, burst[Command].pc # "none", NEW s \in Slots,
         s[1] = burst[Command].cap, s[2] \in burst[Command].saved
  PROVE  Durable(s)'
<1> USE DEF Inv, EffectInv
<1> DEFINE b == burst[Command]
<1>1. b \in Burst /\ b # NoBurst /\ Command \in Producers
  BY AtWork DEF Producers, Cameras
<1>2. source = "ANDROID_CAMERA" /\ b.cap <= MaxCursor
  BY <1>1, FrameSpoolAssumption DEF BurstInv, Cameras
<1>3. Durable(s)
  BY DEF BehindIndex
<1>4. b.pc = "shoot" => Slot(Command) # s
  <2>1. b.pc = "shoot" => s[2] < b.idx
    BY DEF BehindIndex
  <2>2. s[2] \in Nat /\ b.idx \in Nat
    BY <1>1 DEF Burst, Indexes
  <2> QED
    BY <2>1, <2>2 DEF Slot, SlotOf
<1> QED
  BY <1>2, <1>3, <1>4, DurableStep

(* The frame the burst is at, once it has been shot.                       *)
LEMMA CurrentStep ==
  ASSUME Inv, EffectInv, Next, burst[Command].pc \notin {"none", "shoot"}, NEW s \in Slots,
         s = Slot(Command)
  PROVE  /\ file'[s] = file[s] \/ (Known(s) /\ row[s].ack /\ row'[s] = row[s])
         /\ Durable(s) => Durable(s)'
<1> USE DEF Inv, EffectInv
<1>1. burst[Command] \in Burst /\ burst[Command] # NoBurst /\ Command \in Producers
  BY AtWork DEF Producers, Cameras
<1>2. source = "ANDROID_CAMERA" /\ s[1] <= MaxCursor
  BY <1>1, FrameSpoolAssumption DEF BurstInv, Cameras, Slot, SlotOf
<1> QED
  BY <1>2, FileStep, DurableStep

(* The burst moves on, with a frame that save has answered with success    *)
(* only if it is durable.                                                  *)
LEMMA AdvanceStep ==
  ASSUME Inv, EffectInv, Next, BurstStep(Command), NEW ok \in BOOLEAN, Advance(Command, ok),
         ok => burst[Command].pc # "shoot" /\ Durable(Slot(Command))
  PROVE  BehindIndex'
<1> USE DEF Inv, EffectInv
<1>0. Command \in Producers
  BY DEF Producers, Cameras
<1>1. PICK b \in Burst : b = burst[Command]
  BY <1>0, AtWork DEF BurstStep, Shoot, Check, Insert, Enqueue
<1>2. b.pc \notin {"none", "complete"}
  BY <1>1 DEF BurstStep, Shoot, Check, Insert, Enqueue
<1>3. PICK a \in Burst :
        /\ a = burst'[Command] /\ a.cap = b.cap /\ a.saved = Saved(b, ok)
        /\ a.pc \in {"shoot", "complete"} /\ (a.pc = "shoot" => a.idx = b.idx + 1)
  <2>1. burst'[Command] = Advanced(Command, ok)
    BY <1>0 DEF Advance, TypeOK
  <2> QED
    BY <1>0, <1>1, <2>1, AdvancedBurst
<1>4. b.idx \in Nat /\ \A i \in a.saved : i \in Nat /\ i <= b.idx
  <2>1. b.idx \in Nat /\ \A i \in b.saved : i \in Nat
    BY DEF Burst, Indexes
  <2>2. \A i \in b.saved : i < b.idx
    BY <1>1, <1>2 DEF BehindIndex
  <2> QED
    BY <1>3, <2>1, <2>2 DEF Saved
<1>5. \A i \in a.saved : a.pc # "complete" => i < a.idx
  BY <1>3, <1>4
<1>6. ASSUME NEW s \in Slots, s[1] = a.cap, s[2] \in a.saved
      PROVE  Durable(s)'
  <2>1. CASE s[2] \in b.saved
    BY <1>1, <1>2, <1>3, <1>6, <2>1, SavedStep
  <2>2. CASE ok /\ s[2] = b.idx
    <3>1. s = Slot(Command)
      BY <1>1, <1>3, <1>6, <2>2 DEF Slot, SlotOf, Slots
    <3> QED
      BY <1>1, <1>2, <2>2, <3>1, CurrentStep
  <2> QED
    BY <1>3, <1>6, <2>1, <2>2 DEF Saved
<1> QED
  BY <1>3, <1>5, <1>6 DEF BehindIndex

LEMMA IndexStep ==
  ASSUME Inv, Inv', EffectInv, Next
  PROVE  BehindIndex'
<1> USE DEF Inv, EffectInv
<1>0. Command \in Producers /\ NoBurst.pc = "none" /\ NoBurst.saved = {}
  BY DEF Producers, Cameras, NoBurst
<1>1. CASE burst'[Command] = NoBurst
  BY <1>0, <1>1 DEF BehindIndex
<1>2. CASE PollCommand
  <2>1. PICK n : burst' \in {burst, [burst EXCEPT ![Command] = Start(n)]}
    BY <1>2 DEF PollCommand
  <2>2. Start(n).pc = "shoot" /\ Start(n).saved = {}
    BY DEF Start
  <2>3. burst'[Command] = NoBurst \/ burst'[Command] = Start(n)
    BY <1>0, <1>2, <2>1 DEF PollCommand, TypeOK
  <2> QED
    BY <1>1, <2>2, <2>3 DEF BehindIndex
<1>3. CASE CompleteCommand \/ Die \/ EndSession
  BY <1>0, <1>1, <1>3 DEF CompleteCommand, Die, EndSession, Finish, TypeOK
<1>4. CASE BurstStep(Command)
  <2>1. PICK b \in Burst : b = burst[Command]
    BY <1>0, <1>4, AtWork DEF BurstStep, Shoot, Check, Insert, Enqueue
  <2>2. b.pc \notin {"none", "complete"}
    BY <1>4, <2>1 DEF BurstStep, Shoot, Check, Insert, Enqueue
  <2>3. PICK s \in Slots : s = Slot(Command) /\ s = <<b.cap, b.idx>>
    BY <1>0, <2>1, <2>2, AtWork DEF Slot, SlotOf
  <2>4. ASSUME NEW d \in Burst, d = burst'[Command], d.cap = b.cap, d.idx = b.idx,
               d.saved = b.saved, d.pc # "complete",
               d.pc = "check" => file'[s] = d.sha,
               d.pc = "insert" => file'[s] = d.sha,
               d.pc = "enqueue" => Durable(s)',
               d.pc \in {"check", "insert"} => d.sha # NoContent
        PROVE  BehindIndex'
    <3>1. \A i \in d.saved : i < d.idx
      BY <2>1, <2>2, <2>4 DEF BehindIndex
    <3>2. \A t \in Slots : t[1] = d.cap /\ t[2] \in d.saved => Durable(t)'
      BY <2>1, <2>2, <2>4, SavedStep
    <3> QED
      BY <2>3, <2>4, <3>1, <3>2 DEF BehindIndex
  <2>5. CASE \E c \in Contents :
               /\ file' = [file EXCEPT ![s] = c]
               /\ burst' = [burst EXCEPT ![Command].pc = "check", ![Command].sha = c]
    <3>1. PICK c \in Contents :
               /\ file' = [file EXCEPT ![s] = c]
               /\ burst' = [burst EXCEPT ![Command].pc = "check", ![Command].sha = c]
      BY <2>5
    <3>2. PICK d \in Burst : d = [b EXCEPT !.pc = "check", !.sha = c]
      BY DEF Burst
    <3>3. d = burst'[Command]
      BY <1>0, <2>1, <3>1, <3>2 DEF TypeOK
    <3>4. d.pc = "check" /\ d.sha = c /\ d.cap = b.cap /\ d.idx = b.idx /\ d.saved = b.saved
      BY <3>2 DEF Burst
    <3>5. file'[s] = c /\ c # NoContent
      BY <3>1, FrameSpoolAssumption DEF TypeOK
    <3> QED
      BY <2>4, <3>3, <3>4, <3>5
  <2>6. CASE Advance(Command, FALSE)
    BY <1>4, <2>6, AdvanceStep
  <2>7. CASE Check(Command) /\ Known(s) /\ row[s].sha = b.sha /\ Advance(Command, TRUE)
    <3>1. b.pc = "check"
      BY <2>1, <2>7 DEF Check
    <3>2. file[s] = b.sha \/ row[s].ack
      BY <2>1, <2>3, <3>1 DEF BehindIndex
    <3>3. Durable(s)
      BY <2>7, <3>2 DEF Durable, AckedIsStored
    <3> QED
      BY <1>4, <2>1, <2>3, <2>7, <3>1, <3>3, AdvanceStep
  <2>8. CASE Check(Command) /\ At(Command, "insert") /\ file[s] = b.sha
    <3>1. PICK d \in Burst : d = [b EXCEPT !.pc = "insert"]
      BY DEF Burst
    <3>2. d = burst'[Command]
      BY <1>0, <2>1, <2>8, <3>1 DEF At, TypeOK
    <3>3. d.pc = "insert" /\ d.sha = b.sha /\ d.cap = b.cap /\ d.idx = b.idx /\ d.saved = b.saved
      BY <3>1 DEF Burst
    <3>4. file'[s] = b.sha /\ b.sha # NoContent
      BY <2>1, <2>8 DEF Check, BehindIndex
    <3> QED
      BY <2>4, <3>2, <3>3, <3>4
  <2>9. CASE Insert(Command) /\ ~Known(s) /\ Inserted(b) /\ At(Command, "enqueue")
    <3>1. PICK d \in Burst : d = [b EXCEPT !.pc = "enqueue"]
      BY DEF Burst
    <3>2. d = burst'[Command]
      BY <1>0, <2>1, <2>9, <3>1 DEF At, TypeOK
    <3>3. d.pc = "enqueue" /\ d.cap = b.cap /\ d.idx = b.idx /\ d.saved = b.saved
      BY <3>1 DEF Burst
    <3>4. file[s] = b.sha /\ b.sha # NoContent /\ UNCHANGED file
      BY <2>1, <2>3, <2>9 DEF Insert, BehindIndex
    <3>5. row'[s] = [sha |-> b.sha, ack |-> FALSE, attempts |-> 0]
      BY <2>3, <2>9 DEF Inserted, SlotOf, TypeOK
    <3>6. row'[s].sha = b.sha /\ row'[s] # NoRow
      BY <3>4, <3>5 DEF NoRow
    <3>7. Durable(s)'
      BY <3>4, <3>6 DEF Durable, Known
    <3> QED
      BY <2>4, <3>2, <3>3, <3>7
  <2>10. CASE Enqueue(Command)
    <3>1. Durable(s) /\ b.pc = "enqueue"
      BY <2>1, <2>3, <2>10 DEF Enqueue, BehindIndex
    <3> QED
      BY <1>4, <2>1, <2>3, <2>10, <3>1, AdvanceStep DEF Enqueue
  <2> QED
    BY <1>4, <2>1, <2>3, <2>5, <2>6, <2>7, <2>8, <2>9, <2>10 DEF BurstStep, Shoot, Check, Insert
<1>5. CASE burst'[Command] = burst[Command] /\ burst[Command] # NoBurst
           /\ ~BurstStep(Command)
  <2>1. PICK b \in Burst : b = burst[Command] /\ b.pc # "none"
    BY <1>0, <1>5 DEF TypeOK, Burst
  <2>2. ASSUME NEW s \in Slots, s[1] = b.cap, s[2] \in b.saved
        PROVE  Durable(s)'
    BY <2>1, <2>2, SavedStep
  <2>3. ASSUME NEW s \in Slots, s = <<b.cap, b.idx>>
        PROVE  /\ b.pc = "check" => file'[s] = b.sha \/ row'[s].ack
               /\ b.pc = "insert" => Known(s)' \/ file'[s] = b.sha
               /\ b.pc = "enqueue" => Durable(s)'
    <3>1. s = Slot(Command)
      BY <2>1, <2>3 DEF Slot, SlotOf
    <3>2. row[s].ack => row'[s].ack
      BY RowStep, RowType
    <3>3. Known(s) => Known(s)'
      BY RowStep
    <3>4. /\ b.pc = "check" => file[s] = b.sha \/ row[s].ack
          /\ b.pc = "insert" => Known(s) \/ file[s] = b.sha
          /\ b.pc = "enqueue" => Durable(s)
      BY <2>1, <2>3 DEF BehindIndex
    <3>5. b.pc # "shoot" => /\ file'[s] = file[s] \/ (Known(s) /\ row[s].ack)
                            /\ Durable(s) => Durable(s)'
      BY <2>1, <3>1, CurrentStep
    <3> QED
      BY <3>2, <3>3, <3>4, <3>5
  <2> QED
    BY <1>5, <2>1, <2>2, <2>3 DEF BehindIndex
<1> QED
  BY <1>1, <1>2, <1>3, <1>4, <1>5, QuietStep

LEMMA InitEffect == Init => EffectInv
<1> SUFFICES ASSUME Init PROVE EffectInv
  OBVIOUS
<1>1. CommandInv /\ BehindCursor
  BY DEF Init, CommandInv, BehindCursor, Producers, Cameras
<1>2. BehindIndex
  BY DEF Init, BehindIndex, Producers, Cameras, NoBurst
<1> QED
  BY <1>1, <1>2 DEF EffectInv

(* If no row of a command is lost behind its answer, a command the cursor  *)
(* has passed has its effect: every frame of its burst is intact on the    *)
(* phone or kept in the cloud (SessionViewModel, S04.5).                   *)
THEOREM EffectKept ==
  ASSUME "commit" \notin Faults
  PROVE  Spec => []EffectIsDurable
<1>1. Init => Inv /\ EffectInv
  BY InitInv, InitEffect
<1>2. Inv /\ Inv' /\ EffectInv /\ [Next]_vars => EffectInv'
  <2>1. Inv /\ Inv' /\ EffectInv /\ Next => EffectInv'
    BY CommandStep, CursorStep, IndexStep DEF EffectInv
  <2>2. EffectInv /\ UNCHANGED vars => EffectInv'
    BY DEF EffectInv, CommandInv, BehindCursor, BehindIndex, Durable, Known, vars, cloudVars,
       viewVars
  <2> QED
    BY <2>1, <2>2
<1>3. EffectInv => EffectIsDurable
  BY DEF EffectInv, BehindCursor, Durable, EffectIsDurable
<1> QED
  BY <1>1, <1>2, <1>3, Invariance, PTL DEF Spec

-------------------------------------------------------------------------------
(* What the steps may do to a frame that waits and to a producer that has  *)
(* passed its check; used for the pages, the end-signal and the bridge.    *)

LEMMA SourceStep == ASSUME Next PROVE source' = source
  BY DEF Next, SessionStep, PollCommand, PressCapture, CompleteCommand, ReenqueueAllPending,
     EndSession, AwaitSpoolDrain, EndSignal, CloseInCloud, Die, Resume,
     EspVerify, EspAnswer, BurstStep, Shoot, Check, Insert, Enqueue, UploadStep, BeginUpload,
     CloudKeeps, CloudConfirms, Rejected, Retried, Acknowledge, DeleteFile, EspStep, EspFrame,
     EspDuplicate, CompleteButton, InsertDetached, EnqueueDetached, viewVars

(* Between two waits for the spool nothing is taken off the frames that    *)
(* were late, and no step forgets how many pages have been together.       *)
LEMMA LateStep ==
  ASSUME Next
  PROVE  (AwaitSpoolDrain \/ late \subseteq late') /\ (together' = together \/ \E p \in Producers : Check(p))
  BY DEF Next, SessionStep, PollCommand, PressCapture, CompleteCommand, ReenqueueAllPending,
     EndSession, AwaitSpoolDrain, EndSignal, CloseInCloud, Die, Resume, EspVerify, EspAnswer,
     BurstStep, Shoot, Insert, Enqueue, UploadStep, BeginUpload, CloudKeeps, CloudConfirms, Rejected,
     Retried, Acknowledge, DeleteFile, EspStep, EspFrame, EspDuplicate, CompleteButton,
     InsertDetached, EnqueueDetached, Check

(* What a cancelled burst may still do, the burst of a command was at.     *)
LEMMA DetachedStep ==
  ASSUME Next, NEW b \in detached'
  PROVE  b \in detached \/ b = burst[Command]
<1>1. CASE EndSession
  BY <1>1 DEF EndSession
<1>2. CASE \E d \in detached : detached' = detached \ {d}
  BY <1>2
<1>3. EndSession \/ detached' \in {detached, {}} \/ \E d \in detached : detached' = detached \ {d}
  BY DEF Next, SessionStep, PollCommand, PressCapture, CompleteCommand, ReenqueueAllPending,
     AwaitSpoolDrain, EndSignal, CloseInCloud, Die, Resume, EspVerify, EspAnswer,
     BurstStep, Shoot, Insert, Enqueue, UploadStep, BeginUpload, CloudKeeps, CloudConfirms, Rejected,
     Retried, Acknowledge, DeleteFile, EspStep, EspFrame, EspDuplicate, CompleteButton,
     InsertDetached, EnqueueDetached, Check
<1> QED
  BY <1>1, <1>2, <1>3

(* A frame becomes known only by the insert of the producer on its slot,   *)
(* or late, by that of a cancelled burst.                                  *)
LEMMA KnownStep ==
  ASSUME Inv, Next, NEW s \in Slots, Known(s)'
  PROVE  \/ Known(s)
         \/ \E p \in Producers : Insert(p) /\ Slot(p) = s
         \/ \E b \in detached : b.pc = "insert" /\ SlotOf(b) = s /\ s \in late'
<1> USE DEF Inv
<1>1. CASE SessionStep
  BY <1>1 DEF SessionStep, PollCommand, PressCapture, CompleteCommand, ReenqueueAllPending,
     EndSession, AwaitSpoolDrain, EndSignal, CloseInCloud, Die, Resume,
     EspVerify, EspAnswer, Known
<1>2. CASE \E p \in Producers : BurstStep(p)
  <2>1. PICK p \in Producers : BurstStep(p)
    BY <1>2
  <2>2. CASE Insert(p) /\ Slot(p) # s
    BY <2>2 DEF Insert, Inserted, Slot, TypeOK, Known
  <2> QED
    BY <2>1, <2>2 DEF BurstStep, Shoot, Check, Enqueue, Known
<1>3. CASE \E t \in Slots : UploadStep(t) \/ EspStep(t)
  <2>1. PICK t \in Slots : UploadStep(t) \/ EspStep(t)
    BY <1>3
  <2>2. CASE Rejected(t) \/ Retried(t) \/ Acknowledge(t)
    <3>1. Known(t)
      BY <2>2 DEF Rejected, Retried, Acknowledge, WorkInv
    <3>2. s # t => row'[s] = row[s]
      BY <2>2 DEF Rejected, Retried, Acknowledge, Tried, TypeOK
    <3> QED
      BY <3>1, <3>2 DEF Known
  <2> QED
    BY <2>1, <2>2 DEF UploadStep, BeginUpload, CloudKeeps, CloudConfirms, DeleteFile,
       EspStep, EspFrame, EspDuplicate, Known
<1>4. CASE OtherStep
  <2>1. CASE \E c \in Manual : CompleteButton(c)
    BY <2>1 DEF CompleteButton, Known
  <2>2. CASE \E b \in detached : InsertDetached(b) \/ EnqueueDetached(b)
    <3>1. PICK b \in detached : InsertDetached(b) \/ EnqueueDetached(b)
      BY <2>2
    <3>2. CASE InsertDetached(b) /\ Inserted(b) /\ SlotOf(b) # s
      BY <3>2 DEF Inserted, TypeOK, Known
    <3> QED
      BY <3>1, <3>2 DEF InsertDetached, EnqueueDetached, Known
  <2> QED
    BY <1>4, <2>1, <2>2 DEF OtherStep
<1> QED
  BY <1>1, <1>2, <1>3, <1>4 DEF Next, OtherStep

(* A frame that waits has waited before, or was inserted by this step.     *)
LEMMA PendingStep ==
  ASSUME Inv, Next, NEW s \in Slots, Pending(s)'
  PROVE  \/ Pending(s)
         \/ \E p \in Producers : Insert(p) /\ Slot(p) = s
         \/ \E b \in detached : b.pc = "insert" /\ SlotOf(b) = s
<1>1. CASE Known(s)
  BY <1>1, RowStep DEF Pending
<1>2. CASE ~Known(s)
  BY <1>2, KnownStep DEF Pending
<1> QED
  BY <1>1, <1>2

(* Whoever is about to insert was so before, or has just passed the check. *)
LEMMA EntryStep ==
  ASSUME Inv, Inv', Next, NEW p \in Producers, burst'[p].pc = "insert"
  PROVE  \/ burst[p].pc = "insert" /\ burst'[p] = burst[p]
         \/ /\ Check(p) /\ MayEnter(Slot(p)) /\ file[Slot(p)] = burst[p].sha
            /\ ~Known(Slot(p)) /\ Cardinality(Entering') <= together' /\ together <= together'
            /\ burst'[p] = [burst[p] EXCEPT !.pc = "insert"]
            /\ \A q \in Producers \ {p} : burst'[q] = burst[q]
<1> USE DEF Inv
<1>0. /\ NoBurst.pc = "none" /\ \A n : Start(n).pc = "shoot"
      /\ {Command, Bridge} \cup Manual \subseteq Producers
  BY DEF NoBurst, Start
<1>1. ASSUME NEW q \in Producers, NEW ok \in BOOLEAN, Advance(q, ok), burst[q].pc # "none"
      PROVE  burst'[p] = burst[p] /\ p # q
  BY <1>1, AtWork, AdvancedBurst DEF Advance, TypeOK
<1>2. ASSUME NEW q \in Producers, NEW pc \in {"enqueue", "check"}, At(q, pc), burst[q].pc # "none"
      PROVE  burst'[p] = burst[p]
  <2>1. q = p => burst'[p] = [burst[p] EXCEPT !.pc = pc]
    BY <1>2 DEF At, TypeOK
  <2>2. q = p => burst'[p].pc = pc
    BY <1>2, <2>1, AtWork DEF Burst
  <2> QED
    BY <1>2, <2>2 DEF At, TypeOK
<1>3. ASSUME NEW q \in Producers, Finish(q) PROVE burst'[p] = burst[p]
  BY <1>0, <1>3 DEF Finish, TypeOK
<1>4. CASE SessionStep
  <2>1. CASE PollCommand \/ PressCapture
    <3>1. PICK q \in Producers, n \in Nat :
            burst' = burst \/ burst' = [burst EXCEPT ![q] = Start(n)]
      BY <1>0, <2>1, FrameSpoolAssumption DEF PollCommand, PressCapture
    <3> QED
      BY <1>0, <3>1 DEF TypeOK
  <2>2. CASE CompleteCommand \/ EndSession \/ EspAnswer
    BY <1>0, <1>3, <2>2 DEF CompleteCommand, EndSession, EspAnswer
  <2>3. CASE EspVerify
    BY <1>0, <1>2, <1>3, <2>3 DEF EspVerify
  <2>4. CASE Die
    BY <1>0, <2>4 DEF Die
  <2> QED
    BY <1>4, <2>1, <2>2, <2>3, <2>4 DEF SessionStep, ReenqueueAllPending, AwaitSpoolDrain, EndSignal,
       CloseInCloud, Resume
<1>5. CASE \E q \in Producers : BurstStep(q)
  <2>1. PICK q \in Producers : BurstStep(q)
    BY <1>5
  <2>2. CASE Shoot(q)
    <3>1. burst[q].pc = "shoot"
      BY <2>2 DEF Shoot
    <3>2. CASE Advance(q, FALSE)
      BY <1>1, <3>1, <3>2
    <3>3. CASE \E c \in Contents : burst' = [burst EXCEPT ![q].pc = "check", ![q].sha = c]
      <4>1. PICK c \in Contents : burst' = [burst EXCEPT ![q].pc = "check", ![q].sha = c]
        BY <3>3
      <4>2. q = p => burst'[p] = [burst[p] EXCEPT !.pc = "check", !.sha = c]
        BY <4>1 DEF TypeOK
      <4>3. q = p => burst'[p].pc = "check"
        BY <3>1, <4>2, AtWork DEF Burst
      <4> QED
        BY <4>1, <4>3 DEF TypeOK
    <3> QED
      BY <2>2, <3>2, <3>3 DEF Shoot
  <2>3. CASE Check(q)
    <3>1. burst[q].pc = "check"
      BY <2>3 DEF Check
    <3>2. CASE \E ok \in BOOLEAN : Advance(q, ok)
      BY <1>1, <3>1, <3>2
    <3>3. CASE /\ MayEnter(Slot(q)) /\ file[Slot(q)] = burst[q].sha /\ At(q, "insert")
               /\ ~Known(Slot(q))
               /\ together' = IF Cardinality(Entering') > together THEN Cardinality(Entering')
                              ELSE together
      <4>2. burst' \in [Producers -> Burst \cup {NoBurst}] /\ detached' \subseteq Burst
        BY DEF TypeOK
      <4>3. Cardinality(Entering') \in Nat /\ together \in Nat
        BY <4>2, EnteringFinite DEF TypeOK
      <4>4. Cardinality(Entering') <= together' /\ together <= together'
        BY <3>3, <4>3
      <4>1. \A r \in Producers : burst'[r] = IF r = q THEN [burst[q] EXCEPT !.pc = "insert"] ELSE burst[r]
        BY <3>3 DEF At, TypeOK
      <4> QED
        BY <2>3, <3>3, <4>1, <4>4
    <3> QED
      BY <2>3, <3>2, <3>3 DEF Check
  <2>4. CASE Insert(q)
    BY <1>1, <1>2, <2>4 DEF Insert
  <2>5. CASE Enqueue(q)
    BY <1>1, <2>5 DEF Enqueue
  <2> QED
    BY <2>1, <2>2, <2>3, <2>4, <2>5 DEF BurstStep
<1>6. CASE \E t \in Slots : UploadStep(t) \/ EspStep(t)
  <2>1. PICK t \in Slots : UploadStep(t) \/ EspStep(t)
    BY <1>6
  <2>2. CASE EspFrame(t)
    <3>1. p # Bridge
      BY <1>0, <2>2 DEF EspFrame, TypeOK
    <3> QED
      BY <2>2, <3>1 DEF EspFrame, TypeOK
  <2> QED
    BY <2>1, <2>2 DEF UploadStep, BeginUpload, CloudKeeps, CloudConfirms, Rejected, Retried,
       Acknowledge, DeleteFile, EspStep, EspDuplicate
<1>7. CASE OtherStep
  BY <1>0, <1>3, <1>7 DEF OtherStep, CompleteButton, InsertDetached, EnqueueDetached
<1> QED
  BY <1>4, <1>5, <1>6, <1>7 DEF Next, OtherStep

-------------------------------------------------------------------------------
(* The limit of pages.  A page that was counted at the check may be        *)
(* acknowledged before the insert, so that what the check bounds is the    *)
(* pages that wait together with those about to be inserted.               *)

Limit == IF source = "ANDROID_CAMERA" THEN together ELSE 1

PagesInv ==
  /\ Cardinality(Entering) <= Limit
  /\ \/ PendingPages \cup Entering = {}
     \/ Cardinality(PendingPages \cup Entering) < MaxPages + Limit

LEMMA PagesFinite ==
  ASSUME Inv
  PROVE  /\ IsFiniteSet(PendingPages \cup Entering)
         /\ IsFiniteSet(PendingPages) /\ IsFiniteSet(Entering)
         /\ Cardinality(PendingPages) \in Nat /\ Cardinality(Entering) \in Nat
         /\ Cardinality(PendingPages) <= Cardinality(PendingPages \cup Entering)
         /\ Cardinality(PendingPages \cup Entering) \in Nat
<1>1. IsFiniteSet(Captures)
  BY FS_Interval, FrameSpoolAssumption DEF Captures
<1>2. PendingPages \cup Entering \subseteq Captures
  <2>1. ASSUME NEW b \in detached \cup {burst[p] : p \in Producers}, b.pc = "insert"
        PROVE  b.cap \in Captures
    BY <2>1 DEF Inv, TypeOK, Burst, NoBurst
  <2> QED
    BY <2>1 DEF PendingPages, Entering
<1>3. IsFiniteSet(PendingPages \cup Entering)
  BY <1>1, <1>2, FS_Subset
<1>4. IsFiniteSet(PendingPages) /\ IsFiniteSet(Entering)
  BY <1>3, FS_Subset
<1> QED
  BY <1>3, <1>4, FS_Subset, FS_CardinalityType

(* Two sets have together no more elements than each of them.              *)
LEMMA UnionBound ==
  ASSUME NEW S, NEW T, IsFiniteSet(S), IsFiniteSet(T)
  PROVE  /\ Cardinality(S) \in Nat /\ Cardinality(T) \in Nat /\ Cardinality(S \cup T) \in Nat
         /\ Cardinality(S \cup T) <= Cardinality(S) + Cardinality(T)
<1>1. /\ IsFiniteSet(S \cup T)
      /\ Cardinality(S \cup T) = Cardinality(S) + Cardinality(T) - Cardinality(S \cap T)
  BY FS_Union
<1>2. IsFiniteSet(S \cap T)
  BY FS_Intersection
<1>3. /\ Cardinality(S) \in Nat /\ Cardinality(T) \in Nat
      /\ Cardinality(S \cup T) \in Nat /\ Cardinality(S \cap T) \in Nat
  BY <1>1, <1>2, FS_CardinalityType
<1> QED
  BY <1>1, <1>3

LEMMA PagesStep == ASSUME Inv, Inv', PagesInv, Next PROVE PagesInv'
<1> DEFINE S == PendingPages \cup Entering
           T == PendingPages' \cup Entering'
<1>0. /\ source' = source /\ Limit \in Nat /\ Limit' \in Nat /\ MaxPages \in Nat
      /\ source # "ANDROID_CAMERA" => Limit' = Limit
  BY SourceStep, FrameSpoolAssumption DEF Limit, Inv, TypeOK
<1>a. ASSUME T \subseteq S, Limit <= Limit', Cardinality(Entering') <= Limit'
      PROVE  PagesInv'
  <2>1. IsFiniteSet(S) /\ (S = {} \/ Cardinality(S) < MaxPages + Limit)
    BY PagesFinite DEF PagesInv
  <2>2. PagesInv' <=> T = {} \/ Cardinality(T) < MaxPages + Limit'
    BY <1>a DEF PagesInv
  <2> HIDE DEF S, T
  <2>3. Cardinality(T) <= Cardinality(S) /\ Cardinality(S) \in Nat /\ Cardinality(T) \in Nat
    BY <1>a, <2>1, FS_Subset, FS_CardinalityType
  <2>4. S = {} => T = {}
    BY <1>a
  <2> QED
    BY <1>0, <1>a, <2>1, <2>2, <2>3, <2>4
<1>1. PendingPages' \subseteq PendingPages \cup Entering
  <2> SUFFICES ASSUME NEW c \in Captures, NEW i \in Indexes, Pending(<<c, i>>)'
               PROVE  c \in PendingPages \cup Entering
    BY DEF PendingPages
  <2>1. <<c, i>> \in Slots
    BY DEF Slots
  <2>2. CASE Pending(<<c, i>>)
    BY <2>2 DEF PendingPages
  <2>3. CASE \E p \in Producers : Insert(p) /\ Slot(p) = <<c, i>>
    BY <2>3 DEF Insert, Entering, Slot, SlotOf
  <2>4. CASE \E b \in detached : b.pc = "insert" /\ SlotOf(b) = <<c, i>>
    BY <2>4 DEF Entering, SlotOf
  <2> QED
    BY <2>1, <2>2, <2>3, <2>4, PendingStep
<1>2. CASE \A p \in Producers : burst'[p].pc = "insert" => burst[p].pc = "insert" /\ burst'[p] = burst[p]
  <2>1. Entering' \subseteq Entering
    BY <1>2, DetachedStep DEF Entering
  <2>2. Cardinality(Entering') <= Cardinality(Entering) /\ Cardinality(Entering') \in Nat
    BY <2>1, PagesFinite, FS_Subset, FS_CardinalityType
  <2>3. Limit <= Limit'
    <3>1. CASE together' = together
      BY <1>0, <3>1 DEF Limit
    <3>2. CASE \E p \in Producers : Check(p)
      <4>1. PICK p \in Producers : Check(p)
        BY <3>2
      <4>2. together \in Nat /\ Cardinality(Entering') \in Nat
        BY <2>2 DEF Inv, TypeOK
      <4> DEFINE n == Cardinality(Entering')
      <4>4. together' = together \/ together' = IF n > together THEN n ELSE together
        BY <4>1 DEF Check
      <4> HIDE DEF n
      <4>3. together <= together'
        BY <4>2, <4>4 DEF n
      <4> QED
        BY <1>0, <4>3 DEF Limit
    <3> QED
      BY <3>1, <3>2, LateStep
  <2>4. Cardinality(Entering') <= Limit'
    BY <1>0, <2>2, <2>3, PagesFinite DEF PagesInv
  <2> QED
    BY <1>1, <1>a, <2>1, <2>3, <2>4
<1>3. ASSUME NEW p \in Producers, Check(p), MayEnter(Slot(p)), burst[p].pc = "check",
             Cardinality(Entering') <= together', together <= together',
             burst'[p] = [burst[p] EXCEPT !.pc = "insert"],
             \A q \in Producers \ {p} : burst'[q] = burst[q]
      PROVE  PagesInv'
  <2>1. burst'[p].cap = burst[p].cap /\ burst[p] \in Burst
    BY <1>3, AtWork DEF Burst, Inv
  <2>2. PendingPages' = PendingPages /\ detached' = detached
    BY <1>3 DEF Check, PendingPages, Pending, Known
  <2>3. Entering' \subseteq Entering \cup {burst[p].cap}
    <3> SUFFICES ASSUME NEW b \in detached' \cup {burst'[q] : q \in Producers}, b.pc = "insert"
                 PROVE  b.cap \in Entering \cup {burst[p].cap}
      BY DEF Entering
    <3>1. CASE b \in detached \cup {burst[q] : q \in Producers}
      BY <3>1 DEF Entering
    <3>2. CASE b = burst'[p]
      BY <2>1, <3>2
    <3> QED
      BY <1>3, <2>2, <3>1, <3>2
  <2>4. Cardinality(Entering') <= Limit' /\ Limit <= Limit'
    <3>1. CASE source = "ANDROID_CAMERA"
      BY <1>0, <1>3, <3>1 DEF Limit
    <3>2. CASE source # "ANDROID_CAMERA"
      <4>1. Entering' \subseteq {burst'[Bridge].cap}
        <5>1. \A q \in Cameras : burst'[q].pc # "insert"
          BY <1>0, <3>2 DEF Inv, BurstInv, NoBurst
        <5>2. detached' = {}
          BY <1>0, <3>2 DEF Inv, BurstInv
        <5> QED
          BY <5>1, <5>2 DEF Entering
      <4>2. /\ IsFiniteSet({burst'[Bridge].cap}) /\ Cardinality({burst'[Bridge].cap}) = 1
        BY FS_Singleton
      <4>3. Cardinality(Entering') <= 1
        BY <4>1, <4>2, FS_Subset
      <4> QED
        BY <1>0, <3>2, <4>3 DEF Limit
    <3> QED
      BY <3>1, <3>2
  <2>5. CASE burst[p].cap \in PendingPages
    BY <1>a, <2>2, <2>3, <2>4, <2>5
  <2>6. CASE Cardinality(PendingPages) < MaxPages
    <3>1. /\ Cardinality(T) <= Cardinality(PendingPages') + Cardinality(Entering')
          /\ Cardinality(PendingPages') \in Nat /\ Cardinality(Entering') \in Nat
          /\ Cardinality(T) \in Nat
      <4>1. IsFiniteSet(PendingPages')
        BY <2>2, PagesFinite
      <4>2. IsFiniteSet(Entering')
        BY EnteringFinite DEF Inv, TypeOK
      <4> QED
        BY <4>1, <4>2, UnionBound
    <3>2. Cardinality(PendingPages') < MaxPages
      BY <2>2, <2>6
    <3>3. PagesInv' <=> T = {} \/ Cardinality(T) < MaxPages + Limit'
      BY <2>4 DEF PagesInv
    <3> HIDE DEF T
    <3> QED
      BY <1>0, <2>4, <3>1, <3>2, <3>3
  <2> QED
    BY <1>3, <2>5, <2>6 DEF MayEnter, Slot, SlotOf
<1> QED
  BY <1>2, <1>3, EntryStep DEF Check

(* However many pages are shot, acknowledged and shot again: the camera    *)
(* exceeds the limit by as many pages, less one, as have stood between the *)
(* check and the insert together, and the bridge never.                    *)
THEOREM BackpressureBound == Spec => []PagesBounded
<1>1. Init => PagesInv
  <2> SUFFICES ASSUME Init PROVE PagesInv
    OBVIOUS
  <2>1. PendingPages = {}
    BY DEF Init, PendingPages, Pending, Known, Slots
  <2>2. Entering = {}
    BY DEF Init, Entering, NoBurst
  <2>3. Cardinality(Entering) = 0
    BY <2>2, FS_EmptySet
  <2>4. Limit \in Nat
    BY DEF Init, Limit
  <2> QED
    BY <2>1, <2>2, <2>3, <2>4 DEF PagesInv
<1>2. Inv /\ Inv' /\ PagesInv /\ [Next]_vars => PagesInv'
  <2>1. ASSUME PagesInv, UNCHANGED vars PROVE PagesInv'
    BY <2>1 DEF vars, viewVars, PagesInv, Limit, PendingPages, Pending, Known, Entering
  <2> QED
    BY <2>1, PagesStep
<1>3. Inv /\ PagesInv => PagesBounded
  <2> SUFFICES ASSUME Inv, PagesInv, PendingPages # {}
               PROVE  Cardinality(PendingPages) < MaxPages + Limit
    BY DEF PagesBounded, Limit
  <2>1. Cardinality(PendingPages \cup Entering) < MaxPages + Limit /\ Limit \in Nat
    BY DEF PagesInv, Limit, Inv, TypeOK
  <2> QED
    BY <2>1, PagesFinite, FrameSpoolAssumption
<1> QED
  BY <1>1, <1>2, <1>3, Invariance, PTL DEF Spec

-------------------------------------------------------------------------------
(* The end of the session: the burst of a command is cancelled before the  *)
(* spool is waited for, and what it registers all the same is late.        *)

DrainInv ==
  /\ ui \in {"closing", "signalling"} => burst[Command] = NoBurst
  /\ CommandsAreDrained

LEMMA DrainStep == ASSUME Inv, DrainInv, Next PROVE DrainInv'
<1> USE DEF Inv
<1>0. {Command, Bridge} \cup Manual \subseteq Producers
  OBVIOUS
<1>1. ui' \in {"closing", "signalling"} => burst'[Command] = NoBurst
  <2>1. CASE SessionStep
    BY <1>0, <2>1 DEF SessionStep, PollCommand, PressCapture, CompleteCommand, ReenqueueAllPending,
       EndSession, AwaitSpoolDrain, EndSignal, CloseInCloud, Die, Resume,
       EspVerify, EspAnswer, At, Finish, cloudVars, viewVars, TypeOK, DrainInv
  <2>2. CASE \E p \in Producers : BurstStep(p)
    <3>1. PICK p \in Producers : BurstStep(p)
      BY <2>2
    <3>2. ui' = ui /\ burst[p].pc # "none"
      BY <3>1 DEF BurstStep, Shoot, Check, Insert, Enqueue, viewVars
    <3>3. p # Command => burst'[Command] = burst[Command]
      BY <1>0, <3>1 DEF BurstStep, Shoot, Check, Insert, Enqueue, Advance, At, TypeOK
    <3> QED
      BY <3>2, <3>3 DEF DrainInv, NoBurst
  <2>3. CASE \E t \in Slots : UploadStep(t) \/ EspStep(t)
    BY <1>0, <2>3 DEF UploadStep, BeginUpload, CloudKeeps, CloudConfirms, Rejected, Retried,
       Acknowledge, DeleteFile, EspStep, EspFrame, EspDuplicate, viewVars, TypeOK, DrainInv
  <2>4. CASE OtherStep
    BY <1>0, <2>4 DEF OtherStep, CompleteButton, Finish, InsertDetached, EnqueueDetached, viewVars,
       TypeOK, DrainInv
  <2> QED
    BY <2>1, <2>2, <2>3, <2>4 DEF Next, OtherStep
<1>2. CommandsAreDrained'
  <2> SUFFICES ASSUME ui' = "signalling", NEW s \in Slots, s[1] <= MaxCursor, Known(s)'
               PROVE  ledger'[s] = row'[s].sha \/ s \in late'
    BY DEF CommandsAreDrained
  <2>1. CASE AwaitSpoolDrain
    <3>1. SpoolDrained /\ UNCHANGED <<row, ledger>>
      BY <2>1 DEF AwaitSpoolDrain, cloudVars
    <3>2. row[s].ack
      BY <3>1 DEF SpoolDrained, Pending, Known
    <3> QED
      BY <3>1, <3>2 DEF AckedIsStored
  <2>2. CASE ~AwaitSpoolDrain
    <3>1. ui = "signalling"
      BY <2>2 DEF Next, SessionStep, PollCommand, PressCapture, CompleteCommand,
         ReenqueueAllPending, EndSession, EndSignal, CloseInCloud, Die, Resume, EspVerify, EspAnswer,
         BurstStep, Shoot, Check, Insert, Enqueue, UploadStep, BeginUpload, CloudKeeps, CloudConfirms,
         Rejected, Retried, Acknowledge, DeleteFile, EspStep, EspFrame, EspDuplicate, CompleteButton,
         InsertDetached, EnqueueDetached, viewVars
    <3>2. burst[Command] = NoBurst /\ burst[Bridge] = NoBurst
      BY <3>1 DEF DrainInv, BurstInv
    <3>3. ~\E p \in Producers : Insert(p) /\ Slot(p) = s
      <4> SUFFICES ASSUME NEW p \in Producers, Insert(p), Slot(p) = s PROVE FALSE
        OBVIOUS
      <4>1. p \in Manual /\ burst[p] # NoBurst /\ burst[p] \in Burst
        BY <3>2, AtWork DEF Insert, NoBurst
      <4>2. s[1] > MaxCursor
        BY <4>1 DEF BurstInv, Slot, SlotOf
      <4> QED
        BY <4>2, FrameSpoolAssumption DEF Slots, Captures
    <3>4. Known(s) \/ s \in late'
      BY <3>3, KnownStep
    <3>5. CASE Known(s) /\ ledger[s] = row[s].sha
      <4>1. row'[s].sha = row[s].sha /\ row[s].sha # NoContent
        BY <3>5, RowStep, RowType
      <4> QED
        BY <3>5, <4>1, LedgerStep
    <3>6. CASE s \in late
      BY <2>2, <3>6, LateStep
    <3> QED
      BY <3>1, <3>4, <3>5, <3>6 DEF DrainInv, CommandsAreDrained
  <2> QED
    BY <2>1, <2>2
<1> QED
  BY <1>1, <1>2 DEF DrainInv

(* S04.3: no frame a command has registered is missing in the cloud when   *)
(* the end-signal goes out, except one that its cancelled burst has        *)
(* registered since the spool was found empty.                             *)
THEOREM DrainedAtEnd == Spec => []CommandsAreDrained
<1>1. Init => DrainInv
  BY DEF Init, DrainInv, CommandsAreDrained
<1>2. Inv /\ DrainInv /\ [Next]_vars => DrainInv'
  <2>1. ASSUME DrainInv, UNCHANGED vars PROVE DrainInv'
    BY <2>1 DEF vars, viewVars, cloudVars, DrainInv, CommandsAreDrained, Known
  <2> QED
    BY <2>1, DrainStep
<1>3. DrainInv => CommandsAreDrained
  BY DEF DrainInv
<1> QED
  BY <1>1, <1>2, <1>3, Invariance, PTL DEF Spec

-------------------------------------------------------------------------------
(* The bridge: what it deletes after a failed verification is not the file *)
(* of a frame that waits, and what it registers is the file it wrote.      *)

EspInv ==
  source = "ESP32_CAMERA" =>
    /\ burst[Bridge].pc # "shoot"
    /\ burst[Bridge].pc = "verify" => ~Pending(Slot(Bridge))
    /\ burst[Bridge].pc = "insert" =>
         ~Known(Slot(Bridge)) /\ file[Slot(Bridge)] = burst[Bridge].sha
    /\ \A s \in Slots : Pending(s) => file[s] = row[s].sha

(* With an ESP only the bridge works, so only it inserts and writes files. *)
LEMMA EspFileStep ==
  ASSUME Inv, EspInv, Next, source = "ESP32_CAMERA", NEW s \in Slots
  PROVE  \/ file'[s] = file[s]
         \/ Known(s) /\ row[s].ack /\ row'[s].ack
         \/ EspFrame(s) /\ file[s] = NoContent
         \/ EspVerify /\ s = Slot(Bridge) /\ burst[Bridge].pc = "verify" /\ burst'[Bridge] = NoBurst
<1> USE DEF Inv
<1>0. /\ \A p \in Cameras : burst[p] = NoBurst
      /\ detached = {} /\ NoBurst.pc = "none"
      /\ burst[Bridge].pc # "shoot" /\ Bridge \in Producers
  BY DEF BurstInv, NoBurst, EspInv
<1>1. CASE SessionStep
  BY <1>0, <1>1 DEF SessionStep, PollCommand, PressCapture, CompleteCommand, ReenqueueAllPending,
     EndSession, AwaitSpoolDrain, EndSignal, CloseInCloud, Die, Resume,
     EspVerify, EspAnswer, Finish, TypeOK
<1>2. CASE \E p \in Producers : BurstStep(p)
  BY <1>0, <1>2 DEF BurstStep, Shoot, Check, Insert, Enqueue, Producers, Cameras
<1>3. CASE \E t \in Slots : UploadStep(t) \/ EspStep(t)
  <2>1. PICK t \in Slots : UploadStep(t) \/ EspStep(t)
    BY <1>3
  <2>2. CASE DeleteFile(t)
    BY <2>2 DEF DeleteFile, WorkInv, TypeOK
  <2>3. CASE EspFrame(t)
    BY <2>3 DEF EspFrame, TypeOK
  <2> QED
    BY <2>1, <2>2, <2>3 DEF UploadStep, BeginUpload, CloudKeeps, CloudConfirms, Rejected, Retried,
       Acknowledge, EspStep, EspDuplicate
<1>4. CASE OtherStep
  BY <1>0, <1>4 DEF OtherStep, CompleteButton
<1> QED
  BY <1>1, <1>2, <1>3, <1>4 DEF Next, OtherStep

LEMMA EspStepInv == ASSUME Inv, Inv', EspInv, Next PROVE EspInv'
<1> USE DEF Inv
<1> SUFFICES ASSUME source = "ESP32_CAMERA" PROVE EspInv'
  BY SourceStep DEF EspInv
<1>0. /\ \A p \in Cameras : burst[p] = NoBurst
      /\ detached = {} /\ NoBurst.pc = "none"
      /\ Bridge \in Producers
      /\ burst[Bridge].pc # "shoot"
      /\ burst[Bridge].pc = "verify" => ~Pending(Slot(Bridge))
      /\ burst[Bridge].pc = "insert" =>
           ~Known(Slot(Bridge)) /\ file[Slot(Bridge)] = burst[Bridge].sha
      /\ \A s \in Slots : Pending(s) => file[s] = row[s].sha
  BY DEF BurstInv, NoBurst, Producers, Cameras, EspInv
(* The bridge after the step: as it was, at the verification of a new      *)
(* frame, or further.                                                      *)
<1>1. \/ burst'[Bridge] = burst[Bridge]
      \/ \E s \in Slots : EspFrame(s) /\ burst'[Bridge].pc = "verify" /\ Slot(Bridge)' = s
      \/ burst'[Bridge].pc \notin {"shoot", "verify"}
  <2>1. CASE SessionStep
    <3>1. CASE EspVerify
      <4>1. burst[Bridge].pc = "verify"
        BY <3>1 DEF EspVerify
      <4>2. burst[Bridge] \in Burst
        BY <1>0, <4>1, AtWork
      <4>3. burst'[Bridge] \in {[burst[Bridge] EXCEPT !.pc = "check"], NoBurst}
        BY <1>0, <3>1 DEF EspVerify, At, Finish, TypeOK
      <4> QED
        BY <1>0, <4>2, <4>3 DEF Burst
    <3> QED
      BY <1>0, <2>1, <3>1 DEF SessionStep, PollCommand, PressCapture, CompleteCommand,
         ReenqueueAllPending, EndSession, AwaitSpoolDrain, EndSignal, CloseInCloud, Die, Resume,
         EspAnswer, Finish, TypeOK
  <2>2. CASE \E p \in Producers : BurstStep(p)
    <3>1. PICK p \in Producers : BurstStep(p)
      BY <2>2
    <3>2. p = Bridge /\ burst[p].pc # "none"
      BY <1>0, <3>1 DEF BurstStep, Shoot, Check, Insert, Enqueue, Producers, Cameras
    <3>3. burst[p] \in Burst
      BY <3>2, AtWork
    <3>4. ASSUME NEW ok \in BOOLEAN, Advance(Bridge, ok) PROVE burst'[Bridge].pc = "complete"
      <4>1. burst'[Bridge] = [burst[Bridge] EXCEPT !.pc = "complete", !.sha = NoContent,
                                                       !.saved = Saved(burst[Bridge], ok)]
        BY <1>0, <3>4 DEF Advance, Advanced, TypeOK, Cameras
      <4> QED
        BY <3>2, <3>3, <4>1 DEF Burst
    <3>5. ASSUME NEW pc \in {"insert", "enqueue"}, At(Bridge, pc) PROVE burst'[Bridge].pc = pc
      BY <1>0, <3>2, <3>3, <3>5 DEF At, TypeOK, Burst
    <3> QED
      BY <1>0, <3>1, <3>2, <3>4, <3>5 DEF BurstStep, Shoot, Check, Insert, Enqueue
  <2>3. CASE \E t \in Slots : UploadStep(t) \/ EspStep(t)
    <3>1. PICK t \in Slots : UploadStep(t) \/ EspStep(t)
      BY <2>3
    <3>2. CASE EspFrame(t)
      <4>1. PICK c \in Contents : burst'[Bridge] =
              [pc |-> "verify", cap |-> t[1], idx |-> t[2], sha |-> c, saved |-> {}]
        BY <1>0, <3>2 DEF EspFrame, TypeOK
      <4>2. t = <<t[1], t[2]>>
        BY DEF Slots
      <4> QED
        BY <3>2, <4>1, <4>2 DEF Slot, SlotOf
    <3> QED
      BY <3>1, <3>2 DEF UploadStep, BeginUpload, CloudKeeps, CloudConfirms, Rejected, Retried,
         Acknowledge, DeleteFile, EspStep, EspDuplicate
  <2>4. CASE OtherStep
    BY <1>0, <2>4 DEF OtherStep, CompleteButton
  <2> QED
    BY <2>1, <2>2, <2>3, <2>4 DEF Next, OtherStep
<1>a. ASSUME NEW p \in Producers, Insert(p) PROVE p = Bridge
  BY <1>0, <1>a DEF Insert
<1>2. ASSUME NEW s \in Slots, Pending(s)' PROVE Pending(s) \/ (Insert(Bridge) /\ Slot(Bridge) = s)
  BY <1>0, <1>2, <1>a, PendingStep
<1>3. burst'[Bridge].pc # "shoot"
  BY <1>0, <1>1
<1>4. burst'[Bridge].pc = "verify" => ~Pending(Slot(Bridge))'
  <2> SUFFICES ASSUME burst'[Bridge].pc = "verify", Pending(Slot(Bridge))' PROVE FALSE
    OBVIOUS
  <2>1. CASE burst'[Bridge] = burst[Bridge]
    <3>1. Slot(Bridge)' = Slot(Bridge) /\ Slot(Bridge) \in Slots /\ burst[Bridge].pc = "verify"
      BY <1>0, <2>1, AtWork DEF Slot
    <3>2. Pending(Slot(Bridge))' <=> Known(Slot(Bridge))' /\ ~row'[Slot(Bridge)].ack
      BY <3>1 DEF Pending, Known
    <3>3. ~Insert(Bridge)
      BY <3>1 DEF Insert
    <3>4. ~Pending(Slot(Bridge))
      BY <1>0, <3>1
    <3> QED
      BY <1>2, <3>1, <3>3, <3>4 DEF Pending, Known
  <2>2. CASE \E s \in Slots : EspFrame(s) /\ Slot(Bridge)' = s
    <3>1. PICK s \in Slots : EspFrame(s) /\ Slot(Bridge)' = s
      BY <2>2
    <3>2. Pending(s) /\ file[s] = NoContent
      BY <3>1 DEF EspFrame, Pending, Known
    <3> QED
      BY <1>0, <3>2, RowType DEF Pending
  <2> QED
    BY <1>1, <2>1, <2>2
<1>5. burst'[Bridge].pc = "insert" =>
        ~Known(Slot(Bridge))' /\ file'[Slot(Bridge)'] = burst'[Bridge].sha
  <2> SUFFICES ASSUME burst'[Bridge].pc = "insert"
               PROVE  ~Known(Slot(Bridge))' /\ file'[Slot(Bridge)'] = burst'[Bridge].sha
    OBVIOUS
  <2>1. CASE burst[Bridge].pc = "insert" /\ burst'[Bridge] = burst[Bridge]
    <3>1. Slot(Bridge)' = Slot(Bridge) /\ Slot(Bridge) \in Slots /\ ~Known(Slot(Bridge))
      BY <1>0, <2>1, AtWork DEF Slot
    <3>2. ~EspFrame(Slot(Bridge))
      BY <1>0, <2>1 DEF EspFrame
    <3>3. file'[Slot(Bridge)] = file[Slot(Bridge)]
      <4>1. ~row[Slot(Bridge)].ack
        BY <3>1, RowType
      <4> QED
        BY <2>1, <3>1, <3>2, EspFileStep
    <3>4. ~Insert(Bridge)
      <4> SUFFICES ASSUME Insert(Bridge) PROVE FALSE
        OBVIOUS
      <4>1. burst[Bridge] \in Burst
        BY <1>0, <2>1, AtWork
      <4>2. At(Bridge, "enqueue") => burst'[Bridge].pc = "enqueue"
        BY <1>0, <4>1 DEF At, TypeOK, Burst
      <4>3. Advance(Bridge, FALSE) => burst'[Bridge].pc # "insert"
        BY <1>0, <4>1, AdvancedBurst DEF Advance, TypeOK
      <4> QED
        BY <4>2, <4>3 DEF Insert
    <3>5. ~Known(Slot(Bridge))'
      <4> DEFINE t == Slot(Bridge)
      <4>1. t \in Slots /\ ~Known(t) /\ t = Slot(Bridge)'
        BY <3>1
      <4>2. ASSUME row'[t] # NoRow PROVE FALSE
        <5>1. Known(t) \/ \E p \in Producers : Insert(p)
          BY <1>0, <4>1, <4>2, KnownStep DEF Known
        <5> QED
          BY <1>a, <3>4, <4>1, <5>1
      <4> QED
        BY <4>1, <4>2 DEF Known
    <3> QED
      BY <1>0, <2>1, <3>1, <3>3, <3>5
  <2>2. CASE /\ Check(Bridge) /\ file[Slot(Bridge)] = burst[Bridge].sha /\ ~Known(Slot(Bridge))
             /\ burst'[Bridge] = [burst[Bridge] EXCEPT !.pc = "insert"]
    <3>1. burst[Bridge] \in Burst /\ file' = file /\ row' = row
      BY <1>0, <2>2, AtWork DEF Check
    <3>2. Slot(Bridge)' = Slot(Bridge) /\ burst'[Bridge].sha = burst[Bridge].sha
      BY <2>2, <3>1 DEF Slot, SlotOf, Burst
    <3> QED
      BY <2>2, <3>1, <3>2 DEF Known
  <2>3. \/ burst[Bridge].pc = "insert" /\ burst'[Bridge] = burst[Bridge]
        \/ /\ Check(Bridge) /\ file[Slot(Bridge)] = burst[Bridge].sha /\ ~Known(Slot(Bridge))
           /\ burst'[Bridge] = [burst[Bridge] EXCEPT !.pc = "insert"]
    BY <1>0, EntryStep
  <2> QED
    BY <2>1, <2>2, <2>3
<1>6. ASSUME NEW s \in Slots, Pending(s)' PROVE file'[s] = row'[s].sha
  <2>1. CASE Pending(s)
    <3>1. row'[s].sha = row[s].sha /\ file[s] = row[s].sha /\ file[s] # NoContent /\ ~row[s].ack
      BY <1>0, <2>1, RowStep, RowType DEF Pending
    <3>2. ~(s = Slot(Bridge) /\ burst[Bridge].pc = "verify")
      BY <1>0, <2>1
    <3> QED
      BY <3>1, <3>2, EspFileStep
  <2>2. CASE Insert(Bridge) /\ Slot(Bridge) = s
    <3>2. burst[Bridge].pc = "insert" /\ file' = file /\ Inserted(burst[Bridge])
      BY <1>0, <2>2 DEF Insert
    <3>3. row' = [row EXCEPT ![s] = [sha |-> burst[Bridge].sha, ack |-> FALSE, attempts |-> 0]]
      BY <2>2, <3>2 DEF Inserted, Slot
    <3>1. row'[s].sha = burst[Bridge].sha /\ file'[s] = file[s] /\ burst[Bridge].pc = "insert"
      BY <3>2, <3>3 DEF TypeOK
    <3> QED
      BY <1>0, <2>2, <3>1
  <2> QED
    BY <1>2, <1>6, <2>1, <2>2
<1> QED
  BY <1>3, <1>4, <1>5, <1>6 DEF EspInv

(* The file of an ESP's frame that waits is what its row says, whatever    *)
(* the ESP sends again, whoever else is served and whenever the app dies.  *)
THEOREM EspFilesAreKept == Spec => []EspPendingKept
<1>1. Init => EspInv
  BY DEF Init, EspInv, NoBurst, Pending, Known, Producers
<1>2. Inv /\ Inv' /\ EspInv /\ [Next]_vars => EspInv'
  <2>1. ASSUME EspInv, UNCHANGED vars PROVE EspInv'
    BY <2>1 DEF vars, viewVars, EspInv, Pending, Known, Slot
  <2> QED
    BY <2>1, EspStepInv
<1>3. EspInv => EspPendingKept
  BY DEF EspInv, EspPendingKept
<1> QED
  BY <1>1, <1>2, <1>3, Invariance, PTL DEF Spec

===============================================================================
