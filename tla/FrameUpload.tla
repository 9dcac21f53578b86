------------------------------ MODULE FrameUpload ------------------------------
(***************************************************************************)
(* The cloud side of a capture: POST /frame, /capture-complete and         *)
(* /end-signal of one session, and the script that reconciles orphans.     *)
(*                                                                         *)
(* An upload reads the session without a lock, then locks its row and      *)
(* works on the entity it read before; it writes the original to object    *)
(* storage, inserts the frame, answers, and commits after the answer.      *)
(* Nothing makes storage and database one transaction: every step after    *)
(* the original is written may fail and leaves it behind.                  *)
(***************************************************************************)
EXTENDS Naturals, FiniteSets

CONSTANTS
  Captures,   \* capture_id
  Indexes,    \* frame_index
  Contents,   \* JPEGs, named by their SHA-256
  NoContent,
  Requests    \* uploads the server works on at the same time

VARIABLES
  status,     \* sessions.status: open for uploads or LOCKED
  capture,    \* captures.status; "none": there is no row
  received,   \* captures.received_frames
  frames,     \* the sha256 of the committed frames row of a slot
  objects,    \* the original in bucket pages-originals
  orphans,    \* storage_orphans rows with no resolved_at
  request,    \* the uploads in progress
  recon,      \* the orphan the reconciliation is about to link
  confirmed,  \* history: slots and contents answered 2xx
  undone      \* history: slots whose transaction failed after the answer

vars == <<status, capture, received, frames, objects, orphans, request, recon,
          confirmed, undone>>

ASSUME FrameUploadAssumption ==
  /\ NoContent \notin Contents
  /\ IsFiniteSet(Indexes)

Slots == Captures \X Indexes
MaybeContent == Contents \cup {NoContent}

Upload == [pc : {"loaded", "stored", "answered"}, slot : Slots, sha : Contents,
           open : BOOLEAN]
NoUpload == [pc |-> "idle", slot |-> <<>>, sha |-> NoContent, open |-> FALSE]

Link == [slot : Slots, sha : Contents, count : Nat]
NoLink == [slot |-> <<>>, sha |-> NoContent, count |-> 0]

-------------------------------------------------------------------------------

(* The frames of a capture in the database.                                *)
FramesOf(c) == {i \in Indexes : frames[<<c, i>>] # NoContent}
FrameCount(c) == Cardinality(FramesOf(c))

(* An upload that holds the lock of the sessions row, and with it of the   *)
(* captures row, until its transaction ends.                               *)
Holds(r) == request[r].pc \in {"stored", "answered"}
Free == \A r \in Requests : ~Holds(r)

Init ==
  /\ status = "CAPTURING"
  /\ capture = [c \in Captures |-> "none"]
  /\ received = [c \in Captures |-> 0]
  /\ frames = [s \in Slots |-> NoContent]
  /\ objects = [s \in Slots |-> NoContent]
  /\ orphans = {}
  /\ request = [r \in Requests |-> NoUpload]
  /\ recon = NoLink
  /\ confirmed = {}
  /\ undone = {}

-------------------------------------------------------------------------------
(* The upload of a frame.                                                  *)

(* The handler reads the session to check its binding and takes in the     *)
(* body; the status it sees here is the one upload_frame will judge by.    *)
Load(r, s, c) ==
  /\ request[r] = NoUpload
  /\ request' = [request EXCEPT ![r] =
       [pc |-> "loaded", slot |-> s, sha |-> c, open |-> (status = "CAPTURING")]]
  /\ UNCHANGED <<status, capture, received, frames, objects, orphans, recon,
                 confirmed, undone>>

(* Mutant: a known frame is confirmed whatever its content.                *)
IsAnyDuplicate(r) == frames[request[r].slot] # NoContent

(* The frame is known with this very content.                              *)
IsDuplicate(r) == frames[request[r].slot] = request[r].sha

(* Idempotency comes first: a known frame is confirmed after the end of    *)
(* the capture too.                                                        *)
Duplicate(r) ==
  /\ request[r].pc = "loaded"
  /\ Free
  /\ IsDuplicate(r)
  /\ confirmed' = confirmed \cup {<<request[r].slot, request[r].sha>>}
  /\ request' = [request EXCEPT ![r] = NoUpload]
  /\ UNCHANGED <<status, capture, received, frames, objects, orphans, recon, undone>>

(* Mutant: an original that exists is taken for the one being uploaded.    *)
MayStoreUnchecked(r) ==
  /\ request[r].open
  /\ frames[request[r].slot] = NoContent

(* A new frame, a session that was open, and an original that is missing   *)
(* or has the same content: an earlier try wrote it and did not commit.    *)
MayStore(r) ==
  /\ request[r].open
  /\ frames[request[r].slot] = NoContent
  /\ objects[request[r].slot] \in {NoContent, request[r].sha}

(* The original is in storage; the lock is held.                           *)
Store(r) ==
  /\ request[r].pc = "loaded"
  /\ Free
  /\ MayStore(r)
  /\ objects' = [objects EXCEPT ![request[r].slot] =
                   IF @ = NoContent THEN request[r].sha ELSE @]
  /\ request' = [request EXCEPT ![r].pc = "stored"]
  /\ UNCHANGED <<status, capture, received, frames, orphans, recon, confirmed, undone>>

(* 409 for a closed session or another content, or an error before storage *)
(* is reached, or a storage error: the write may have taken place even so. *)
Refuse(r) ==
  /\ request[r].pc = "loaded"
  /\ \/ UNCHANGED objects
     \/ /\ Free /\ MayStore(r) /\ objects[request[r].slot] = NoContent
        /\ objects' = [objects EXCEPT ![request[r].slot] = request[r].sha]
  /\ request' = [request EXCEPT ![r] = NoUpload]
  /\ UNCHANGED <<status, capture, received, frames, orphans, recon, confirmed, undone>>

(* The insert or the OCR derivative fails, or the process dies: rollback.  *)
(* Only a failed insert records the orphan, and that may fail as well.     *)
Abort(r) ==
  /\ request[r].pc = "stored"
  /\ orphans' \in {orphans, orphans \cup {<<request[r].slot, request[r].sha>>}}
  /\ request' = [request EXCEPT ![r] = NoUpload]
  /\ UNCHANGED <<status, capture, received, frames, objects, recon, confirmed, undone>>

(* The frame and its derivative are in the transaction: 2xx.               *)
Answer(r) ==
  /\ request[r].pc = "stored"
  /\ confirmed' = confirmed \cup {<<request[r].slot, request[r].sha>>}
  /\ request' = [request EXCEPT ![r].pc = "answered"]
  /\ UNCHANGED <<status, capture, received, frames, objects, orphans, recon, undone>>

(* get_uow commits after the answer was sent.                              *)
Commit(r) ==
  /\ request[r].pc = "answered"
  /\ LET s == request[r].slot IN
       /\ frames' = [frames EXCEPT ![s] = request[r].sha]
       /\ received' = [received EXCEPT ![s[1]] = @ + 1]
       /\ capture' = [capture EXCEPT ![s[1]] = IF @ = "none" THEN "open" ELSE @]
  /\ request' = [request EXCEPT ![r] = NoUpload]
  /\ UNCHANGED <<status, objects, orphans, recon, confirmed, undone>>

CommitFails(r) ==
  /\ request[r].pc = "answered"
  /\ undone' = undone \cup {request[r].slot}
  /\ request' = [request EXCEPT ![r] = NoUpload]
  /\ UNCHANGED <<status, capture, received, frames, objects, orphans, recon, confirmed>>

-------------------------------------------------------------------------------
(* The end of a capture and of the session.                                *)

(* Mutant: the number the gateway declares is believed.                    *)
DeclaredCount(c) == Cardinality(Indexes)

(* The number of frames in the database, whatever the gateway declares.    *)
ConfirmedCount(c) == FrameCount(c)

(* A capture whose first upload has not committed is not found.            *)
CaptureComplete(c) ==
  /\ capture[c] # "none"
  /\ \A r \in Requests : Holds(r) => request[r].slot[1] # c
  /\ received' = [received EXCEPT ![c] = ConfirmedCount(c)]
  /\ capture' = [capture EXCEPT ![c] = "complete"]
  /\ UNCHANGED <<status, frames, objects, orphans, request, recon, confirmed, undone>>

(* From CAPTURING through the states between, in one transaction.          *)
EndState == "LOCKED"

EndSignal ==
  /\ status = "CAPTURING"
  /\ Free
  /\ status' = EndState
  /\ UNCHANGED <<capture, received, frames, objects, orphans, request, recon,
                 confirmed, undone>>

-------------------------------------------------------------------------------
(* reconcile: one orphan after another, without a lock.                    *)

(* An orphan without its object, of a linked frame, or with other bytes,   *)
(* is resolved and nothing else changes.                                   *)
Resolve(s, c) ==
  /\ <<s, c>> \in orphans
  /\ \/ objects[s] = NoContent
     \/ /\ capture[s[1]] # "none"
        /\ frames[s] # NoContent \/ objects[s] # c
  /\ orphans' = orphans \ {<<s, c>>}
  /\ UNCHANGED <<status, capture, received, frames, objects, request, recon,
                 confirmed, undone>>

(* The object is the one the orphan names and its frame is missing.        *)
Linkable(s, c) ==
  /\ <<s, c>> \in orphans
  /\ capture[s[1]] # "none"
  /\ frames[s] = NoContent
  /\ objects[s] = c

ReadOrphan(s, c) ==
  /\ recon = NoLink
  /\ Linkable(s, c)
  /\ recon' = [slot |-> s, sha |-> c, count |-> received[s[1]]]
  /\ UNCHANGED <<status, capture, received, frames, objects, orphans, request,
                 confirmed, undone>>

(* The count is the one that was read, and one.  The foreign keys wait for *)
(* an upload that holds the session; a frame that came in between breaks   *)
(* the unique index, and all is rolled back.                               *)
LinkOrphan ==
  /\ recon # NoLink
  /\ Free
  /\ frames[recon.slot] = NoContent
  /\ frames' = [frames EXCEPT ![recon.slot] = recon.sha]
  /\ received' = [received EXCEPT ![recon.slot[1]] = recon.count + 1]
  /\ orphans' = orphans \ {<<recon.slot, recon.sha>>}
  /\ recon' = NoLink
  /\ UNCHANGED <<status, capture, objects, request, confirmed, undone>>

LinkFails ==
  /\ recon # NoLink
  /\ recon' = NoLink
  /\ UNCHANGED <<status, capture, received, frames, objects, orphans, request,
                 confirmed, undone>>

-------------------------------------------------------------------------------

UploadStep(r) ==
  \/ \E s \in Slots, c \in Contents : Load(r, s, c)
  \/ Duplicate(r)
  \/ Store(r)
  \/ Refuse(r)
  \/ Abort(r)
  \/ Answer(r)
  \/ Commit(r)
  \/ CommitFails(r)

ReconcileStep ==
  \/ \E s \in Slots, c \in Contents : Resolve(s, c) \/ ReadOrphan(s, c)
  \/ LinkOrphan
  \/ LinkFails

Next ==
  \/ \E r \in Requests : UploadStep(r)
  \/ \E c \in Captures : CaptureComplete(c)
  \/ EndSignal
  \/ ReconcileStep

Spec == Init /\ [][Next]_vars

-------------------------------------------------------------------------------

TypeOK ==
  /\ status \in {"CAPTURING", "LOCKED"}
  /\ capture \in [Captures -> {"none", "open", "complete"}]
  /\ received \in [Captures -> Nat]
  /\ frames \in [Slots -> MaybeContent]
  /\ objects \in [Slots -> MaybeContent]
  /\ orphans \subseteq Slots \X Contents
  /\ request \in [Requests -> Upload \cup {NoUpload}]
  /\ recon \in Link \cup {NoLink}
  /\ confirmed \subseteq Slots \X Contents
  /\ undone \subseteq Slots

(* A frame of the database has its original in storage, with the very      *)
(* bytes of its hash, and a capture it belongs to: whatever failed, was    *)
(* repeated, or was linked by the reconciliation.                          *)
FrameHasOriginal ==
  \A s \in Slots : frames[s] # NoContent =>
    /\ objects[s] = frames[s]
    /\ capture[s[1]] # "none"

(* An upload answered 2xx is in the database, or its commit is next, or    *)
(* its commit failed after the answer: nothing else loses it.              *)
ConfirmedIsRecorded ==
  \A p \in confirmed :
    \/ frames[p[1]] = p[2]
    \/ p[1] \in undone
    \/ \E r \in Requests :
         request[r].pc = "answered" /\ request[r].slot = p[1] /\ request[r].sha = p[2]

(* received_frames never counts a frame the database does not have,        *)
(* although uploads, capture-complete and the reconciliation all write it, *)
(* the last from a value it read without a lock.                           *)
NeverOvercounted == \A c \in Captures : received[c] <= FrameCount(c)

(* The detailed cloud keeps the promise of the ledger.                     *)
Ledger == INSTANCE FrameLedger WITH ledger <- objects
KeepsLedger == Ledger!LedgerSpec

================================================================================
