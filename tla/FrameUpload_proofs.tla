-------------------------- MODULE FrameUpload_proofs --------------------------
(***************************************************************************)
(* Proofs about FrameUpload for any captures, frame indexes, contents and  *)
(* number of concurrent uploads.                                           *)
(*                                                                         *)
(* The invariant is about what is held between the steps of one upload and *)
(* of one reconciliation: the upload that holds the lock has its original  *)
(* in storage and no frame yet, and the orphan about to be linked has its  *)
(* original, its capture, and a count that has only grown since.           *)
(***************************************************************************)
EXTENDS FrameUpload, FiniteSetTheorems, TLAPS

OneHolder == \A r, q \in Requests : Holds(r) /\ Holds(q) => r = q

HolderIsBacked ==
  \A r \in Requests : Holds(r) =>
    /\ objects[request[r].slot] = request[r].sha
    /\ frames[request[r].slot] = NoContent

LinkIsBacked ==
  recon # NoLink =>
    /\ objects[recon.slot] = recon.sha
    /\ capture[recon.slot[1]] # "none"
    /\ recon.count <= FrameCount(recon.slot[1])

ConfirmedIsKept == \A p \in confirmed : objects[p[1]] = p[2]

Inv ==
  /\ TypeOK
  /\ OneHolder
  /\ HolderIsBacked
  /\ LinkIsBacked
  /\ FrameHasOriginal
  /\ ConfirmedIsRecorded
  /\ ConfirmedIsKept
  /\ NeverOvercounted

-------------------------------------------------------------------------------

(* A slot is a capture and an index.                                       *)
LEMMA SlotParts ==
  ASSUME NEW s \in Slots
  PROVE  s[1] \in Captures /\ s[2] \in Indexes /\ s = <<s[1], s[2]>>
  BY DEF Slots

(* An upload in progress is for a slot and a content; nothing holds less.  *)
LEMMA InProgress ==
  ASSUME TypeOK, NEW r \in Requests, request[r].pc # "idle"
  PROVE  request[r] \in Upload
  BY DEF TypeOK, NoUpload

LEMMA LinkInProgress ==
  ASSUME TypeOK, recon # NoLink
  PROVE  recon \in Link
  BY DEF TypeOK

(* The frames of a capture are counted by a natural number.                *)
LEMMA CountType ==
  ASSUME NEW c \in Captures
  PROVE  FrameCount(c) \in Nat /\ IsFiniteSet(FramesOf(c))
<1>1. FramesOf(c) \subseteq Indexes
  BY DEF FramesOf
<1>2. IsFiniteSet(FramesOf(c))
  BY <1>1, FrameUploadAssumption, FS_Subset
<1> QED
  BY <1>2, FS_CardinalityType DEF FrameCount

(* A frame in a slot that had none is one more of its capture, and none of *)
(* the others.                                                             *)
LEMMA CountGrows ==
  ASSUME TypeOK, NEW s \in Slots, NEW x \in Contents,
         frames[s] = NoContent, frames' = [frames EXCEPT ![s] = x]
  PROVE  /\ FrameCount(s[1])' = FrameCount(s[1]) + 1
         /\ \A c \in Captures : c # s[1] => FrameCount(c)' = FrameCount(c)
         /\ \A c \in Captures : FrameCount(c) <= FrameCount(c)'
<1> x # NoContent
  BY FrameUploadAssumption
<1>1. FramesOf(s[1])' = FramesOf(s[1]) \cup {s[2]}
  BY SlotParts DEF FramesOf, TypeOK, Slots
<1>2. s[2] \notin FramesOf(s[1])
  BY SlotParts DEF FramesOf
<1>3. FrameCount(s[1])' = FrameCount(s[1]) + 1
  BY <1>1, <1>2, CountType, SlotParts, FS_AddElement DEF FrameCount
<1>4. ASSUME NEW c \in Captures, c # s[1]
      PROVE  FrameCount(c)' = FrameCount(c)
  <2>1. \A i \in Indexes : <<c, i>> \in Slots /\ <<c, i>> # s
    BY <1>4 DEF Slots
  <2>2. \A i \in Indexes : frames'[<<c, i>>] = frames[<<c, i>>]
    BY <2>1 DEF TypeOK
  <2>3. FramesOf(c)' = FramesOf(c)
    BY <2>2 DEF FramesOf
  <2> QED
    BY <2>3 DEF FrameCount
<1>5. ASSUME NEW c \in Captures
      PROVE  FrameCount(c) <= FrameCount(c)'
  BY <1>3, <1>4, CountType
<1> QED
  BY <1>3, <1>4, <1>5

(* A step that leaves the frames leaves the counts.                        *)
LEMMA CountStays ==
  ASSUME UNCHANGED frames, NEW c
  PROVE  FrameCount(c)' = FrameCount(c)
  BY DEF FrameCount, FramesOf

-------------------------------------------------------------------------------

LEMMA InitInv == Init => Inv
<1> SUFFICES ASSUME Init PROVE Inv
  OBVIOUS
<1>1. \A c \in Captures : FrameCount(c) \in Nat
  BY CountType
<1>2. TypeOK
  BY DEF Init, TypeOK, Slots, MaybeContent
<1>3. OneHolder /\ HolderIsBacked /\ LinkIsBacked
  BY DEF Init, OneHolder, HolderIsBacked, LinkIsBacked, Holds, NoUpload
<1>4. FrameHasOriginal /\ ConfirmedIsRecorded /\ ConfirmedIsKept
  BY DEF Init, FrameHasOriginal, ConfirmedIsRecorded, ConfirmedIsKept
<1>5. NeverOvercounted
  BY <1>1 DEF Init, NeverOvercounted
<1> QED
  BY <1>2, <1>3, <1>4, <1>5 DEF Inv

(* A step that ends or starts an upload which holds no lock, and changes   *)
(* neither frames nor objects, and no capture.                             *)
LEMMA InvEasy ==
  ASSUME Inv, NEW r \in Requests, NEW u \in Upload \cup {NoUpload},
         u.pc \notin {"stored", "answered"},
         request' = [request EXCEPT ![r] = u],
         UNCHANGED <<status, capture, received, frames, recon>>,
         \A s \in Slots : objects[s] # NoContent => objects'[s] = objects[s],
         objects' \in [Slots -> MaybeContent],
         orphans' \subseteq Slots \X Contents,
         confirmed' \subseteq Slots \X Contents,
         undone' \subseteq Slots, undone \subseteq undone',
         \A p \in confirmed' : p \in confirmed \/ frames[p[1]] = p[2],
         Holds(r) /\ request[r].pc = "answered" => request[r].slot \in undone'
  PROVE  Inv'
<1> USE DEF Inv
<1> \A c \in Contents : c # NoContent
  BY FrameUploadAssumption
<1>1. TypeOK'
  BY DEF TypeOK
<1>2. \A q \in Requests : Holds(q)' => Holds(q) /\ request'[q] = request[q]
  BY DEF Holds, TypeOK
<1>3. OneHolder'
  BY <1>2 DEF OneHolder
<1>4. HolderIsBacked'
  BY <1>2, InProgress DEF HolderIsBacked, Upload, Holds
<1>5. LinkIsBacked'
  BY CountStays, LinkInProgress DEF LinkIsBacked, Link
<1>6. FrameHasOriginal'
  BY DEF FrameHasOriginal
<1>7. ConfirmedIsRecorded'
  <2> SUFFICES ASSUME NEW p \in confirmed'
               PROVE  \/ frames'[p[1]] = p[2]
                      \/ p[1] \in undone'
                      \/ \E q \in Requests : request'[q].pc = "answered"
                           /\ request'[q].slot = p[1] /\ request'[q].sha = p[2]
    BY DEF ConfirmedIsRecorded
  <2>1. CASE p \notin confirmed
    BY <2>1
  <2>2. CASE p \in confirmed
    <3>1. CASE frames[p[1]] = p[2] \/ p[1] \in undone
      BY <3>1
    <3>2. ASSUME NEW q \in Requests, request[q].pc = "answered",
                 request[q].slot = p[1], request[q].sha = p[2]
          PROVE  \/ p[1] \in undone'
                 \/ request'[q] = request[q]
      BY <3>2 DEF Holds, TypeOK
    <3> QED
      BY <2>2, <3>1, <3>2 DEF ConfirmedIsRecorded
  <2> QED
    BY <2>1, <2>2
<1>8. ConfirmedIsKept'
  <2> SUFFICES ASSUME NEW p \in confirmed' PROVE objects'[p[1]] = p[2]
    BY DEF ConfirmedIsKept
  <2>1. p[1] \in Slots /\ p[2] \in Contents
    OBVIOUS
  <2>2. objects[p[1]] = p[2]
    BY <2>1 DEF ConfirmedIsKept, FrameHasOriginal
  <2> QED
    BY <2>1, <2>2
<1>9. NeverOvercounted'
  BY CountStays DEF NeverOvercounted
<1> QED
  BY <1>1, <1>3, <1>4, <1>5, <1>6, <1>7, <1>8, <1>9

-------------------------------------------------------------------------------

LEMMA LoadInv ==
  ASSUME Inv, NEW r \in Requests, NEW s \in Slots, NEW c \in Contents, Load(r, s, c)
  PROVE  Inv'
<1> DEFINE u == [pc |-> "loaded", slot |-> s, sha |-> c, open |-> (status = "CAPTURING")]
<1>1. u \in Upload \cup {NoUpload} /\ u.pc \notin {"stored", "answered"}
  BY DEF Upload
<1>2. ~Holds(r)
  BY DEF Load, Holds, NoUpload
<1>3. request' = [request EXCEPT ![r] = u]
  BY DEF Load
<1> HIDE DEF u
<1> QED
  BY <1>1, <1>2, <1>3, InvEasy DEF Load, Inv, TypeOK

LEMMA DuplicateInv ==
  ASSUME Inv, NEW r \in Requests, Duplicate(r)
  PROVE  Inv'
<1>1. request[r] \in Upload
  BY InProgress DEF Duplicate, Inv
<1>2. ~Holds(r)
  BY DEF Duplicate, Holds
<1>3. NoUpload.pc \notin {"stored", "answered"}
  BY DEF NoUpload
<1>4. \A p \in confirmed' : p \in confirmed \/ frames[p[1]] = p[2]
  BY DEF Duplicate, IsDuplicate
<1>5. confirmed' \subseteq Slots \X Contents
  BY <1>1 DEF Duplicate, Upload, Inv, TypeOK
<1> QED
  BY <1>2, <1>3, <1>4, <1>5, InvEasy DEF Duplicate, Inv, TypeOK

LEMMA RefuseInv ==
  ASSUME Inv, NEW r \in Requests, Refuse(r)
  PROVE  Inv'
<1>1. request[r] \in Upload
  BY InProgress DEF Refuse, Inv
<1>2. ~Holds(r)
  BY DEF Refuse, Holds
<1>3. NoUpload.pc \notin {"stored", "answered"}
  BY DEF NoUpload
<1>4. /\ objects' \in [Slots -> MaybeContent]
      /\ \A s \in Slots : objects[s] # NoContent => objects'[s] = objects[s]
  BY <1>1 DEF Refuse, Upload, Inv, TypeOK, MaybeContent
<1> QED
  BY <1>2, <1>3, <1>4, InvEasy DEF Refuse, Inv, TypeOK

LEMMA AbortInv ==
  ASSUME Inv, NEW r \in Requests, Abort(r)
  PROVE  Inv'
<1>1. request[r] \in Upload
  BY InProgress DEF Abort, Inv
<1>2. NoUpload.pc \notin {"stored", "answered"}
  BY DEF NoUpload
<1>3. orphans' \subseteq Slots \X Contents
  BY <1>1 DEF Abort, Upload, Inv, TypeOK
<1>4. request[r].pc # "answered"
  BY DEF Abort
<1> QED
  BY <1>2, <1>3, <1>4, InvEasy DEF Abort, Inv, TypeOK

LEMMA CommitFailsInv ==
  ASSUME Inv, NEW r \in Requests, CommitFails(r)
  PROVE  Inv'
<1>1. request[r] \in Upload
  BY InProgress DEF CommitFails, Inv
<1>2. NoUpload.pc \notin {"stored", "answered"}
  BY DEF NoUpload
<1>3. undone' \subseteq Slots /\ undone \subseteq undone' /\ request[r].slot \in undone'
  BY <1>1 DEF CommitFails, Upload, Inv, TypeOK
<1> QED
  BY <1>2, <1>3, InvEasy DEF CommitFails, Inv, TypeOK

(* The original of the upload that takes the lock is in storage now, and   *)
(* no original has changed.                                                *)
LEMMA StoreInv ==
  ASSUME Inv, NEW r \in Requests, Store(r)
  PROVE  Inv'
<1> USE DEF Inv
<1> DEFINE s == request[r].slot
           x == request[r].sha
<1>1. request[r] \in Upload /\ s \in Slots /\ x \in Contents /\ x # NoContent
  BY InProgress, FrameUploadAssumption DEF Store, Upload
<1>2. /\ objects' \in [Slots -> MaybeContent]
      /\ objects'[s] = x
      /\ \A t \in Slots : objects[t] # NoContent => objects'[t] = objects[t]
  BY <1>1 DEF Store, MayStore, TypeOK, MaybeContent
<1>3. /\ request' \in [Requests -> Upload \cup {NoUpload}]
      /\ request'[r] = [request[r] EXCEPT !.pc = "stored"]
      /\ \A q \in Requests : q # r => request'[q] = request[q] /\ ~Holds(q)' /\ ~Holds(q)
      /\ ~Holds(r)
  BY <1>1 DEF Store, TypeOK, Upload, Free, Holds
<1>4. request'[r].slot = s /\ request'[r].sha = x
  BY <1>1, <1>3 DEF Upload
<1>5. TypeOK'
  BY <1>2, <1>3 DEF Store, TypeOK
<1>6. OneHolder'
  BY <1>3 DEF OneHolder
<1>7. HolderIsBacked'
  BY <1>2, <1>3, <1>4 DEF HolderIsBacked, Store, MayStore
<1>8. LinkIsBacked'
  <2> SUFFICES ASSUME recon # NoLink
               PROVE  objects'[recon.slot] = recon.sha /\ capture[recon.slot[1]] # "none"
                      /\ recon.count <= FrameCount(recon.slot[1])
    BY CountStays DEF LinkIsBacked, Store
  <2>1. recon.slot \in Slots /\ recon.sha # NoContent
    BY LinkInProgress, FrameUploadAssumption DEF Link
  <2> QED
    BY <1>2, <2>1 DEF LinkIsBacked
<1>9. FrameHasOriginal'
  BY <1>2 DEF FrameHasOriginal, Store
<1>10. ConfirmedIsRecorded'
  BY <1>3 DEF ConfirmedIsRecorded, Store, Holds
<1>11. ConfirmedIsKept'
  <2> SUFFICES ASSUME NEW p \in confirmed PROVE objects'[p[1]] = p[2]
    BY DEF ConfirmedIsKept, Store
  <2>1. p[1] \in Slots /\ p[2] # NoContent /\ objects[p[1]] = p[2]
    BY FrameUploadAssumption DEF TypeOK, ConfirmedIsKept
  <2> QED
    BY <1>2, <2>1
<1>12. NeverOvercounted'
  BY CountStays DEF NeverOvercounted, Store
<1> QED
  BY <1>5, <1>6, <1>7, <1>8, <1>9, <1>10, <1>11, <1>12

LEMMA AnswerInv ==
  ASSUME Inv, NEW r \in Requests, Answer(r)
  PROVE  Inv'
<1> USE DEF Inv
<1> DEFINE s == request[r].slot
           x == request[r].sha
<1>1. request[r] \in Upload /\ s \in Slots /\ x \in Contents /\ Holds(r)
  BY InProgress DEF Answer, Upload, Holds
<1>2. /\ request' \in [Requests -> Upload \cup {NoUpload}]
      /\ request'[r] = [request[r] EXCEPT !.pc = "answered"]
      /\ \A q \in Requests : q # r => request'[q] = request[q]
  BY <1>1 DEF Answer, TypeOK, Upload
<1>3. request'[r].pc = "answered" /\ request'[r].slot = s /\ request'[r].sha = x
  BY <1>1, <1>2 DEF Upload
<1>4. ASSUME NEW q \in Requests
      PROVE  /\ Holds(q)' <=> Holds(q)
             /\ request'[q].slot = request[q].slot
             /\ request'[q].sha = request[q].sha
             /\ request[q].pc = "answered" => request'[q].pc = "answered"
  <2>1. CASE q = r
    BY <1>1, <1>3, <2>1 DEF Holds
  <2>2. CASE q # r
    BY <1>2, <2>2 DEF Holds
  <2> QED
    BY <2>1, <2>2
<1>5. TypeOK'
  BY <1>1, <1>2 DEF Answer, TypeOK
<1>6. OneHolder' /\ HolderIsBacked'
  BY <1>4 DEF OneHolder, HolderIsBacked, Answer
<1>7. LinkIsBacked'
  BY CountStays DEF LinkIsBacked, Answer
<1>8. FrameHasOriginal'
  BY DEF FrameHasOriginal, Answer
<1>9. ConfirmedIsRecorded'
  <2> SUFFICES ASSUME NEW p \in confirmed'
               PROVE  \/ frames[p[1]] = p[2]
                      \/ p[1] \in undone
                      \/ \E q \in Requests : request'[q].pc = "answered"
                           /\ request'[q].slot = p[1] /\ request'[q].sha = p[2]
    BY DEF ConfirmedIsRecorded, Answer
  <2>1. CASE p \in confirmed
    BY <2>1, <1>4 DEF ConfirmedIsRecorded
  <2>2. CASE p = <<s, x>>
    BY <2>2, <1>3
  <2> QED
    BY <2>1, <2>2 DEF Answer
<1>10. ConfirmedIsKept'
  <2>1. objects[s] = x
    BY <1>1 DEF HolderIsBacked
  <2> QED
    BY <2>1 DEF ConfirmedIsKept, Answer
<1>11. NeverOvercounted'
  BY CountStays DEF NeverOvercounted, Answer
<1> QED
  BY <1>5, <1>6, <1>7, <1>8, <1>9, <1>10, <1>11

(* The frame of the only upload with the lock is new: the counter and the  *)
(* number of frames of its capture grow together.                          *)
LEMMA CommitInv ==
  ASSUME Inv, NEW r \in Requests, Commit(r)
  PROVE  Inv'
<1> USE DEF Inv
<1>0. request[r].slot \in Slots /\ request[r].sha \in Contents
  BY InProgress DEF Commit, Upload
<1> PICK s \in Slots, x \in Contents : s = request[r].slot /\ x = request[r].sha
  BY <1>0
<1>1. x # NoContent /\ Holds(r) /\ s[1] \in Captures
  BY SlotParts, FrameUploadAssumption DEF Commit, Holds
<1>2. frames[s] = NoContent /\ objects[s] = x
  BY <1>1 DEF HolderIsBacked
<1>3. /\ frames' = [frames EXCEPT ![s] = x]
      /\ received' = [received EXCEPT ![s[1]] = @ + 1]
      /\ capture' = [capture EXCEPT ![s[1]] = IF @ = "none" THEN "open" ELSE @]
      /\ request' = [request EXCEPT ![r] = NoUpload]
  BY DEF Commit
<1>4. \A q \in Requests : /\ ~Holds(q)'
                          /\ q # r => request'[q] = request[q]
                          /\ request'[r] = NoUpload
  BY <1>1, <1>3 DEF Holds, OneHolder, NoUpload, TypeOK
<1>5. /\ FrameCount(s[1])' = FrameCount(s[1]) + 1
      /\ \A c \in Captures : c # s[1] => FrameCount(c)' = FrameCount(c)
      /\ \A c \in Captures : FrameCount(c) <= FrameCount(c)'
  BY <1>1, <1>2, <1>3, CountGrows
<1>6. TypeOK'
  BY <1>1, <1>3 DEF Commit, TypeOK, MaybeContent
<1>7. OneHolder' /\ HolderIsBacked'
  BY <1>4 DEF OneHolder, HolderIsBacked
<1>8. \A c \in Captures : capture[c] # "none" => capture'[c] # "none"
  BY <1>1, <1>3 DEF TypeOK
<1>9. LinkIsBacked'
  <2> SUFFICES ASSUME recon # NoLink
               PROVE  /\ objects[recon.slot] = recon.sha
                      /\ capture'[recon.slot[1]] # "none"
                      /\ recon.count <= FrameCount(recon.slot[1])'
    BY DEF LinkIsBacked, Commit
  <2>1. recon.slot[1] \in Captures /\ recon.count \in Nat
    BY LinkInProgress, SlotParts DEF Link
  <2> PICK d \in Captures : d = recon.slot[1]
    BY <2>1
  <2>2. /\ recon.count <= FrameCount(d) /\ capture[d] # "none"
        /\ objects[recon.slot] = recon.sha
    BY DEF LinkIsBacked
  <2>3. recon.slot'[1] = d
    BY DEF Commit
  <2>4. FrameCount(d) \in Nat /\ FrameCount(d) <= FrameCount(d)'
    BY <1>5, CountType
  <2>5. FrameCount(d)' \in Nat
    BY <1>5, CountType
  <2>6. recon.count <= FrameCount(d)'
    BY <2>1, <2>2, <2>4, <2>5
  <2> QED
    BY <1>8, <2>2, <2>3, <2>6
<1>10. FrameHasOriginal'
  <2> SUFFICES ASSUME NEW t \in Slots, frames'[t] # NoContent
               PROVE  objects[t] = frames'[t] /\ capture'[t[1]] # "none"
    BY DEF FrameHasOriginal, Commit
  <2>1. CASE t = s
    BY <1>1, <1>2, <1>3, <2>1 DEF TypeOK
  <2>2. CASE t # s
    BY <1>3, <1>8, <2>2, SlotParts DEF FrameHasOriginal, TypeOK
  <2> QED
    BY <2>1, <2>2
<1>11. ConfirmedIsRecorded'
  <2> SUFFICES ASSUME NEW p \in confirmed
               PROVE  \/ frames'[p[1]] = p[2]
                      \/ p[1] \in undone
                      \/ \E q \in Requests : request'[q].pc = "answered"
                           /\ request'[q].slot = p[1] /\ request'[q].sha = p[2]
    BY DEF ConfirmedIsRecorded, Commit
  <2>1. p[1] \in Slots /\ p[2] \in Contents
    BY DEF TypeOK
  <2>2. CASE frames[p[1]] = p[2]
    BY <1>2, <1>3, <2>1, <2>2, FrameUploadAssumption
  <2>3. ASSUME NEW q \in Requests, request[q].pc = "answered",
               request[q].slot = p[1], request[q].sha = p[2]
        PROVE  frames'[p[1]] = p[2]
    <3>1. q = r
      BY <1>1, <2>3 DEF OneHolder, Holds
    <3> QED
      BY <1>1, <1>3, <2>3, <3>1 DEF TypeOK
  <2> QED
    BY <2>2, <2>3 DEF ConfirmedIsRecorded
<1>12. ConfirmedIsKept'
  BY DEF ConfirmedIsKept, Commit
<1>13. NeverOvercounted'
  <2> SUFFICES ASSUME NEW c \in Captures PROVE received'[c] <= FrameCount(c)'
    BY DEF NeverOvercounted
  <2>1. received[c] \in Nat /\ FrameCount(c) \in Nat /\ received[c] <= FrameCount(c)
    BY CountType DEF NeverOvercounted, TypeOK
  <2>2. CASE c = s[1]
    BY <1>1, <1>3, <1>5, <2>1, <2>2 DEF TypeOK
  <2>3. CASE c # s[1]
    BY <1>3, <1>5, <2>1, <2>3 DEF TypeOK
  <2> QED
    BY <2>2, <2>3
<1> QED
  BY <1>6, <1>7, <1>9, <1>10, <1>11, <1>12, <1>13

LEMMA CaptureCompleteInv ==
  ASSUME Inv, NEW c \in Captures, CaptureComplete(c)
  PROVE  Inv'
<1> USE DEF Inv
<1>1. FrameCount(c) \in Nat
  BY CountType
<1>2. TypeOK'
  BY <1>1 DEF CaptureComplete, ConfirmedCount, TypeOK
<1>3. OneHolder' /\ HolderIsBacked'
  BY DEF OneHolder, HolderIsBacked, Holds, CaptureComplete
<1>4. \A d : capture[d] # "none" => capture'[d] # "none" \/ d \notin Captures
  BY DEF CaptureComplete, TypeOK
<1>5. LinkIsBacked'
  BY <1>4, CountStays, LinkInProgress, SlotParts DEF LinkIsBacked, CaptureComplete, Link
<1>6. FrameHasOriginal'
  BY <1>4, SlotParts DEF FrameHasOriginal, CaptureComplete
<1>7. ConfirmedIsRecorded' /\ ConfirmedIsKept'
  BY DEF ConfirmedIsRecorded, ConfirmedIsKept, CaptureComplete
<1>8. NeverOvercounted'
  <2> SUFFICES ASSUME NEW d \in Captures PROVE received'[d] <= FrameCount(d)'
    BY DEF NeverOvercounted
  <2>1. FrameCount(d)' = FrameCount(d) /\ FrameCount(d) \in Nat
    BY CountStays, CountType DEF CaptureComplete
  <2> QED
    BY <1>1, <2>1 DEF CaptureComplete, ConfirmedCount, TypeOK, NeverOvercounted
<1> QED
  BY <1>2, <1>3, <1>5, <1>6, <1>7, <1>8

LEMMA EndSignalInv ==
  ASSUME Inv, EndSignal
  PROVE  Inv'
<1> USE DEF Inv, EndSignal
<1>1. TypeOK'
  BY DEF TypeOK, EndState
<1>2. OneHolder' /\ HolderIsBacked' /\ ConfirmedIsRecorded' /\ ConfirmedIsKept'
  BY DEF OneHolder, HolderIsBacked, ConfirmedIsRecorded, ConfirmedIsKept, Holds
<1>3. LinkIsBacked' /\ FrameHasOriginal' /\ NeverOvercounted'
  BY CountStays DEF LinkIsBacked, FrameHasOriginal, NeverOvercounted
<1> QED
  BY <1>1, <1>2, <1>3

-------------------------------------------------------------------------------

LEMMA ResolveInv ==
  ASSUME Inv, NEW s \in Slots, NEW c \in Contents, Resolve(s, c)
  PROVE  Inv'
<1> USE DEF Inv, Resolve
<1>1. TypeOK'
  BY DEF TypeOK
<1>2. OneHolder' /\ HolderIsBacked' /\ ConfirmedIsRecorded' /\ ConfirmedIsKept'
  BY DEF OneHolder, HolderIsBacked, ConfirmedIsRecorded, ConfirmedIsKept, Holds
<1>3. LinkIsBacked' /\ FrameHasOriginal' /\ NeverOvercounted'
  BY CountStays DEF LinkIsBacked, FrameHasOriginal, NeverOvercounted
<1> QED
  BY <1>1, <1>2, <1>3

LEMMA ReadOrphanInv ==
  ASSUME Inv, NEW s \in Slots, NEW c \in Contents, ReadOrphan(s, c)
  PROVE  Inv'
<1> USE DEF Inv, ReadOrphan
<1>1. s[1] \in Captures
  BY SlotParts
<1>2. received[s[1]] \in Nat /\ received[s[1]] <= FrameCount(s[1])
  BY <1>1 DEF TypeOK, NeverOvercounted
<1>3. TypeOK'
  BY <1>2 DEF TypeOK, Link
<1>4. OneHolder' /\ HolderIsBacked' /\ ConfirmedIsRecorded' /\ ConfirmedIsKept'
  BY DEF OneHolder, HolderIsBacked, ConfirmedIsRecorded, ConfirmedIsKept, Holds
<1>5. LinkIsBacked'
  BY <1>2, CountStays DEF LinkIsBacked, Linkable
<1>6. FrameHasOriginal' /\ NeverOvercounted'
  BY CountStays DEF FrameHasOriginal, NeverOvercounted
<1> QED
  BY <1>3, <1>4, <1>5, <1>6

LEMMA LinkFailsInv ==
  ASSUME Inv, LinkFails
  PROVE  Inv'
<1> USE DEF Inv, LinkFails
<1>1. TypeOK'
  BY DEF TypeOK
<1>2. OneHolder' /\ HolderIsBacked' /\ ConfirmedIsRecorded' /\ ConfirmedIsKept'
  BY DEF OneHolder, HolderIsBacked, ConfirmedIsRecorded, ConfirmedIsKept, Holds
<1>3. LinkIsBacked' /\ FrameHasOriginal' /\ NeverOvercounted'
  BY CountStays DEF LinkIsBacked, FrameHasOriginal, NeverOvercounted
<1> QED
  BY <1>1, <1>2, <1>3

(* The orphan is linked while no upload holds the lock: the frame it adds  *)
(* is backed, and the count it writes was one below the frames there are.  *)
LEMMA LinkOrphanInv ==
  ASSUME Inv, LinkOrphan
  PROVE  Inv'
<1> USE DEF Inv
<1>0. recon.slot \in Slots /\ recon.sha \in Contents /\ recon.count \in Nat
  BY LinkInProgress DEF LinkOrphan, Link
<1> PICK s \in Slots, x \in Contents, n \in Nat :
      s = recon.slot /\ x = recon.sha /\ n = recon.count
  BY <1>0
<1>1. x # NoContent /\ s[1] \in Captures
  BY SlotParts, FrameUploadAssumption
<1>2. /\ frames[s] = NoContent /\ objects[s] = x /\ capture[s[1]] # "none"
      /\ n <= FrameCount(s[1])
  BY DEF LinkOrphan, LinkIsBacked
<1>3. /\ frames' = [frames EXCEPT ![s] = x]
      /\ received' = [received EXCEPT ![s[1]] = n + 1]
  BY DEF LinkOrphan
<1>4. \A q \in Requests : ~Holds(q) /\ ~Holds(q)'
  BY DEF LinkOrphan, Free, Holds
<1>5. /\ FrameCount(s[1])' = FrameCount(s[1]) + 1
      /\ \A c \in Captures : c # s[1] => FrameCount(c)' = FrameCount(c)
  BY <1>1, <1>2, <1>3, CountGrows
<1>6. TypeOK'
  BY <1>1, <1>3 DEF LinkOrphan, TypeOK, MaybeContent
<1>7. OneHolder' /\ HolderIsBacked'
  BY <1>4 DEF OneHolder, HolderIsBacked
<1>8. LinkIsBacked'
  BY DEF LinkIsBacked, LinkOrphan
<1>9. FrameHasOriginal'
  BY <1>1, <1>2, <1>3 DEF FrameHasOriginal, LinkOrphan, TypeOK
<1>10. ConfirmedIsRecorded'
  <2> SUFFICES ASSUME NEW p \in confirmed
               PROVE  frames'[p[1]] = p[2] \/ p[1] \in undone
    BY DEF ConfirmedIsRecorded, LinkOrphan
  <2>1. p[1] \in Slots /\ p[2] # NoContent
    BY FrameUploadAssumption DEF TypeOK
  <2>2. frames[p[1]] = p[2] \/ p[1] \in undone
    BY <1>4 DEF ConfirmedIsRecorded, Holds
  <2> QED
    BY <1>2, <1>3, <2>1, <2>2
<1>11. ConfirmedIsKept'
  BY DEF ConfirmedIsKept, LinkOrphan
<1>12. NeverOvercounted'
  <2> SUFFICES ASSUME NEW c \in Captures PROVE received'[c] <= FrameCount(c)'
    BY DEF NeverOvercounted
  <2>1. received[c] \in Nat /\ FrameCount(c) \in Nat /\ received[c] <= FrameCount(c)
    BY CountType DEF NeverOvercounted, TypeOK
  <2>2. CASE c = s[1]
    BY <1>1, <1>2, <1>3, <1>5, <2>1, <2>2 DEF TypeOK
  <2>3. CASE c # s[1]
    BY <1>3, <1>5, <2>1, <2>3 DEF TypeOK
  <2> QED
    BY <2>2, <2>3
<1> QED
  BY <1>6, <1>7, <1>8, <1>9, <1>10, <1>11, <1>12

-------------------------------------------------------------------------------

LEMMA NextInv == Inv /\ [Next]_vars => Inv'
<1> SUFFICES ASSUME Inv, [Next]_vars PROVE Inv'
  OBVIOUS
<1>1. ASSUME NEW r \in Requests, UploadStep(r) PROVE Inv'
  BY <1>1, LoadInv, DuplicateInv, StoreInv, RefuseInv, AbortInv, AnswerInv, CommitInv,
     CommitFailsInv DEF UploadStep
<1>2. CASE ReconcileStep
  BY <1>2, ResolveInv, ReadOrphanInv, LinkOrphanInv, LinkFailsInv DEF ReconcileStep
<1>3. CASE UNCHANGED vars
  BY <1>3 DEF vars, Inv, TypeOK, OneHolder, HolderIsBacked, LinkIsBacked, Holds,
     FrameHasOriginal, ConfirmedIsRecorded, ConfirmedIsKept, NeverOvercounted, FrameCount,
     FramesOf
<1> QED
  BY <1>1, <1>2, <1>3, CaptureCompleteInv, EndSignalInv DEF Next

LEMMA InvHolds == Spec => []Inv
  BY InitInv, NextInv, PTL DEF Spec

(* Every variable stays of its type: the counter and the value the         *)
(* reconciliation read are natural numbers.                                *)
THEOREM TypeCorrect == Spec => []TypeOK
  BY InvHolds, PTL DEF Inv

(* A frame of the database has its original, byte for byte, and a capture. *)
THEOREM FramesAreBacked == Spec => []FrameHasOriginal
  BY InvHolds, PTL DEF Inv

(* Only a commit that fails after the answer loses a confirmed upload.     *)
THEOREM ConfirmedUploads == Spec => []ConfirmedIsRecorded
  BY InvHolds, PTL DEF Inv

(* The lost updates of received_frames only ever lose.                     *)
THEOREM Counter == Spec => []NeverOvercounted
  BY InvHolds, PTL DEF Inv

(* The cloud implements the ledger: originals are kept once and for all,   *)
(* and every 2xx is about the content that is kept.                        *)
THEOREM LedgerImplemented == Spec => KeepsLedger
<1>1. Init => Ledger!LedgerInit
  BY DEF Init, Ledger!LedgerInit
<1>2. Inv /\ [Next]_vars => [Ledger!LedgerNext]_(Ledger!ledgerVars)
  <2> SUFFICES ASSUME Inv, [Next]_vars
               PROVE  Ledger!LedgerNext \/ UNCHANGED <<objects, confirmed>>
    BY DEF Ledger!ledgerVars
  <2> USE DEF Ledger!LedgerNext, Ledger!Keep, Ledger!Confirm
  <2>1. ASSUME NEW r \in Requests, Duplicate(r) \/ Answer(r)
        PROVE  Ledger!LedgerNext
    <3>1. request[r] \in Upload
      BY <2>1, InProgress DEF Inv, Duplicate, Answer
    <3>2. objects[request[r].slot] = request[r].sha
      BY <2>1, <3>1, FrameUploadAssumption
      DEF Inv, Duplicate, IsDuplicate, FrameHasOriginal, Answer, HolderIsBacked, Holds, Upload
    <3> QED
      BY <2>1, <3>1, <3>2 DEF Duplicate, Answer, Upload
  <2>2. ASSUME NEW r \in Requests, Store(r) \/ Refuse(r)
        PROVE  Ledger!LedgerNext \/ UNCHANGED <<objects, confirmed>>
    <3>1. request[r] \in Upload
      BY <2>2, InProgress DEF Inv, Store, Refuse
    <3>2. \/ UNCHANGED objects
          \/ /\ objects[request[r].slot] = NoContent
             /\ objects' = [objects EXCEPT ![request[r].slot] = request[r].sha]
      BY <2>2, <3>1 DEF Store, Refuse, Inv, TypeOK, Upload
    <3> QED
      BY <2>2, <3>1, <3>2 DEF Store, Refuse, Upload
  <2> QED
    BY <2>1, <2>2 DEF Next, UploadStep, ReconcileStep, Load, Abort, Commit, CommitFails,
       CaptureComplete, EndSignal, Resolve, ReadOrphan, LinkOrphan, LinkFails, vars
<1> QED
  BY <1>1, <1>2, InvHolds, PTL DEF Spec, KeepsLedger, Ledger!LedgerSpec

================================================================================
