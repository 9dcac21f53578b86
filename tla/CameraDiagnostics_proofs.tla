------------------------ MODULE CameraDiagnostics_proofs ------------------------
(***************************************************************************)
(* Proofs about CameraDiagnostics for any diagnostics, phones, frames and  *)
(* quotas.                                                                 *)
(*                                                                         *)
(* OneCamera is kept because no step makes a diagnostic accept frames but  *)
(* its creation, which finds every other one over or stale: a stop and an  *)
(* expiry that write over what they read before may reopen a row, but only *)
(* as STOPPING.  FrameIsKept is not inductive: a frame on its way to the   *)
(* cloud must still be the one its phone has a row of when the 2xx comes   *)
(* back (OnItsWay), since the phone then deletes that index's file.        *)
(***************************************************************************)
EXTENDS CameraDiagnostics, TLAPS

(* The diagnostics have their types, and no more than bytes_limit.         *)
DiagOK(D) ==
  /\ D \in [Diags -> Diagnostic]
  /\ \A d \in Diags : D[d].received <= D[d].plan.bytes_limit

(* Nothing accepts frames that did not before.                             *)
NoNewCamera(D) == \A d \in Diags : D[d].status \in {"REQUESTED", "ACTIVE"} => Accepting(d)

(* A request in flight names what it is about.                             *)
WellFormed(q) ==
  /\ q.op \notin {"none", "pending"} => q.d \in Diags
  /\ q.op \in {"frame", "preview", "relay"} => q.f \in FrameRow
  /\ q.op = "frame" => ~q.f.transient

(* The phone has a row of every frame it sends, with its SHA-256.          *)
OnItsWay(g, q) ==
  q.op = "frame" =>
    /\ spool[<<g, q.d, q.f.idx>>].row # "none"
    /\ spool[<<g, q.d, q.f.idx>>].sha = q.f.sha

CallInv ==
  /\ \A c \in Callers : WellFormed(call[c])
  /\ \A g \in Gateways : OnItsWay(g, call[Upload(g)])

(* A job that runs has a diagnostic, a row that waits has a SHA-256.       *)
PhoneInv ==
  /\ \A g \in Gateways : phone[g].active => phone[g].job \in Diags
  /\ \A g \in Gateways, d \in Diags, i \in Indexes :
       spool[<<g, d, i>>].row = "pending" => spool[<<g, d, i>>].sha \in Contents

(* An index has one row, and, unless they were cleaned up, a durable row   *)
(* has its object.                                                         *)
RowsInv ==
  /\ \A d \in Diags : \A f, h \in rows[d] : f.idx = h.idx => f = h
  /\ \A d \in Diags \ purged : \A f \in rows[d] : ~f.transient => store[d][f.idx] = f.sha

(* What a phone has had acknowledged is there: its row, or, if the commit  *)
(* failed behind the answer, its object.                                   *)
InCloud(g, d, i) ==
  LET sha == spool[<<g, d, i>>].sha IN
    \/ \E f \in rows[d] : f.idx = i /\ f.sha = sha
    \/ <<g, d, i>> \in undone /\ sha \in Contents /\ store[d][i] = sha

AckedInv ==
  \A g \in Gateways, d \in Diags \ purged, i \in Indexes :
    spool[<<g, d, i>>].row = "acked" => InCloud(g, d, i)

Inv == TypeOK /\ OneCamera /\ CallInv /\ PhoneInv /\ RowsInv /\ AckedInv

-------------------------------------------------------------------------------

LEMMA CallerFacts ==
  /\ Poll \in Callers /\ Admin \in Callers
  /\ \A g \in Gateways : Control(g) \in Callers /\ Upload(g) \in Callers
  /\ \A g, h : Upload(g) # Control(h) /\ Upload(g) # Poll /\ Upload(g) # Admin
  /\ \A g, h : Upload(g) = Upload(h) => g = h
  BY DEF Poll, Admin, Control, Upload, Callers

LEMMA IdleFacts ==
  /\ Idle \in Request /\ WellFormed(Idle) /\ \A g : OnItsWay(g, Idle)
  /\ NoJob \in [job : Diags \cup {None}, active : BOOLEAN] /\ ~NoJob.active
<1>1. Idle \in Request
  BY DEF Idle, Request, Ops
<1>2. Idle.op = "none"
  BY DEF Idle
<1> QED
  BY <1>1, <1>2 DEF WellFormed, OnItsWay, NoJob

LEMMA LoadedFacts ==
  ASSUME TypeOK, NEW op \in Ops, NEW d \in Diags
  PROVE  /\ Loaded(op, d) \in Request /\ Loaded(op, d).op = op /\ Loaded(op, d).d = d
         /\ Exists(d) => /\ LoadedRow(op, d) \in Request
                         /\ LoadedRow(op, d).op = op /\ LoadedRow(op, d).d = d
<1>1. diag[d].owner \in Gateways \cup {None} /\ diag[d].received \in Nat
  BY DEF TypeOK, Diagnostic
<1>2. Idle \in Request
  BY IdleFacts
<1>3. Loaded(op, d) \in Request /\ Loaded(op, d).op = op /\ Loaded(op, d).d = d
  BY <1>1, <1>2 DEF Loaded, Request
<1>4. Exists(d) => /\ LoadedRow(op, d) \in Request
                   /\ LoadedRow(op, d).op = op /\ LoadedRow(op, d).d = d
  BY <1>1, <1>3 DEF LoadedRow, Request, Exists
<1> QED
  BY <1>3, <1>4

(* A request for a frame.                                                  *)
LEMMA WithFrame ==
  ASSUME NEW q \in Request, NEW f \in FrameRow, NEW c \in Contents
  PROVE  LET p == [q EXCEPT !.body = c, !.f = f] IN p \in Request /\ p.op = q.op /\ p.d = q.d /\ p.f = f
  BY DEF Request

(* A request that comes or goes, and the diagnostics and the job it        *)
(* changes, while the frames stay.                                         *)
LEMMA CallStep ==
  ASSUME Inv, UNCHANGED <<rows, store, purged, spool, undone>>, DiagOK(diag'), OneCamera',
         phone' \in [Gateways -> [job : Diags \cup {None}, active : BOOLEAN]],
         \A g \in Gateways : phone'[g].active => phone'[g].job \in Diags,
         NEW c \in Callers, NEW q \in Request, call' = [call EXCEPT ![c] = q], WellFormed(q),
         \A g \in Gateways : c = Upload(g) => OnItsWay(g, q)
  PROVE  Inv'
<1> USE DEF Inv
<1>1. TypeOK'
  BY DEF TypeOK, DiagOK
<1>2. \A e \in Callers : call'[e] = IF e = c THEN q ELSE call[e]
  BY DEF TypeOK
<1>3. \A e \in Callers : WellFormed(call'[e])
  BY <1>2 DEF CallInv
<1>4. ASSUME NEW g \in Gateways PROVE OnItsWay(g, call[Upload(g)])'
  <2>1. OnItsWay(g, call'[Upload(g)])
    BY <1>2, CallerFacts DEF CallInv
  <2> QED
    BY <2>1 DEF OnItsWay
<1>5. CallInv'
  BY <1>3, <1>4 DEF CallInv, WellFormed
<1>6. PhoneInv'
  BY DEF PhoneInv
<1>7. RowsInv' /\ AckedInv'
  BY DEF RowsInv, AckedInv, InCloud
<1> QED
  BY <1>1, <1>5, <1>6, <1>7

LEMMA CameraKept ==
  ASSUME OneCamera, NoNewCamera(diag')
  PROVE  OneCamera'
  BY DEF OneCamera, NoNewCamera, Accepting

LEMMA SameDiag ==
  ASSUME TypeOK
  PROVE  DiagOK(diag) /\ NoNewCamera(diag)
  BY DEF TypeOK, DiagOK, NoNewCamera, Accepting

LEMMA SameRequest ==
  ASSUME Inv, NEW c \in Callers
  PROVE  /\ call[c] \in Request /\ WellFormed(call[c])
         /\ call = [call EXCEPT ![c] = call[c]]
         /\ \A g \in Gateways : c = Upload(g) => OnItsWay(g, call[c])
  BY DEF Inv, TypeOK, CallInv

LEMMA ExpiredOK ==
  ASSUME TypeOK, NEW S
  PROVE  /\ DiagOK(Expired(diag, S)) /\ NoNewCamera(Expired(diag, S))
         /\ \A d \in Diags : Expired(diag, S)[d].plan = diag[d].plan
<1>1. \A d \in Diags : [diag[d] EXCEPT !.status = "EXPIRED"] \in Diagnostic
  <2>1. "EXPIRED" \in Statuses \cup {"none", "removed"}
    BY DEF Statuses, Terminal
  <2>2. \A x \in Diagnostic : [x EXCEPT !.status = "EXPIRED"] \in Diagnostic
    BY <2>1 DEF Diagnostic
  <2>3. \A d \in Diags : diag[d] \in Diagnostic
    BY DEF TypeOK
  <2> QED
    BY <2>2, <2>3
<1>2. \A d \in Diags : Expired(diag, S)[d] = IF d \in S THEN [diag[d] EXCEPT !.status = "EXPIRED"] ELSE diag[d]
  BY DEF Expired
<1>3. \A d \in Diags : LET E == [diag[d] EXCEPT !.status = "EXPIRED"] IN
        E.status = "EXPIRED" /\ E.plan = diag[d].plan /\ E.received = diag[d].received
  BY DEF TypeOK, Diagnostic
<1>4. Expired(diag, S) \in [Diags -> Diagnostic]
  BY <1>1 DEF Expired, TypeOK
<1> QED
  BY <1>2, <1>3, <1>4 DEF DiagOK, NoNewCamera, TypeOK, Accepting

LEMMA BindingOK ==
  ASSUME TypeOK, NEW g \in Gateways, NEW r
  PROVE  /\ DiagOK(AfterBinding(g, r)) /\ NoNewCamera(AfterBinding(g, r))
         /\ \A d \in Diags : AfterBinding(g, r)[d].plan = diag[d].plan
<1> DEFINE row(d) == [diag[d] EXCEPT !.status = IF d \in Stale THEN "EXPIRED" ELSE diag[d].status,
                                     !.owner = IF d = r.d /\ r.owner = None THEN g ELSE diag[d].owner]
<1>1. \A d \in Diags : AfterBinding(g, r)[d] = row(d)
  BY DEF AfterBinding
<1>2. ASSUME NEW d \in Diags
      PROVE  /\ row(d) \in Diagnostic
             /\ row(d).plan = diag[d].plan /\ row(d).received = diag[d].received
             /\ row(d).status \in {"EXPIRED", diag[d].status}
  <2>1. diag[d] \in Diagnostic
    BY DEF TypeOK
  <2>2. (IF d \in Stale THEN "EXPIRED" ELSE diag[d].status) \in Statuses \cup {"none", "removed"}
    BY <2>1 DEF Diagnostic, Statuses, Terminal
  <2>3. (IF d = r.d /\ r.owner = None THEN g ELSE diag[d].owner) \in Gateways \cup {None}
    BY <2>1 DEF Diagnostic
  <2> QED
    BY <2>1, <2>2, <2>3 DEF Diagnostic
<1>3. AfterBinding(g, r) = [d \in Diags |-> row(d)]
  BY DEF AfterBinding
<1> HIDE DEF row
<1>4. AfterBinding(g, r) \in [Diags -> Diagnostic]
  BY <1>2, <1>3
<1> QED
  BY <1>1, <1>2, <1>4 DEF DiagOK, NoNewCamera, TypeOK, Accepting

(* A row that is written and does not open the diagnostic.                 *)
LEMMA RowOK ==
  ASSUME NEW D, DiagOK(D), NoNewCamera(D), NEW d \in Diags, NEW row \in Diagnostic,
         row.received <= row.plan.bytes_limit, row.status \in {"REQUESTED", "ACTIVE"} => Accepting(d),
         NEW E, E = [D EXCEPT ![d] = row]
  PROVE  DiagOK(E) /\ NoNewCamera(E)
<1>1. E \in [Diags -> Diagnostic] /\ \A e \in Diags : E[e] = IF e = d THEN row ELSE D[e]
  BY DEF DiagOK
<1> QED
  BY <1>1 DEF DiagOK, NoNewCamera

LEMMA StatusOK ==
  ASSUME NEW D, DiagOK(D), NoNewCamera(D), NEW d \in Diags, NEW from, NEW to \in {"STOPPING", "COMPLETED"}
  PROVE  DiagOK(Closed(D, d, from, to)) /\ NoNewCamera(Closed(D, d, from, to))
<1> DEFINE row == [D[d] EXCEPT !.status = to]
<1>1. /\ row \in Diagnostic /\ row.status = to /\ row.plan = D[d].plan /\ row.received = D[d].received
      /\ [D EXCEPT ![d].status = to] = [D EXCEPT ![d] = row]
  BY DEF DiagOK, Diagnostic, Statuses, Unfinished, Terminal
<1> HIDE DEF row
<1>2. row.received <= row.plan.bytes_limit
  BY <1>1 DEF DiagOK
<1>3. DiagOK([D EXCEPT ![d] = row]) /\ NoNewCamera([D EXCEPT ![d] = row])
  BY <1>1, <1>2, RowOK
<1> QED
  BY <1>1, <1>3 DEF Closed

-------------------------------------------------------------------------------
(* Creation and leases.                                                    *)
LEMMA CreateInv == ASSUME Inv, NEW d \in Diags, Create(d) PROVE Inv'
<1> USE DEF Inv
<1> DEFINE D == Expired(diag, Stale)
           row == [D[d] EXCEPT !.status = "REQUESTED"]
<1>1. /\ \A e \in Diags \ Stale : ~Open(e)
      /\ diag' = [D EXCEPT ![d].status = "REQUESTED"]
      /\ UNCHANGED <<rows, store, purged, call, phone, spool, undone>>
  BY DEF Create, Exclusive, phoneVars
<1>2. DiagOK(D)
  BY ExpiredOK
<1>3. row \in Diagnostic /\ row.plan = D[d].plan /\ row.received = D[d].received
  BY <1>2 DEF DiagOK, Diagnostic, Statuses, Unfinished
<1>4. \A e \in Diags : D[e].status \in {"REQUESTED", "ACTIVE"} => FALSE
  BY <1>1 DEF Expired, TypeOK, Diagnostic, Open, Unfinished
<1> HIDE DEF D, row
<1>5. diag' = [D EXCEPT ![d] = row]
  BY <1>1, <1>2 DEF DiagOK, row
<1>6. diag' \in [Diags -> Diagnostic] /\ \A e \in Diags : diag'[e] = IF e = d THEN row ELSE D[e]
  BY <1>2, <1>3, <1>5 DEF DiagOK
<1>7. DiagOK(diag')
  BY <1>2, <1>3, <1>6 DEF DiagOK
<1>8. OneCamera'
  BY <1>4, <1>6 DEF OneCamera, Accepting
<1> QED
  BY <1>1, <1>7, <1>8, CallerFacts, SameRequest, CallStep DEF TypeOK, PhoneInv

LEMMA LapseInv == ASSUME Inv, NEW d \in Diags, Lapse(d) PROVE Inv' /\ NoNewCamera(diag')
<1> USE DEF Inv
<1> DEFINE row == [diag[d] EXCEPT !.late = TRUE]
<1>1. diag' = [diag EXCEPT ![d] = row] /\ UNCHANGED <<rows, store, purged, call, phone, spool, undone>>
  BY DEF Lapse, phoneVars, TypeOK
<1>2. /\ row \in Diagnostic /\ row.plan = diag[d].plan /\ row.received = diag[d].received
      /\ row.status = diag[d].status
  <2>1. diag[d] \in Diagnostic
    BY DEF TypeOK
  <2>2. \A x \in Diagnostic, b \in BOOLEAN :
          /\ [x EXCEPT !.late = b] \in Diagnostic /\ [x EXCEPT !.late = b].plan = x.plan
          /\ [x EXCEPT !.late = b].received = x.received /\ [x EXCEPT !.late = b].status = x.status
    BY DEF Diagnostic
  <2> QED
    BY <2>1, <2>2
<1> HIDE DEF row
<1>3. diag' \in [Diags -> Diagnostic] /\ \A e \in Diags : diag'[e] = IF e = d THEN row ELSE diag[e]
  BY <1>1, <1>2 DEF TypeOK
<1>4. DiagOK(diag') /\ NoNewCamera(diag')
  BY <1>2, <1>3 DEF DiagOK, NoNewCamera, TypeOK, Accepting
<1> QED
  BY <1>1, <1>4, CameraKept, CallerFacts, SameRequest, CallStep DEF TypeOK, PhoneInv

LEMMA PollPendingInv == ASSUME Inv, PollPending PROVE Inv'
<1> USE DEF Inv
<1> DEFINE q == [Idle EXCEPT !.op = "pending", !.stale = Stale]
<1>1. call' = [call EXCEPT ![Poll] = q] /\ UNCHANGED <<diag, rows, store, purged, phone, spool, undone>>
  BY DEF PollPending, cloudVars, phoneVars
<1>2. q \in Request /\ q.op = "pending"
  BY DEF Idle, Request, Ops, Stale
<1> HIDE DEF q
<1>3. DiagOK(diag') /\ NoNewCamera(diag')
  BY <1>1, SameDiag
<1> QED
  BY <1>1, <1>2, <1>3, CameraKept, CallerFacts, CallStep DEF TypeOK, PhoneInv, WellFormed, OnItsWay

LEMMA ExpireStaleInv == ASSUME Inv, ExpireStale PROVE Inv' /\ NoNewCamera(diag')
<1> USE DEF Inv
<1>1. /\ diag' = Expired(diag, {d \in call[Poll].stale : Exists(d)})
      /\ call' = [call EXCEPT ![Poll] = Idle]
      /\ UNCHANGED <<rows, store, purged, phone, spool, undone>>
  BY DEF ExpireStale, phoneVars
<1>2. DiagOK(diag') /\ NoNewCamera(diag')
  BY <1>1, ExpiredOK
<1> QED
  BY <1>1, <1>2, CameraKept, CallerFacts, IdleFacts, CallStep DEF TypeOK, PhoneInv

-------------------------------------------------------------------------------
(* Requests of the gateways.                                               *)
LEMMA ClaimInv == ASSUME Inv, NEW g \in Gateways, Claim(g) PROVE Inv' /\ NoNewCamera(diag')
<1> USE DEF Inv
<1> DEFINE r == call[Control(g)]
           may == Bound(g, r) /\ Markable(r.d)
           D == AfterBinding(g, r)
           row == [D[r.d] EXCEPT !.status = "ACTIVE", !.owner = g]
<1>1. /\ r.op = "claim"
      /\ call' = [call EXCEPT ![Control(g)] = Idle]
      /\ UNCHANGED diag \/ (may /\ diag' = [D EXCEPT ![r.d].status = "ACTIVE", ![r.d].owner = g])
      /\ UNCHANGED phone \/ phone' = [phone EXCEPT ![g] = [job |-> r.d, active |-> TRUE]]
      /\ UNCHANGED <<rows, store, purged, spool, undone>>
  BY DEF Claim
<1>2. r.d \in Diags
  BY <1>1, SameRequest, CallerFacts DEF WellFormed
<1>3. DiagOK(D) /\ NoNewCamera(D)
  BY BindingOK
<1>4. DiagOK(diag') /\ NoNewCamera(diag')
  <2>1. CASE may /\ diag' = [D EXCEPT ![r.d].status = "ACTIVE", ![r.d].owner = g]
    <3>1. /\ row \in Diagnostic /\ row.plan = D[r.d].plan /\ row.received = D[r.d].received
          /\ row.status = "ACTIVE"
      <4>1. D[r.d] \in Diagnostic /\ "ACTIVE" \in Statuses
        BY <1>2, <1>3 DEF DiagOK, Statuses, Unfinished
      <4>2. \A x \in Diagnostic, s \in Statuses, o \in Gateways :
              LET y == [x EXCEPT !.status = s, !.owner = o]
              IN  /\ y \in Diagnostic /\ y.plan = x.plan /\ y.received = x.received
                  /\ y.status = s
        BY DEF Diagnostic
      <4> HIDE DEF D
      <4> QED
        BY <4>1, <4>2
    <3>2. diag' = [D EXCEPT ![r.d] = row]
      BY <1>2, <1>3, <2>1 DEF DiagOK
    <3>3. Accepting(r.d)
      BY <2>1 DEF Markable
    <3> HIDE DEF row, D, r
    <3>4. row.received <= row.plan.bytes_limit
      BY <1>2, <1>3, <3>1 DEF DiagOK
    <3> QED
      BY <1>2, <1>3, <3>1, <3>2, <3>3, <3>4, RowOK
  <2>2. CASE UNCHANGED diag
    BY <2>2, SameDiag
  <2> QED
    BY <1>1, <2>1, <2>2
<1>5. /\ phone' \in [Gateways -> [job : Diags \cup {None}, active : BOOLEAN]]
      /\ \A h \in Gateways : phone'[h].active => phone'[h].job \in Diags
  <2> DEFINE j == [job |-> r.d, active |-> TRUE]
  <2>1. j \in [job : Diags \cup {None}, active : BOOLEAN] /\ j.job \in Diags
    BY <1>2
  <2>2. CASE UNCHANGED phone
    BY <2>2 DEF TypeOK, PhoneInv
  <2>3. CASE phone' = [phone EXCEPT ![g] = j]
    <3> HIDE DEF j
    <3>1. phone' \in [Gateways -> [job : Diags \cup {None}, active : BOOLEAN]]
      BY <2>1, <2>3 DEF TypeOK
    <3>2. \A h \in Gateways : phone'[h] = IF h = g THEN j ELSE phone[h]
      BY <2>3 DEF TypeOK
    <3> QED
      BY <2>1, <3>1, <3>2 DEF PhoneInv
  <2> QED
    BY <1>1, <2>2, <2>3
<1> QED
  BY <1>1, <1>4, <1>5, CameraKept, CallerFacts, IdleFacts, CallStep

LEMMA StoppedInv == ASSUME Inv, NEW g \in Gateways, Stopped(g) PROVE Inv' /\ NoNewCamera(diag')
<1> USE DEF Inv
<1> DEFINE r == call[Control(g)]
           q == [Idle EXCEPT !.op = "ack", !.d = r.d, !.owner = diag'[r.d].owner]
<1>1. /\ r.op = "stopped"
      /\ diag' = IF Bound(g, r) THEN Closed(AfterBinding(g, r), r.d, Unfinished, "STOPPING") ELSE diag
      /\ call' = [call EXCEPT ![Control(g)] = q]
      /\ UNCHANGED <<rows, store, purged, phone, spool, undone>>
  BY DEF Stopped, phoneVars
<1>2. r.d \in Diags
  BY <1>1, SameRequest, CallerFacts DEF WellFormed
<1>3. DiagOK(diag') /\ NoNewCamera(diag')
  BY <1>1, <1>2, BindingOK, StatusOK, SameDiag
<1>4. diag'[r.d].owner \in Gateways \cup {None}
  BY <1>2, <1>3 DEF DiagOK, Diagnostic
<1>5. q \in Request /\ q.op = "ack" /\ q.d = r.d
  BY <1>2, <1>4, IdleFacts DEF Request, Ops
<1> HIDE DEF q
<1>6. WellFormed(q) /\ \A h \in Gateways : OnItsWay(h, q)
  BY <1>2, <1>5 DEF WellFormed, OnItsWay
<1> QED
  BY <1>1, <1>3, <1>5, <1>6, CameraKept, CallerFacts, CallStep DEF TypeOK, PhoneInv

LEMMA AckInv == ASSUME Inv, NEW g \in Gateways, Ack(g) PROVE Inv' /\ NoNewCamera(diag')
<1> USE DEF Inv
<1> DEFINE r == call[Control(g)]
<1>1. /\ r.op = "ack"
      /\ diag' = IF Bound(g, r) THEN Closed(AfterBinding(g, r), r.d, {"STOPPING"}, "COMPLETED") ELSE diag
      /\ call' = [call EXCEPT ![Control(g)] = Idle]
      /\ phone' = [phone EXCEPT ![g] = NoJob]
      /\ UNCHANGED <<rows, store, purged, spool, undone>>
  BY DEF Ack
<1>2. r.d \in Diags
  BY <1>1, SameRequest, CallerFacts DEF WellFormed
<1>3. DiagOK(diag') /\ NoNewCamera(diag')
  BY <1>1, <1>2, BindingOK, StatusOK, SameDiag
<1>4. /\ phone' \in [Gateways -> [job : Diags \cup {None}, active : BOOLEAN]]
      /\ \A h \in Gateways : phone'[h].active => phone'[h].job \in Diags
  BY <1>1, IdleFacts DEF TypeOK, PhoneInv
<1> QED
  BY <1>1, <1>3, <1>4, CameraKept, CallerFacts, IdleFacts, CallStep

LEMMA LoseInv == ASSUME Inv, NEW g \in Gateways, Lose(g) PROVE Inv'
<1> USE DEF Inv
<1>1. UNCHANGED <<diag, rows, store, purged, spool, undone>>
  BY DEF Lose, cloudVars
<1>2. DiagOK(diag') /\ OneCamera'
  BY <1>1, SameDiag, CameraKept
<1>3. CASE /\ call[Control(g)].op = "stopped"
           /\ call' = [call EXCEPT ![Control(g)] = Loaded("ack", call[Control(g)].d)]
           /\ UNCHANGED phone
  <2>1. call[Control(g)].d \in Diags
    BY <1>3, SameRequest, CallerFacts DEF WellFormed
  <2> DEFINE q == Loaded("ack", call[Control(g)].d)
  <2>2. q \in Request /\ q.op = "ack" /\ q.d \in Diags
    BY <2>1, LoadedFacts DEF Ops
  <2>3. call' = [call EXCEPT ![Control(g)] = q]
    BY <1>3
  <2> HIDE DEF q
  <2>4. WellFormed(q) /\ \A h \in Gateways : OnItsWay(h, q)
    BY <2>2 DEF WellFormed, OnItsWay
  <2> QED
    BY <1>1, <1>2, <1>3, <2>2, <2>3, <2>4, CallerFacts, CallStep DEF TypeOK, PhoneInv
<1>4. CASE /\ call' = [call EXCEPT ![Control(g)] = Idle]
           /\ phone' = [phone EXCEPT ![g] = NoJob]
  <2>1. /\ phone' \in [Gateways -> [job : Diags \cup {None}, active : BOOLEAN]]
        /\ \A h \in Gateways : phone'[h].active => phone'[h].job \in Diags
    BY <1>4, IdleFacts DEF TypeOK, PhoneInv
  <2> QED
    BY <1>1, <1>2, <1>4, <2>1, CallerFacts, IdleFacts, CallStep
<1>5. ASSUME NEW c \in {Control(g), Upload(g)}, call' = [call EXCEPT ![c] = Idle], UNCHANGED phone
      PROVE  Inv'
  BY <1>1, <1>2, <1>5, CallerFacts, IdleFacts, CallStep DEF TypeOK, PhoneInv
<1> QED
  BY <1>3, <1>4, <1>5 DEF Lose

-------------------------------------------------------------------------------
(* The forwarder of a phone.                                               *)
LEMMA StartJobInv == ASSUME Inv, NEW g \in Gateways, NEW d \in Diags, StartJob(g, d) PROVE Inv'
<1> USE DEF Inv
<1> DEFINE q == Loaded("claim", d)
<1>1. call' = [call EXCEPT ![Control(g)] = q] /\ UNCHANGED <<diag, rows, store, purged, phone, spool, undone>>
  BY DEF StartJob, Load, cloudVars, phoneVars
<1>2. q \in Request /\ q.op = "claim" /\ q.d = d
  BY LoadedFacts DEF Ops
<1> HIDE DEF q
<1>3. WellFormed(q) /\ \A h \in Gateways : OnItsWay(h, q)
  BY <1>2 DEF WellFormed, OnItsWay
<1> QED
  BY <1>1, <1>2, <1>3, SameDiag, CameraKept, CallerFacts, CallStep DEF TypeOK, PhoneInv

LEMMA StopJobInv == ASSUME Inv, NEW g \in Gateways, StopJob(g) PROVE Inv'
<1> USE DEF Inv
<1> DEFINE q == Loaded("stopped", phone[g].job)
<1>1. /\ phone[g].active
      /\ call' = [call EXCEPT ![Control(g)] = q]
      /\ phone' = [phone EXCEPT ![g].active = FALSE]
      /\ UNCHANGED <<diag, rows, store, purged, spool, undone>>
  BY DEF StopJob, Load, cloudVars
<1>2. phone[g].job \in Diags
  BY <1>1 DEF PhoneInv
<1>3. q \in Request /\ q.op = "stopped" /\ q.d = phone[g].job
  BY <1>2, LoadedFacts DEF Ops
<1> HIDE DEF q
<1>4. WellFormed(q) /\ \A h \in Gateways : OnItsWay(h, q)
  BY <1>2, <1>3 DEF WellFormed, OnItsWay
<1>5. /\ phone' \in [Gateways -> [job : Diags \cup {None}, active : BOOLEAN]]
      /\ \A h \in Gateways : phone'[h].active => phone'[h].job \in Diags
  BY <1>1 DEF TypeOK, PhoneInv
<1> QED
  BY <1>1, <1>3, <1>4, <1>5, SameDiag, CameraKept, CallerFacts, CallStep

LEMMA KillInv == ASSUME Inv, NEW g \in Gateways, Kill(g) PROVE Inv'
<1> USE DEF Inv
<1>1. phone' = [phone EXCEPT ![g] = NoJob] /\ UNCHANGED <<diag, rows, store, purged, call, spool, undone>>
  BY DEF Kill, cloudVars
<1>2. /\ phone' \in [Gateways -> [job : Diags \cup {None}, active : BOOLEAN]]
      /\ \A h \in Gateways : phone'[h].active => phone'[h].job \in Diags
  BY <1>1, IdleFacts DEF TypeOK, PhoneInv
<1> QED
  BY <1>1, <1>2, SameDiag, CameraKept, CallerFacts, SameRequest, CallStep

(* What is sent is the row of the spool, and it is written once.           *)
LEMMA UploadFrameInv ==
  ASSUME Inv, NEW g \in Gateways, NEW d \in Diags, NEW i \in Indexes, UploadFrame(g, d, i)
  PROVE  Inv'
<1> USE DEF Inv
<1> DEFINE s == spool[<<g, d, i>>]
           f == [idx |-> i, sha |-> s.sha, transient |-> FALSE]
           p == Loaded("frame", d)
           q == [p EXCEPT !.body = s.file, !.f = f]
<1>1. /\ s.row = "pending" /\ s.file = s.sha
      /\ call' = [call EXCEPT ![Upload(g)] = q]
      /\ UNCHANGED <<diag, rows, store, purged, phone, spool, undone>>
  BY DEF UploadFrame, Load, cloudVars, phoneVars
<1>2. s.sha \in Contents
  BY <1>1 DEF PhoneInv
<1>3. f \in FrameRow /\ ~f.transient /\ f.idx = i /\ f.sha = s.sha
  BY <1>2 DEF FrameRow
<1>4. p \in Request /\ p.op = "frame" /\ p.d = d
  BY LoadedFacts DEF Ops
<1> HIDE DEF p, f
<1>5. q \in Request /\ q.op = "frame" /\ q.d = d /\ q.f = f
  <2>1. s.file \in Contents /\ f \in FrameRow
    BY <1>1, <1>2, <1>3
  <2> HIDE DEF s
  <2> QED
    BY <1>4, <2>1, WithFrame
<1> HIDE DEF q
<1>6. WellFormed(q) /\ OnItsWay(g, q)
  BY <1>1, <1>3, <1>5 DEF WellFormed, OnItsWay
<1>7. \A h \in Gateways : Upload(g) = Upload(h) => OnItsWay(h, q)
  BY <1>6, CallerFacts
<1> QED
  BY <1>1, <1>5, <1>6, <1>7, SameDiag, CameraKept, CallerFacts, CallStep DEF TypeOK, PhoneInv

LEMMA DevicePreviewInv ==
  ASSUME Inv, NEW g \in Gateways, NEW d \in Diags, NEW i \in Indexes, NEW c \in Contents, NEW body \in Contents,
         DevicePreview(g, d, i, c, body)
  PROVE  Inv'
<1> USE DEF Inv
<1> DEFINE f == [idx |-> i, sha |-> c, transient |-> TRUE]
           p == Loaded("preview", d)
           q == [p EXCEPT !.body = body, !.f = f]
<1>1. call' = [call EXCEPT ![Upload(g)] = q] /\ UNCHANGED <<diag, rows, store, purged, phone, spool, undone>>
  BY DEF DevicePreview, Load, cloudVars, phoneVars
<1>2. f \in FrameRow
  BY DEF FrameRow
<1>3. p \in Request /\ p.op = "preview" /\ p.d = d
  BY LoadedFacts DEF Ops
<1> HIDE DEF p, f
<1>4. q \in Request /\ q.op = "preview" /\ q.d = d /\ q.f = f
  BY <1>2, <1>3, WithFrame
<1> HIDE DEF q
<1>5. WellFormed(q) /\ \A h \in Gateways : OnItsWay(h, q)
  BY <1>2, <1>4 DEF WellFormed, OnItsWay
<1> QED
  BY <1>1, <1>4, <1>5, SameDiag, CameraKept, CallerFacts, CallStep DEF TypeOK, PhoneInv

(* A row of the spool is written once, a file that lies there is kept.     *)
LEMMA DeviceFrameInv ==
  ASSUME Inv, NEW g \in Gateways, NEW d \in Diags, NEW i \in Indexes, NEW c \in Contents, DeviceFrame(g, d, i, c)
  PROVE  Inv'
<1> USE DEF Inv
<1> DEFINE k == <<g, d, i>>
           new == [file |-> c, row |-> "pending", sha |-> c]
           left == [spool[k] EXCEPT !.file = c]
<1>1. /\ UNCHANGED <<diag, rows, store, purged, call, phone, undone>>
      /\ \/ spool[k].row = "none" /\ spool' = [spool EXCEPT ![k] = new]
         \/ spool' = [spool EXCEPT ![k] = left]
  BY DEF DeviceFrame, cloudVars, TypeOK
<1>2. k \in Gateways \X Diags \X Indexes /\ spool[k] \in SpoolSlot
  BY DEF TypeOK
<1>3. new \in SpoolSlot /\ new.row = "pending" /\ new.sha \in Contents
  BY DEF SpoolSlot
<1>4. left \in SpoolSlot /\ left.row = spool[k].row /\ left.sha = spool[k].sha
  BY <1>2 DEF SpoolSlot
<1> HIDE DEF new, left
<1>5. spool' \in [Gateways \X Diags \X Indexes -> SpoolSlot]
  BY <1>1, <1>2, <1>3, <1>4 DEF TypeOK
<1>6. \A h \in Gateways, e \in Diags, j \in Indexes :
        \/ /\ spool'[<<h, e, j>>].row = spool[<<h, e, j>>].row
           /\ spool'[<<h, e, j>>].sha = spool[<<h, e, j>>].sha
        \/ /\ spool[<<h, e, j>>].row = "none" /\ spool'[<<h, e, j>>].row = "pending"
           /\ spool'[<<h, e, j>>].sha \in Contents
  <2> SUFFICES ASSUME NEW s \in Gateways \X Diags \X Indexes
               PROVE  \/ spool'[s].row = spool[s].row /\ spool'[s].sha = spool[s].sha
                      \/ /\ spool[s].row = "none" /\ spool'[s].row = "pending"
                         /\ spool'[s].sha \in Contents
    OBVIOUS
  <2> HIDE DEF k
  <2>1. CASE s # k
    BY <1>1, <1>2, <2>1 DEF TypeOK
  <2>2. CASE s = k
    BY <1>1, <1>2, <1>3, <1>4, <2>2 DEF TypeOK
  <2> QED
    BY <2>1, <2>2
<1>7. TypeOK'
  BY <1>1, <1>5 DEF TypeOK
<1>8. CallInv'
  <2>1. ASSUME NEW h \in Gateways PROVE OnItsWay(h, call[Upload(h)])'
    <3> DEFINE q == call[Upload(h)]
    <3>1. q.op = "frame" => q.d \in Diags /\ q.f.idx \in Indexes
      BY SameRequest, CallerFacts DEF WellFormed, FrameRow
    <3>2. OnItsWay(h, q)
      BY DEF CallInv
    <3> QED
      BY <1>1, <1>6, <3>1, <3>2 DEF OnItsWay
  <2> QED
    BY <1>1, <2>1 DEF CallInv, WellFormed
<1>9. PhoneInv'
  BY <1>1, <1>6 DEF PhoneInv
<1>10. RowsInv' /\ AckedInv' /\ OneCamera'
  BY <1>1, <1>6 DEF RowsInv, AckedInv, InCloud, OneCamera, Accepting
<1> QED
  BY <1>7, <1>8, <1>9, <1>10

-------------------------------------------------------------------------------
(* Frames in the cloud.                                                    *)

(* No object of an index is replaced.                                      *)
ObjectsStay == \A d \in Diags, i \in Indexes : store[d][i] \in Contents => store'[d][i] = store[d][i]

(* An object that is written replaces none that a durable row names.       *)
LEMMA StoreOK ==
  ASSUME TypeOK, NEW d \in Diags, NEW f \in FrameRow, Store(d, f), ~IsDuplicate(d, f), ~IsConflict(d, f)
  PROVE  /\ store' \in [Diags -> [Keys -> Contents \cup {None}]]
         /\ ~f.transient => store'[d][f.idx] = f.sha
         /\ \A e \in Diags : \A h \in rows[e] : ~h.transient => store'[e][h.idx] = store[e][h.idx]
         /\ ObjectsStay
<1>1. f.idx \in Indexes /\ f.sha \in Contents /\ Key(f) \in Keys
  BY DEF FrameRow, Key, Keys
<1>2. store' = [store EXCEPT ![d] = [store[d] EXCEPT ![Key(f)] = f.sha]]
  BY DEF Store, TypeOK
<1>3. [store[d] EXCEPT ![Key(f)] = f.sha] \in [Keys -> Contents \cup {None}]
  BY <1>1 DEF TypeOK
<1>4. store' \in [Diags -> [Keys -> Contents \cup {None}]]
  BY <1>2, <1>3 DEF TypeOK
<1>5. \A e \in Diags : store'[e] = IF e = d THEN [store[d] EXCEPT ![Key(f)] = f.sha] ELSE store[e]
  BY <1>2 DEF TypeOK
<1>6. ~f.transient => store'[d][f.idx] = f.sha
  BY <1>1, <1>5 DEF TypeOK, Key
<1>7. ASSUME NEW h \in rows[d], ~h.transient PROVE Key(f) # h.idx /\ h.idx \in Keys
  <2>1. h.idx \in Indexes /\ h.idx # None
    BY CameraAssumption DEF TypeOK, FrameRow
  <2>2. h.idx # f.idx
    BY DEF IsDuplicate, IsConflict
  <2> QED
    BY <2>1, <2>2 DEF Key, Keys, Latest
<1>8. ASSUME NEW e \in Diags, NEW h \in rows[e], ~h.transient PROVE store'[e][h.idx] = store[e][h.idx]
  <2>1. CASE e = d
    BY <1>5, <1>7, <1>8, <2>1 DEF TypeOK
  <2>2. CASE e # d
    BY <1>5, <2>2
  <2> QED
    BY <2>1, <2>2
<1>9. ASSUME NEW e \in Diags, NEW i \in Indexes, store[e][i] \in Contents PROVE store'[e][i] = store[e][i]
  <2>1. i \in Keys /\ i # None /\ store[e][i] # None
    BY <1>9, CameraAssumption DEF Keys
  <2>2. CASE e = d /\ i = Key(f)
    <3>1. store[d][Key(f)] = f.sha
      BY <2>1, <2>2 DEF Store, Storable, Key, Latest
    <3> QED
      BY <1>1, <1>5, <2>2, <3>1 DEF TypeOK
  <2>3. CASE ~(e = d /\ i = Key(f))
    BY <1>5, <2>1, <2>3 DEF TypeOK
  <2> QED
    BY <2>2, <2>3
<1> QED
  BY <1>4, <1>6, <1>8, <1>9 DEF ObjectsStay

LEMMA IngestOK ==
  ASSUME Inv, NEW D, DiagOK(D), NoNewCamera(D), \A e \in Diags : D[e].plan = diag[e].plan,
         NEW d \in Diags, NEW f \in FrameRow, NEW received \in Nat, Ingest(D, d, f, received)
  PROVE  /\ DiagOK(diag') /\ NoNewCamera(diag') /\ purged' = purged
         /\ rows' \in [Diags -> SUBSET FrameRow] /\ store' \in [Diags -> [Keys -> Contents \cup {None}]]
         /\ RowsInv' /\ f \in rows'[d] /\ \A e \in Diags : rows[e] \subseteq rows'[e]
         /\ ObjectsStay
<1> USE DEF Inv
<1>1. /\ ~IsConflict(d, f) /\ ~IsDuplicate(d, f)
      /\ received + 1 <= diag[d].plan.bytes_limit
      /\ Store(d, f)
      /\ rows' = [rows EXCEPT ![d] = rows[d] \cup {f}]
      /\ purged' = purged
  BY DEF Ingest, WithinQuota
<1>2. PICK clip \in {D[d].clip, D[d].clip \/ ClipDone(d, f, rows'[d], store'[d])} :
        diag' = [D EXCEPT ![d].received = received + 1, ![d].clip = clip, ![d].last = f]
  BY DEF Ingest
<1>3. clip \in BOOLEAN
  <2>1. D[d].clip \in BOOLEAN
    BY DEF DiagOK, Diagnostic
  <2> QED
    BY <2>1
<1> DEFINE row == [D[d] EXCEPT !.received = received + 1, !.clip = clip, !.last = f]
<1>4. /\ row \in Diagnostic /\ row.received = received + 1 /\ row.plan = D[d].plan
      /\ row.status = D[d].status
  <2>1. D[d] \in Diagnostic /\ received + 1 \in Nat
    BY DEF DiagOK
  <2> QED
    BY <1>3, <2>1 DEF Diagnostic
<1>5. diag' = [D EXCEPT ![d] = row]
  BY <1>2 DEF DiagOK
<1> HIDE DEF row
<1>6. row.received <= row.plan.bytes_limit
  BY <1>1, <1>4
<1>7. row.status \in {"REQUESTED", "ACTIVE"} => Accepting(d)
  BY <1>4 DEF NoNewCamera
<1>8. DiagOK(diag') /\ NoNewCamera(diag')
  BY <1>4, <1>5, <1>6, <1>7, RowOK
<1>9. /\ store' \in [Diags -> [Keys -> Contents \cup {None}]]
      /\ ~f.transient => store'[d][f.idx] = f.sha
      /\ \A e \in Diags : \A h \in rows[e] : ~h.transient => store'[e][h.idx] = store[e][h.idx]
      /\ ObjectsStay
  BY <1>1, StoreOK
<1>10. \A e \in Diags : rows'[e] = IF e = d THEN rows[d] \cup {f} ELSE rows[e]
  BY <1>1 DEF TypeOK
<1>11. rows' \in [Diags -> SUBSET FrameRow]
  BY <1>1 DEF TypeOK
<1>12. ASSUME NEW e \in Diags, NEW x \in rows'[e], NEW h \in rows'[e], x.idx = h.idx PROVE x = h
  <2>1. \A r \in rows[d] : r.idx # f.idx
    BY <1>1 DEF IsConflict, IsDuplicate
  <2> QED
    BY <1>10, <1>12, <2>1 DEF RowsInv
<1>13. ASSUME NEW e \in Diags \ purged, NEW h \in rows'[e], ~h.transient PROVE store'[e][h.idx] = h.sha
  <2>1. CASE h \in rows[e]
    BY <1>9, <1>13, <2>1 DEF RowsInv
  <2>2. CASE e = d /\ h = f
    BY <1>9, <1>13, <2>2
  <2> QED
    BY <1>10, <2>1, <2>2
<1>14. RowsInv'
  BY <1>1, <1>12, <1>13 DEF RowsInv
<1> QED
  BY <1>1, <1>8, <1>9, <1>10, <1>11, <1>14

(* A request about a frame ends: rows and objects are only added, and what *)
(* the phone marks as acknowledged is among them.                          *)
LEMMA FrameStep ==
  ASSUME Inv, DiagOK(diag'), NoNewCamera(diag'), UNCHANGED <<purged, phone>>,
         rows' \in [Diags -> SUBSET FrameRow], store' \in [Diags -> [Keys -> Contents \cup {None}]],
         RowsInv', \A d \in Diags : rows[d] \subseteq rows'[d], ObjectsStay,
         undone \subseteq undone', undone' \subseteq Gateways \X Diags \X Indexes,
         NEW c \in Callers, call' = [call EXCEPT ![c] = Idle],
         spool' \in [Gateways \X Diags \X Indexes -> SpoolSlot],
         \A g \in Gateways, d \in Diags, i \in Indexes :
           /\ spool'[<<g, d, i>>].sha = spool[<<g, d, i>>].sha
           /\ \/ spool'[<<g, d, i>>].row = spool[<<g, d, i>>].row
              \/ spool'[<<g, d, i>>].row = "acked" /\ InCloud(g, d, i)'
  PROVE  Inv' /\ NoNewCamera(diag')
<1> USE DEF Inv
<1>1. TypeOK'
  BY IdleFacts DEF TypeOK, DiagOK
<1>2. \A e \in Callers : call'[e] = IF e = c THEN Idle ELSE call[e]
  BY DEF TypeOK
<1>3. \A e \in Callers : WellFormed(call'[e])
  BY <1>2, IdleFacts DEF CallInv
<1>4. ASSUME NEW g \in Gateways PROVE OnItsWay(g, call[Upload(g)])'
  <2> DEFINE q == call'[Upload(g)]
  <2>1. OnItsWay(g, q) /\ WellFormed(q)
    BY <1>2, <1>3, CallerFacts, IdleFacts DEF CallInv
  <2>2. q.op = "frame" => q.d \in Diags /\ q.f.idx \in Indexes
    BY <2>1 DEF WellFormed, FrameRow
  <2> QED
    BY <2>1, <2>2 DEF OnItsWay
<1>5. CallInv'
  BY <1>3, <1>4 DEF CallInv, WellFormed
<1>6. PhoneInv'
  BY DEF PhoneInv
<1>7. ASSUME NEW g \in Gateways, NEW d \in Diags \ purged, NEW i \in Indexes, spool'[<<g, d, i>>].row = "acked"
      PROVE  InCloud(g, d, i)'
  <2>1. CASE spool[<<g, d, i>>].row = "acked"
    <3>1. InCloud(g, d, i) /\ spool'[<<g, d, i>>].sha = spool[<<g, d, i>>].sha
      BY <2>1 DEF AckedInv
    <3>2. CASE \E f \in rows[d] : f.idx = i /\ f.sha = spool[<<g, d, i>>].sha
      BY <3>1, <3>2 DEF InCloud
    <3>3. CASE /\ <<g, d, i>> \in undone /\ spool[<<g, d, i>>].sha \in Contents
               /\ store[d][i] = spool[<<g, d, i>>].sha
      <4>1. store'[d][i] = store[d][i]
        BY <3>3 DEF ObjectsStay
      <4>2. <<g, d, i>> \in undone'
        BY <3>3
      <4> QED
        BY <3>1, <3>3, <4>1, <4>2 DEF InCloud
    <3> QED
      BY <3>1, <3>2, <3>3 DEF InCloud
  <2>2. CASE spool[<<g, d, i>>].row # "acked"
    BY <1>7, <2>2
  <2> QED
    BY <2>1, <2>2
<1>8. OneCamera' /\ AckedInv'
  BY <1>7, CameraKept DEF AckedInv
<1> QED
  BY <1>1, <1>5, <1>6, <1>8

LEMMA HandleFrameInv == ASSUME Inv, NEW g \in Gateways, HandleFrame(g) PROVE Inv' /\ NoNewCamera(diag')
<1> USE DEF Inv
<1> DEFINE r == call[Upload(g)]
           d == r.d
           f == r.f
           D == AfterBinding(g, r)
           Heard == r.op = "frame" /\ spool' = Acknowledged(g, r)
           kept == /\ \A h \in Gateways, e \in Diags, i \in Indexes :
                        /\ spool'[<<h, e, i>>].sha = spool[<<h, e, i>>].sha
                        /\ \/ spool'[<<h, e, i>>].row = spool[<<h, e, i>>].row
                           \/ spool'[<<h, e, i>>].row = "acked" /\ InCloud(h, e, i)'
                   /\ spool' \in [Gateways \X Diags \X Indexes -> SpoolSlot]
<1>1. r.op \in {"frame", "preview"} /\ call' = [call EXCEPT ![Upload(g)] = Idle] /\ phone' = phone
  BY DEF HandleFrame
<1>2. /\ d \in Diags /\ f \in FrameRow /\ f.idx \in Indexes /\ f.sha \in Contents
      /\ r.op = "frame" => /\ ~f.transient
                           /\ spool[<<g, d, f.idx>>].row # "none"
                           /\ spool[<<g, d, f.idx>>].sha = f.sha
  BY <1>1, SameRequest, CallerFacts DEF WellFormed, OnItsWay, FrameRow
<1>3. DiagOK(D) /\ NoNewCamera(D) /\ (\A e \in Diags : D[e].plan = diag[e].plan) /\ diag[d].received \in Nat
  BY <1>2, BindingOK DEF TypeOK, Diagnostic
<1>4. ASSUME UNCHANGED spool PROVE kept
  BY <1>4 DEF TypeOK
<1>5. ASSUME Heard,
             \/ \E x \in rows'[d] : x.idx = f.idx /\ x.sha = f.sha
             \/ <<g, d, f.idx>> \in undone' /\ store'[d][f.idx] = f.sha
      PROVE  kept
  <2> DEFINE k == <<g, d, f.idx>>
             slot == [spool[k] EXCEPT !.row = "acked", !.file = None]
  <2>1. k \in Gateways \X Diags \X Indexes /\ spool[k] \in SpoolSlot
    BY <1>2 DEF TypeOK
  <2>2. slot \in SpoolSlot /\ slot.row = "acked" /\ slot.sha = spool[k].sha
    BY <2>1 DEF SpoolSlot
  <2>3. spool' = [spool EXCEPT ![k] = slot]
    BY <1>5, <2>1 DEF Acknowledged, TypeOK
  <2> HIDE DEF slot
  <2>4. spool' \in [Gateways \X Diags \X Indexes -> SpoolSlot]
    BY <2>2, <2>3 DEF TypeOK
  <2>5. \A h \in Gateways, e \in Diags, i \in Indexes :
          \/ <<h, e, i>> = k /\ spool'[<<h, e, i>>] = slot
          \/ spool'[<<h, e, i>>] = spool[<<h, e, i>>]
    BY <2>1, <2>3 DEF TypeOK
  <2>6. spool[k].sha = f.sha /\ spool'[k] = slot
    BY <1>2, <1>5, <2>1, <2>3 DEF TypeOK
  <2>7. ASSUME NEW e \in Diags, NEW i \in Indexes, e = d, i = f.idx PROVE InCloud(g, e, i)'
    <3>1. spool'[<<g, e, i>>].sha = f.sha
      BY <2>2, <2>6, <2>7
    <3> QED
      BY <1>2, <1>5, <2>7, <3>1 DEF InCloud
  <2>8. ASSUME NEW h \in Gateways, NEW e \in Diags, NEW i \in Indexes
        PROVE  /\ spool'[<<h, e, i>>].sha = spool[<<h, e, i>>].sha
               /\ \/ spool'[<<h, e, i>>].row = spool[<<h, e, i>>].row
                  \/ spool'[<<h, e, i>>].row = "acked" /\ InCloud(h, e, i)'
    <3>1. CASE spool'[<<h, e, i>>] = spool[<<h, e, i>>]
      BY <3>1
    <3>2. CASE <<h, e, i>> = k /\ spool'[<<h, e, i>>] = slot
      <4>1. h = g /\ e = d /\ i = f.idx
        BY <3>2
      <4>2. InCloud(g, e, i)'
        BY <2>7, <4>1
      <4> QED
        BY <2>2, <3>2, <4>1, <4>2
    <3> QED
      BY <2>5, <3>1, <3>2
  <2> QED
    BY <2>4, <2>8
<1> HIDE DEF kept
<1>6. CASE Ingest(D, d, f, diag[d].received) /\ (UNCHANGED spool \/ Heard) /\ UNCHANGED undone
  <2>1. /\ DiagOK(diag') /\ NoNewCamera(diag') /\ purged' = purged
        /\ rows' \in [Diags -> SUBSET FrameRow] /\ store' \in [Diags -> [Keys -> Contents \cup {None}]]
        /\ RowsInv' /\ f \in rows'[d] /\ \A e \in Diags : rows[e] \subseteq rows'[e]
        /\ ObjectsStay
    BY <1>2, <1>3, <1>6, IngestOK
  <2>2. kept
    BY <1>4, <1>5, <1>6, <2>1
  <2>3. undone \subseteq undone' /\ undone' \subseteq Gateways \X Diags \X Indexes
    BY <1>6 DEF TypeOK
  <2> QED
    BY <1>1, <2>1, <2>2, <2>3, CallerFacts, FrameStep DEF kept
<1>7. CASE /\ IsDuplicate(d, f) /\ diag' \in {diag, D} /\ UNCHANGED <<rows, store, purged>>
           /\ UNCHANGED spool \/ Heard
           /\ UNCHANGED undone
  <2>1. \E x \in rows'[d] : x.idx = f.idx /\ x.sha = f.sha
    BY <1>7 DEF IsDuplicate
  <2>2. kept
    BY <1>4, <1>5, <1>7, <2>1
  <2>3. RowsInv' /\ rows' \in [Diags -> SUBSET FrameRow] /\ store' \in [Diags -> [Keys -> Contents \cup {None}]]
    BY <1>7 DEF RowsInv, TypeOK
  <2>4. undone \subseteq undone' /\ undone' \subseteq Gateways \X Diags \X Indexes
    BY <1>7 DEF TypeOK
  <2>5. DiagOK(diag') /\ NoNewCamera(diag')
    BY <1>3, <1>7, SameDiag
  <2> QED
    BY <1>1, <1>7, <2>2, <2>3, <2>4, <2>5, CallerFacts, FrameStep DEF kept, ObjectsStay
<1>8. CASE /\ New(d, f, diag[d].received) /\ Store(d, f) /\ UNCHANGED <<diag, rows, purged>>
           /\ \/ UNCHANGED <<spool, undone>>
              \/ Heard /\ undone' = undone \cup {<<g, d, f.idx>>}
  <2>1. /\ store' \in [Diags -> [Keys -> Contents \cup {None}]]
        /\ ~f.transient => store'[d][f.idx] = f.sha
        /\ \A e \in Diags : \A h \in rows[e] : ~h.transient => store'[e][h.idx] = store[e][h.idx]
        /\ ObjectsStay
    BY <1>2, <1>8, StoreOK DEF New
  <2>2. RowsInv'
    BY <1>8, <2>1 DEF RowsInv
  <2>3. rows' \in [Diags -> SUBSET FrameRow]
    BY <1>8 DEF TypeOK
  <2>4. undone \subseteq undone' /\ undone' \subseteq Gateways \X Diags \X Indexes
    BY <1>2, <1>8 DEF TypeOK
  <2>5. kept
    <3>1. CASE UNCHANGED spool
      BY <1>4, <3>1
    <3>2. CASE Heard /\ undone' = undone \cup {<<g, d, f.idx>>}
      <4>1. <<g, d, f.idx>> \in undone' /\ store'[d][f.idx] = f.sha
        BY <1>2, <2>1, <3>2
      <4> QED
        BY <1>5, <3>2, <4>1
    <3> QED
      BY <1>8, <3>1, <3>2
  <2> QED
    BY <1>1, <1>8, <2>1, <2>2, <2>3, <2>4, <2>5, SameDiag, CallerFacts, FrameStep DEF kept
<1>9. CASE UNCHANGED <<diag, rows, store, purged, spool, undone>>
  <2>1. RowsInv' /\ rows' \in [Diags -> SUBSET FrameRow] /\ store' \in [Diags -> [Keys -> Contents \cup {None}]]
    BY <1>9 DEF RowsInv, TypeOK
  <2>2. undone \subseteq undone' /\ undone' \subseteq Gateways \X Diags \X Indexes
    BY <1>9 DEF TypeOK
  <2> QED
    BY <1>1, <1>4, <1>9, <2>1, <2>2, SameDiag, CallerFacts, FrameStep DEF kept, ObjectsStay
<1> QED
  BY <1>6, <1>7, <1>8, <1>9 DEF HandleFrame, cloudVars

-------------------------------------------------------------------------------
(* The administrator.                                                      *)
LEMMA LoadStopInv == ASSUME Inv, NEW d \in Diags, LoadStop(d) PROVE Inv'
<1> USE DEF Inv
<1> DEFINE q == LoadedRow("stop", d)
<1>1. call' = [call EXCEPT ![Admin] = q] /\ UNCHANGED <<diag, rows, store, purged, phone, spool, undone>>
  BY DEF LoadStop, Load, cloudVars, phoneVars
<1>2. Exists(d)
  BY DEF LoadStop, Open, Exists, Statuses
<1>3. q \in Request /\ q.op = "stop" /\ q.d = d
  BY <1>2, LoadedFacts DEF Ops
<1> HIDE DEF q
<1>4. WellFormed(q) /\ \A h \in Gateways : OnItsWay(h, q)
  BY <1>3 DEF WellFormed, OnItsWay
<1> QED
  BY <1>1, <1>3, <1>4, SameDiag, CameraKept, CallerFacts, CallStep DEF TypeOK, PhoneInv

(* The row is written over whatever it has become, but never reopened.     *)
LEMMA StopInv == ASSUME Inv, Stop PROVE Inv' /\ NoNewCamera(diag')
<1> USE DEF Inv
<1> DEFINE d == call[Admin].d
<1>1. /\ call[Admin].op = "stop"
      /\ call' = [call EXCEPT ![Admin] = Idle]
      /\ UNCHANGED <<rows, store, purged, phone, spool, undone>>
  BY DEF Stop, phoneVars
<1>2. d \in Diags
  BY <1>1, SameRequest, CallerFacts DEF WellFormed
<1>3. DiagOK(diag') /\ NoNewCamera(diag')
  <2>1. CASE ~Exists(d)
    BY <2>1, SameDiag DEF Stop
  <2>2. CASE Exists(d)
    <3>1. PICK clip \in {diag[d].clip} \cup {diag[d].plan.mode = "CLIP" /\ Convertible(rows[d], store[d])} :
            diag' = [diag EXCEPT ![d].clip = clip,
                       ![d].status = IF call[Admin].status = "STOPPING" THEN @ ELSE "STOPPING"]
      BY <2>2 DEF Stop
    <3>2. clip \in BOOLEAN
      <4>1. diag[d].clip \in BOOLEAN
        BY <1>2 DEF TypeOK, Diagnostic
      <4> QED
        BY <4>1
    <3> DEFINE status == IF call[Admin].status = "STOPPING" THEN diag[d].status ELSE "STOPPING"
               row == [diag[d] EXCEPT !.clip = clip, !.status = status]
    <3>3. diag[d] \in Diagnostic
      BY <1>2 DEF TypeOK
    <3>4. status \in Statuses \cup {"none", "removed"} /\ status \in {diag[d].status, "STOPPING"}
      BY <3>3 DEF Diagnostic, Statuses, Unfinished
    <3>5. diag' = [diag EXCEPT ![d] = row]
      BY <1>2, <3>1 DEF TypeOK
    <3> HIDE DEF status
    <3>6. /\ row \in Diagnostic /\ row.status = status /\ row.plan = diag[d].plan
          /\ row.received = diag[d].received
      BY <3>2, <3>3, <3>4 DEF Diagnostic
    <3> HIDE DEF row
    <3>7. row.received <= row.plan.bytes_limit
      BY <1>2, <3>6 DEF TypeOK
    <3>8. row.status \in {"REQUESTED", "ACTIVE"} => Accepting(d)
      BY <3>4, <3>6 DEF Accepting
    <3> QED
      BY <1>2, <3>5, <3>6, <3>7, <3>8, SameDiag, RowOK
  <2> QED
    BY <2>1, <2>2
<1> QED
  BY <1>1, <1>3, CameraKept, CallerFacts, IdleFacts, CallStep DEF TypeOK, PhoneInv

LEMMA LoadRelayInv == ASSUME Inv, NEW d \in Diags, NEW f \in FrameRow, LoadRelay(d, f) PROVE Inv'
<1> USE DEF Inv
<1> DEFINE p == LoadedRow("relay", d)
           q == [p EXCEPT !.f = f]
<1>1. call' = [call EXCEPT ![Admin] = q] /\ UNCHANGED <<diag, rows, store, purged, phone, spool, undone>>
  BY DEF LoadRelay, Load, cloudVars, phoneVars
<1>2. Exists(d)
  BY DEF LoadRelay, Accepting, Exists, Statuses, Unfinished
<1>3. p \in Request /\ p.op = "relay" /\ p.d = d
  BY <1>2, LoadedFacts DEF Ops
<1> HIDE DEF p
<1>4. q \in Request /\ q.op = "relay" /\ q.d = d /\ q.f = f
  BY <1>3 DEF Request
<1> HIDE DEF q
<1>5. WellFormed(q) /\ \A h \in Gateways : OnItsWay(h, q)
  BY <1>4 DEF WellFormed, OnItsWay
<1> QED
  BY <1>1, <1>4, <1>5, SameDiag, CameraKept, CallerFacts, CallStep DEF TypeOK, PhoneInv

(* The counter it writes back is the one it loaded.                        *)
LEMMA RelayInv == ASSUME Inv, Relay PROVE Inv' /\ NoNewCamera(diag')
<1> USE DEF Inv
<1> DEFINE r == call[Admin]
<1>1. r.op = "relay" /\ call' = [call EXCEPT ![Admin] = Idle] /\ UNCHANGED <<phone, spool, undone>>
  BY DEF Relay, phoneVars
<1>2. r.d \in Diags /\ r.f \in FrameRow /\ r.received \in Nat
  BY <1>1, SameRequest, CallerFacts DEF WellFormed, Request
<1>3. DiagOK(diag) /\ NoNewCamera(diag)
  BY SameDiag
<1>4. spool' \in [Gateways \X Diags \X Indexes -> SpoolSlot]
  BY <1>1 DEF TypeOK
<1>5. CASE Ingest(diag, r.d, r.f, r.received)
  <2>1. /\ DiagOK(diag') /\ NoNewCamera(diag') /\ purged' = purged
        /\ rows' \in [Diags -> SUBSET FrameRow] /\ store' \in [Diags -> [Keys -> Contents \cup {None}]]
        /\ RowsInv' /\ (\A e \in Diags : rows[e] \subseteq rows'[e]) /\ ObjectsStay
    BY <1>2, <1>3, <1>5, IngestOK
  <2>2. undone \subseteq undone' /\ undone' \subseteq Gateways \X Diags \X Indexes
    BY <1>1 DEF TypeOK
  <2> QED
    BY <1>1, <1>4, <2>1, <2>2, CallerFacts, FrameStep
<1>7. CASE New(r.d, r.f, r.received) /\ Store(r.d, r.f) /\ UNCHANGED <<diag, rows, purged>>
  <2>1. /\ store' \in [Diags -> [Keys -> Contents \cup {None}]] /\ ObjectsStay
        /\ \A e \in Diags : \A h \in rows[e] : ~h.transient => store'[e][h.idx] = store[e][h.idx]
    BY <1>2, <1>7, StoreOK DEF New
  <2>2. RowsInv' /\ rows' \in [Diags -> SUBSET FrameRow]
    BY <1>7, <2>1 DEF RowsInv, TypeOK
  <2>3. undone \subseteq undone' /\ undone' \subseteq Gateways \X Diags \X Indexes
    BY <1>1 DEF TypeOK
  <2> QED
    BY <1>1, <1>3, <1>4, <1>7, <2>1, <2>2, <2>3, CallerFacts, FrameStep
<1>6. CASE UNCHANGED cloudVars
  BY <1>1, <1>3, <1>6, CameraKept, CallerFacts, IdleFacts, CallStep DEF cloudVars, TypeOK, PhoneInv
<1> QED
  BY <1>5, <1>6, <1>7 DEF Relay

(* What is cleaned up is given up, the rest is not touched.                *)
LEMMA CleaningStep ==
  ASSUME Inv, DiagOK(diag'), NoNewCamera(diag'), UNCHANGED <<call, phone, spool, undone>>,
         rows' \in [Diags -> SUBSET FrameRow], store' \in [Diags -> [Keys -> Contents \cup {None}]],
         purged \subseteq purged', purged' \subseteq Diags,
         \A d \in Diags : rows'[d] \subseteq rows[d],
         \A d \in Diags \ purged' :
           /\ rows'[d] = rows[d]
           /\ \A i \in Indexes : store'[d][i] = store[d][i]
  PROVE  Inv' /\ NoNewCamera(diag')
<1> USE DEF Inv
<1>1. TypeOK'
  BY DEF TypeOK, DiagOK
<1>2. OneCamera'
  BY CameraKept
<1>3. CallInv' /\ PhoneInv'
  BY DEF CallInv, PhoneInv, WellFormed, OnItsWay
<1>4. RowsInv'
  <2>1. \A d \in Diags : \A f \in rows[d] : f.idx \in Indexes
    BY DEF TypeOK, FrameRow
  <2> QED
    BY <2>1 DEF RowsInv
<1>5. ASSUME NEW g \in Gateways, NEW d \in Diags \ purged', NEW i \in Indexes, spool'[<<g, d, i>>].row = "acked"
      PROVE  InCloud(g, d, i)'
  <2>1. d \in Diags \ purged /\ rows'[d] = rows[d] /\ store'[d][i] = store[d][i] /\ spool' = spool
    OBVIOUS
  <2>2. InCloud(g, d, i)
    BY <1>5, <2>1 DEF AckedInv
  <2> QED
    BY <2>1, <2>2 DEF InCloud
<1>6. AckedInv'
  BY <1>5 DEF AckedInv
<1> QED
  BY <1>1, <1>2, <1>3, <1>4, <1>6

LEMMA CleanupInv == ASSUME Inv, NEW d \in Diags, Cleanup(d) PROVE Inv'
<1> USE DEF Inv
<1>1. purged' = purged \cup {d} /\ UNCHANGED <<diag, rows, call, phone, spool, undone>>
  BY DEF Cleanup, phoneVars
<1>2. PICK F : store' = [store EXCEPT ![d] = [k \in Keys |-> IF \E f \in F : Key(f) = k THEN None ELSE store[d][k]]]
  BY DEF Cleanup
<1> DEFINE new == [k \in Keys |-> IF \E f \in F : Key(f) = k THEN None ELSE store[d][k]]
<1>3. new \in [Keys -> Contents \cup {None}]
  BY DEF TypeOK
<1>4. store' = [store EXCEPT ![d] = new]
  BY <1>2
<1> HIDE DEF new
<1>5. store' \in [Diags -> [Keys -> Contents \cup {None}]] /\ \A e \in Diags \ {d} : store'[e] = store[e]
  BY <1>3, <1>4 DEF TypeOK
<1> QED
  BY <1>1, <1>5, SameDiag, CleaningStep DEF TypeOK

LEMMA RetentionInv == ASSUME Inv, Retention PROVE Inv' /\ NoNewCamera(diag')
<1> USE DEF Inv
<1> DEFINE Expiry == Expired(diag, Stale)
           Dropped == {d \in Diags : ~LastIsPreview(d) /\ \E f \in rows[d] : f.transient}
<1>1. PICK S \in SUBSET {d \in Diags : Expiry[d].status \in Terminal}, P \in SUBSET Dropped :
        /\ diag' = [d \in Diags |-> IF d \in S THEN [Expiry[d] EXCEPT !.status = "removed"] ELSE Expiry[d]]
        /\ rows' = [d \in Diags |-> IF d \in S THEN {} ELSE IF d \in P THEN Durable(rows[d]) ELSE rows[d]]
        /\ store' = [d \in Diags |-> [k \in Keys |->
                      IF (d \in S /\ \E f \in rows[d] : Key(f) = k) \/ (d \in P /\ k = Latest)
                      THEN None ELSE store[d][k]]]
        /\ purged' = purged \cup {d \in S \cup P : rows[d] # {}}
  BY DEF Retention
<1>2. UNCHANGED <<call, phone, spool, undone>> /\ S \subseteq Diags /\ P \subseteq Dropped
  BY DEF Retention, phoneVars
<1>3. DiagOK(Expiry) /\ NoNewCamera(Expiry)
  BY ExpiredOK
<1> HIDE DEF Expiry
<1>4. \A d \in Diags : LET E == [Expiry[d] EXCEPT !.status = "removed"] IN
        /\ E \in Diagnostic /\ E.status = "removed" /\ E.plan = Expiry[d].plan
        /\ E.received = Expiry[d].received
  BY <1>3 DEF DiagOK, Diagnostic
<1>5. diag' \in [Diags -> Diagnostic]
  BY <1>1, <1>3, <1>4 DEF DiagOK
<1>6. DiagOK(diag') /\ NoNewCamera(diag')
  BY <1>1, <1>3, <1>4, <1>5 DEF DiagOK, NoNewCamera
<1>7. rows' \in [Diags -> SUBSET FrameRow] /\ \A d \in Diags : rows'[d] \subseteq rows[d]
  BY <1>1 DEF TypeOK, Durable
<1>8. store' \in [Diags -> [Keys -> Contents \cup {None}]]
  BY <1>1 DEF TypeOK
<1>9. purged \subseteq purged' /\ purged' \subseteq Diags
  BY <1>1, <1>2 DEF TypeOK
<1>10. ASSUME NEW d \in Diags \ purged'
       PROVE  /\ rows'[d] = rows[d]
              /\ \A i \in Indexes : store'[d][i] = store[d][i]
  <2>1. d \notin P /\ (d \in S => rows[d] = {})
    BY <1>1, <1>2
  <2>2. \A i \in Indexes : i \in Keys
    BY DEF Keys
  <2> QED
    BY <1>1, <2>1, <2>2
<1> QED
  BY <1>2, <1>6, <1>7, <1>8, <1>9, <1>10, CleaningStep

-------------------------------------------------------------------------------
LEMMA InitInv == Init => Inv
<1> SUFFICES ASSUME Init PROVE Inv
  OBVIOUS
<1>1. \A d \in Diags : \A p \in Plans : (IF d \in DOMAIN p THEN p[d] ELSE NoPlan) \in Plan
  <2>1. NoPlan \in Plan
    BY DEF NoPlan, Plan, Modes
  <2> QED
    BY <2>1, CameraAssumption
<1>2. PICK p \in Plans :
        diag = [d \in Diags |-> [plan |-> IF d \in DOMAIN p THEN p[d] ELSE NoPlan,
                                status |-> IF d \in DOMAIN p THEN "none" ELSE "removed", owner |-> None,
                                late |-> FALSE, received |-> 0, last |-> NoFrame, clip |-> FALSE]]
  BY DEF Init
<1> DEFINE plan(d) == IF d \in DOMAIN p THEN p[d] ELSE NoPlan
           status(d) == IF d \in DOMAIN p THEN "none" ELSE "removed"
<1>3. \A d \in Diags : plan(d) \in Plan /\ status(d) \in {"none", "removed"}
  BY <1>1
<1>4. \A d \in Diags : diag[d] = [plan |-> plan(d), status |-> status(d), owner |-> None, late |-> FALSE,
                                  received |-> 0, last |-> NoFrame, clip |-> FALSE]
  BY <1>2
<1>5. diag = [d \in Diags |-> diag[d]]
  BY <1>2
<1> HIDE DEF plan, status
<1>6. \A d \in Diags : /\ diag[d] \in Diagnostic /\ diag[d].status \in {"none", "removed"}
                       /\ diag[d].received = 0 /\ diag[d].plan \in Plan
  <2> SUFFICES ASSUME NEW d \in Diags
               PROVE  /\ diag[d] \in Diagnostic /\ diag[d].status \in {"none", "removed"}
                      /\ diag[d].received = 0 /\ diag[d].plan \in Plan
    OBVIOUS
  <2>1. PICK x \in Plan, y \in {"none", "removed"} :
          diag[d] = [plan |-> x, status |-> y, owner |-> None, late |-> FALSE, received |-> 0,
                     last |-> NoFrame, clip |-> FALSE]
    BY <1>3, <1>4
  <2> QED
    BY <2>1 DEF Diagnostic
<1>7. diag \in [Diags -> Diagnostic] /\ \A d \in Diags : diag[d].received <= diag[d].plan.bytes_limit
  BY <1>5, <1>6 DEF Plan
<1>8. TypeOK
  BY <1>7, IdleFacts DEF Init, TypeOK, SpoolSlot
<1>9. OneCamera
  BY <1>6 DEF OneCamera, Accepting
<1>10. CallInv
  BY IdleFacts, CallerFacts DEF Init, CallInv
<1>11. PhoneInv /\ RowsInv /\ AckedInv
  BY DEF Init, PhoneInv, RowsInv, AckedInv, InCloud
<1> QED
  BY <1>8, <1>9, <1>10, <1>11 DEF Inv

LEMMA StutterInv == ASSUME Inv, UNCHANGED vars PROVE Inv'
<1>1. UNCHANGED <<diag, rows, store, purged, call, phone, spool, undone>>
  BY DEF vars, cloudVars, phoneVars
<1> QED
  BY <1>1, SameDiag, CameraKept, CallerFacts, SameRequest, CallStep DEF Inv, TypeOK, PhoneInv

LEMMA NextInv == ASSUME Inv, Next PROVE Inv'
<1>1. ASSUME Administrator PROVE Inv'
  BY <1>1, CreateInv, LoadStopInv, CleanupInv, LoadRelayInv, StopInv, RelayInv, RetentionInv DEF Administrator
<1>2. ASSUME NEW d \in Diags, Lapse(d) PROVE Inv'
  BY <1>2, LapseInv
<1>3. ASSUME NEW g \in Gateways, Gateway(g) PROVE Inv'
  <2>1. CASE Claim(g) \/ Stopped(g) \/ Ack(g) \/ HandleFrame(g) \/ Lose(g)
    BY <2>1, ClaimInv, StoppedInv, AckInv, HandleFrameInv, LoseInv
  <2>2. CASE StopJob(g) \/ Kill(g)
    BY <2>2, StopJobInv, KillInv
  <2>3. ASSUME NEW d \in Diags, StartJob(g, d) PROVE Inv'
    BY <2>3, StartJobInv
  <2>4. ASSUME NEW d \in Diags, NEW i \in Indexes, UploadFrame(g, d, i) PROVE Inv'
    BY <2>4, UploadFrameInv
  <2>5. ASSUME NEW d \in Diags, NEW i \in Indexes, NEW c \in Contents, DeviceFrame(g, d, i, c) PROVE Inv'
    BY <2>5, DeviceFrameInv
  <2>6. ASSUME NEW d \in Diags, NEW i \in Indexes, NEW c \in Contents, NEW body \in Contents,
               DevicePreview(g, d, i, c, body)
        PROVE  Inv'
    BY <2>6, DevicePreviewInv
  <2> QED
    BY <1>3, <2>1, <2>2, <2>3, <2>4, <2>5, <2>6 DEF Gateway
<1> QED
  BY <1>1, <1>2, <1>3, PollPendingInv, ExpireStaleInv DEF Next

(* Whatever is lost, repeated, stale or dies half way, what the diagnostics*)
(* and the phones rely on holds.                                           *)
THEOREM Invariance == Spec => []Inv
<1>1. Inv /\ [Next]_vars => Inv'
  BY NextInv, StutterInv
<1> QED
  BY InitInv, <1>1, PTL DEF Spec

(* Every variable keeps its type, and the counter of bytes its limit.      *)
THEOREM TypeCorrect == Spec => []TypeOK
<1>1. Inv => TypeOK
  BY DEF Inv
<1> QED
  BY Invariance, <1>1, PTL

(* No two diagnostics of the device accept frames at the same time.        *)
THEOREM Exclusion == Spec => []OneCamera
<1>1. Inv => OneCamera
  BY DEF Inv
<1> QED
  BY Invariance, <1>1, PTL

(* What a phone has deleted the cloud has until an administrator cleans it *)
(* up: a row and its object, or the object alone if the commit failed      *)
(* behind the answer.                                                      *)
THEOREM NoFrameLost == Spec => []FrameIsKept
<1>1. Inv => FrameIsKept
  <2> SUFFICES ASSUME Inv, NEW d \in Diags \ purged
               PROVE  /\ \A f, h \in rows[d] : f.idx = h.idx => f = h
                      /\ \A f \in Durable(rows[d]) : store[d][Key(f)] = f.sha
                      /\ \A g \in Gateways, i \in Indexes :
                           spool[<<g, d, i>>].row = "acked" =>
                             LET sha == spool[<<g, d, i>>].sha IN
                               \/ \E f \in rows[d] : f.idx = i /\ f.sha = sha
                               \/ <<g, d, i>> \in undone /\ store[d][i] = sha
    BY DEF FrameIsKept
  <2>1. \A f, h \in rows[d] : f.idx = h.idx => f = h
    BY DEF Inv, RowsInv
  <2>2. \A f \in Durable(rows[d]) : store[d][Key(f)] = f.sha
    BY DEF Inv, RowsInv, Durable, Key
  <2> QED
    BY <2>1, <2>2 DEF Inv, AckedInv, InCloud
<1> QED
  BY Invariance, <1>1, PTL

(* No step but a creation makes a diagnostic accept frames.                *)
LEMMA NextOpens ==
  ASSUME Inv, Next
  PROVE  NoNewCamera(diag') \/ \E d \in Diags : Create(d)
<1>1. ASSUME UNCHANGED diag PROVE NoNewCamera(diag')
  BY <1>1, SameDiag DEF Inv
<1>2. ASSUME Administrator PROVE NoNewCamera(diag') \/ \E d \in Diags : Create(d)
  <2>1. ASSUME NEW d \in Diags, LoadStop(d) \/ Cleanup(d) PROVE NoNewCamera(diag')
    BY <1>1, <2>1 DEF LoadStop, Cleanup, cloudVars
  <2>2. ASSUME NEW d \in Diags, NEW f \in FrameRow, LoadRelay(d, f) PROVE NoNewCamera(diag')
    BY <1>1, <2>2 DEF LoadRelay, cloudVars
  <2> QED
    BY <1>2, <2>1, <2>2, StopInv, RelayInv, RetentionInv DEF Administrator
<1>3. ASSUME NEW g \in Gateways, Gateway(g) PROVE NoNewCamera(diag')
  <2>1. CASE Claim(g) \/ Stopped(g) \/ Ack(g) \/ HandleFrame(g)
    BY <2>1, ClaimInv, StoppedInv, AckInv, HandleFrameInv
  <2>2. CASE Lose(g) \/ StopJob(g) \/ Kill(g)
    BY <1>1, <2>2 DEF Lose, StopJob, Kill, cloudVars
  <2>3. ASSUME NEW d \in Diags, StartJob(g, d) PROVE NoNewCamera(diag')
    BY <1>1, <2>3 DEF StartJob, cloudVars
  <2>4. ASSUME NEW d \in Diags, NEW i \in Indexes, UploadFrame(g, d, i) PROVE NoNewCamera(diag')
    BY <1>1, <2>4 DEF UploadFrame, cloudVars
  <2>5. ASSUME NEW d \in Diags, NEW i \in Indexes, NEW c \in Contents, DeviceFrame(g, d, i, c)
        PROVE  NoNewCamera(diag')
    BY <1>1, <2>5 DEF DeviceFrame, cloudVars
  <2>6. ASSUME NEW d \in Diags, NEW i \in Indexes, NEW c \in Contents, NEW body \in Contents,
               DevicePreview(g, d, i, c, body)
        PROVE  NoNewCamera(diag')
    BY <1>1, <2>6 DEF DevicePreview, cloudVars
  <2> QED
    BY <1>3, <2>1, <2>2, <2>3, <2>4, <2>5, <2>6 DEF Gateway
<1>4. ASSUME NEW d \in Diags, Lapse(d) PROVE NoNewCamera(diag')
  BY <1>4, LapseInv
<1>5. ASSUME PollPending PROVE NoNewCamera(diag')
  BY <1>1, <1>5 DEF PollPending, cloudVars
<1> QED
  BY <1>2, <1>3, <1>4, <1>5, ExpireStaleInv DEF Next

(* A creation opens the diagnostic it creates and no other.                *)
LEMMA CreateOpens ==
  ASSUME Inv, NEW d \in Diags, Create(d), NEW e \in Diags, e # d
  PROVE  ~Accepting(e)'
<1>1. diag' = [Expired(diag, Stale) EXCEPT ![d].status = "REQUESTED"]
  BY DEF Create
<1>2. diag'[e] = Expired(diag, Stale)[e]
  BY <1>1 DEF Expired
<1>3. Expired(diag, Stale)[e].status \notin {"REQUESTED", "ACTIVE"}
  BY DEF Create, Exclusive, Expired, Inv, TypeOK, Diagnostic, Open, Unfinished
<1> QED
  BY <1>2, <1>3 DEF Accepting

(* A diagnostic that is over, or is being stopped, never accepts frames    *)
(* again, whatever a stop or an expiry writes over what it has become.     *)
THEOREM StaysClosed == Spec => NotReopened
<1>1. ASSUME Inv, [Next]_vars, NEW d \in Diags, diag[d].status # "none", ~Accepting(d)
      PROVE  ~Accepting(d)'
  <2>1. CASE NoNewCamera(diag')
    BY <1>1, <2>1 DEF NoNewCamera, Accepting
  <2>2. ASSUME NEW e \in Diags, Create(e) PROVE ~Accepting(d)'
    <3>1. e # d
      BY <1>1, <2>2 DEF Create
    <3> QED
      BY <1>1, <2>2, <3>1, CreateOpens
  <2>3. CASE UNCHANGED vars
    BY <1>1, <2>3 DEF vars, cloudVars, Accepting
  <2> QED
    BY <1>1, <2>1, <2>2, <2>3, NextOpens
<1>2. Inv /\ [Next]_vars =>
        [\A d \in Diags : diag[d].status # "none" /\ ~Accepting(d) => ~Accepting(d)']_vars
  BY <1>1
<1> QED
  BY <1>2, Invariance, PTL DEF Spec, NotReopened
===============================================================================
