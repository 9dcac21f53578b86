--------------------------- MODULE CameraDiagnostics ---------------------------
(***************************************************************************)
(* The camera diagnostics of one device: the rows an administrator         *)
(* creates, stops and cleans up, the gateways that claim them and forward  *)
(* the frames of the ESP32, the objects of the frames, and the leases.     *)
(*                                                                         *)
(* A request first loads the diagnostic without a lock and handles it      *)
(* later under the lock of its row: SELECT ... FOR UPDATE does not refresh *)
(* what the session has already loaded, so what a handler reads is what    *)
(* Load saw, unless it refreshes the row, as the gateway's handlers do     *)
(* after they have checked the owner.  A JPEG is its SHA-256, and each is  *)
(* one unit of the byte quota.                                             *)
(***************************************************************************)
EXTENDS Naturals, FiniteSets

CONSTANTS
  Diags,       \* names of diagnostics
  Gateways,    \* phones provisioned for the device
  Indexes,     \* frame indexes
  Contents,    \* JPEGs
  Plans,       \* the diagnostics a behaviour may have
  None

VARIABLES
  diag,      \* camera_diagnostics
  rows,      \* camera_diagnostic_frames of each
  store,     \* the objects of the bucket
  call,      \* the request of each caller the cloud is working on
  phone,     \* the forwarder of each gateway
  spool,     \* its durable files and Room rows
  purged,    \* history: diagnostics an administrator has cleaned up
  undone     \* history: frames whose transaction failed behind its 2xx

cloudVars == <<diag, rows, store, purged>>
phoneVars == <<phone, spool, undone>>
vars == <<cloudVars, call, phoneVars>>

Modes == {"PHOTO", "CLIP", "PREVIEW"}

(* What a diagnostic is created with, and the frames the ESP and the bench *)
(* have for it; bytes_limit counts JPEGs.                                  *)
Plan == [mode : Modes, max_frames : Nat, bytes_limit : Nat,
         films : SUBSET (Indexes \X Contents), bench : SUBSET (Indexes \X Contents)]
NoPlan == [mode |-> "PHOTO", max_frames |-> 0, bytes_limit |-> 0, films |-> {}, bench |-> {}]

ASSUME CameraAssumption ==
  /\ \A p \in Plans : DOMAIN p \subseteq Diags /\ \A d \in DOMAIN p : p[d] \in Plan
  /\ None \notin Diags \cup Gateways \cup Indexes \cup Contents

Terminal == {"COMPLETED", "FAILED", "EXPIRED"}
Unfinished == {"REQUESTED", "ACTIVE", "STOPPING"}
Statuses == Unfinished \cup Terminal

FrameRow == [idx : Indexes, sha : Contents, transient : BOOLEAN]
NoFrame == [idx |-> None, sha |-> None, transient |-> FALSE]
Diagnostic == [plan : Plan, status : Statuses \cup {"none", "removed"}, owner : Gateways \cup {None},
               late : BOOLEAN, received : Nat, last : FrameRow \cup {NoFrame}, clip : BOOLEAN]

(* preview_key is one key for all the previews of a diagnostic.            *)
Latest == None
Keys == Indexes \cup {Latest}
Key(f) == IF f.transient THEN Latest ELSE f.idx

(* The callers: forwarder and upload workers of a phone, its poll, and the *)
(* administrator.                                                          *)
Callers == (Gateways \X {"control", "upload"}) \cup {<<"any", "poll">>, <<"admin", "http">>}
Poll == <<"any", "poll">>
Admin == <<"admin", "http">>
Control(g) == <<g, "control">>
Upload(g) == <<g, "upload">>

(* The requests of a gateway, of the poll ("pending") and the two of the   *)
(* administrator that load a row first.                                    *)
Ops == {"none", "claim", "stopped", "ack", "frame", "preview", "pending", "stop", "relay"}
Request == [op : Ops, d : Diags \cup {None}, owner : Gateways \cup {None},
            status : Statuses \cup {"none"}, received : Nat, f : FrameRow \cup {NoFrame},
            body : Contents \cup {None}, stale : SUBSET Diags]
Idle == [op |-> "none", d |-> None, owner |-> None, status |-> "none", received |-> 0,
         f |-> NoFrame, body |-> None, stale |-> {}]

Open(d) == diag[d].status \in Unfinished
Accepting(d) == diag[d].status \in {"REQUESTED", "ACTIVE"}
Exists(d) == diag[d].status \in Statuses
Stale == {d \in Diags : Open(d) /\ diag[d].late}

Init ==
  /\ \E p \in Plans :
       diag = [d \in Diags |-> [plan |-> IF d \in DOMAIN p THEN p[d] ELSE NoPlan,
                               status |-> IF d \in DOMAIN p THEN "none" ELSE "removed", owner |-> None,
                               late |-> FALSE, received |-> 0, last |-> NoFrame, clip |-> FALSE]]
  /\ rows = [d \in Diags |-> {}]
  /\ store = [d \in Diags |-> [k \in Keys |-> None]]
  /\ call = [c \in Callers |-> Idle]
  /\ phone = [g \in Gateways |-> [job |-> None, active |-> FALSE]]
  /\ spool = [s \in Gateways \X Diags \X Indexes |-> [file |-> None, row |-> "none", sha |-> None]]
  /\ purged = {}
  /\ undone = {}

-------------------------------------------------------------------------------
(* Creation and leases.                                                    *)

Expired(D, S) == [d \in Diags |-> IF d \in S THEN [D[d] EXCEPT !.status = "EXPIRED"] ELSE D[d]]

(* _assert_exclusive, under the lock of the device, after expire_stale.  A *)
(* session that is not over also refuses a diagnostic, which then simply   *)
(* does not happen; no session looks at the diagnostics when it starts.    *)
Exclusive == \A e \in Diags \ Stale : ~Open(e)

Create(d) ==
  /\ diag[d].status = "none"
  /\ Exclusive
  /\ diag' = [Expired(diag, Stale) EXCEPT ![d].status = "REQUESTED"]
  /\ UNCHANGED <<rows, store, purged, call, phoneVars>>

(* expires_at passes.                                                      *)
Lapse(d) ==
  /\ Open(d) /\ ~diag[d].late
  /\ diag' = [diag EXCEPT ![d].late = TRUE]
  /\ UNCHANGED <<rows, store, purged, call, phoneVars>>

(* The phones' poll, like every other reader, expires what it selected.    *)
PollPending ==
  /\ call[Poll] = Idle
  /\ Stale # {}
  /\ call' = [call EXCEPT ![Poll] = [Idle EXCEPT !.op = "pending", !.stale = Stale]]
  /\ UNCHANGED <<cloudVars, phoneVars>>

(* Mutant: only requests nobody has claimed expire.                        *)
ExpireRequested ==
  /\ call[Poll].op = "pending"
  /\ diag' = Expired(diag, {d \in call[Poll].stale : diag[d].status = "REQUESTED"})
  /\ call' = [call EXCEPT ![Poll] = Idle]
  /\ UNCHANGED <<rows, store, purged, phoneVars>>

ExpireStale ==
  /\ call[Poll].op = "pending"
  /\ diag' = Expired(diag, {d \in call[Poll].stale : Exists(d)})
  /\ call' = [call EXCEPT ![Poll] = Idle]
  /\ UNCHANGED <<rows, store, purged, phoneVars>>

-------------------------------------------------------------------------------
(* Frames in the cloud.                                                    *)

Durable(R) == {f \in R : ~f.transient}

(* convert_clip reads every durable frame; ffmpeg may fail.                *)
Convertible(R, objects) ==
  /\ Cardinality(Durable(R)) >= 2
  /\ \A f \in Durable(R) : objects[Key(f)] # None

(* schedule_clip_conversion: only a clip of all its frames.                *)
ClipDone(d, f, R, objects) ==
  /\ diag[d].plan.mode = "CLIP" /\ ~f.transient
  /\ Cardinality(Durable(R)) >= diag[d].plan.max_frames
  /\ Convertible(R, objects)

(* put_object refuses to replace a durable object; the same is accepted.   *)
Storable(d, f) == f.transient \/ store[d][Key(f)] \in {None, f.sha}

(* What the row the handler holds allows; duplicates were answered before. *)
WithinQuota(d, f, received) ==
  /\ received + 1 <= diag[d].plan.bytes_limit
  /\ f.transient \/ received < diag[d].plan.max_frames \/ Cardinality(rows[d]) < diag[d].plan.max_frames

(* Mutant: a duplicate is known by its index alone.                        *)
IsAnyDuplicate(d, f) == \E r \in rows[d] : r.idx = f.idx

IsDuplicate(d, f) == \E r \in rows[d] : r.idx = f.idx /\ r.sha = f.sha
IsConflict(d, f) == \E r \in rows[d] : r.idx = f.idx /\ r.sha # f.sha

(* ingest_frame of a new frame with the counters `received' that the       *)
(* handler read.  It dies between the object and the commit, or is done.   *)
Store(d, f) ==
  /\ Storable(d, f)
  /\ store' = [store EXCEPT ![d][Key(f)] = f.sha]

Ingest(D, d, f, received) ==
  /\ ~IsConflict(d, f) /\ ~IsDuplicate(d, f)
  /\ WithinQuota(d, f, received)
  /\ Store(d, f)
  /\ rows' = [rows EXCEPT ![d] = @ \cup {f}]
  /\ \E clip \in {D[d].clip, D[d].clip \/ ClipDone(d, f, rows'[d], store'[d])} :
       diag' = [D EXCEPT ![d].received = received + 1, ![d].clip = clip, ![d].last = f]
  /\ UNCHANGED purged

-------------------------------------------------------------------------------
(* Requests of the gateways.                                               *)

Load(c, r) == call[c] = Idle /\ call' = [call EXCEPT ![c] = r]

(* What _load reads before the lock.                                       *)
Loaded(op, d) == [Idle EXCEPT !.op = op, !.d = d, !.owner = diag[d].owner]
LoadedRow(op, d) == [Loaded(op, d) EXCEPT !.status = diag[d].status, !.received = diag[d].received]

(* _require_binding: the owner as it was loaded, the lease as it is now.   *)
(* What it writes goes with the transaction if it answers 410.             *)
Bound(g, r) ==
  /\ Exists(r.d) /\ diag[r.d].status # "EXPIRED" /\ r.d \notin Stale
  /\ r.owner \in {None, g}

(* The rows after it: an owner, and what else has expired.                 *)
AfterBinding(g, r) ==
  [d \in Diags |-> [diag[d] EXCEPT !.status = IF d \in Stale THEN "EXPIRED" ELSE @,
                                  !.owner = IF d = r.d /\ r.owner = None THEN g ELSE @]]

(* Mutant: mark_active trusts that its caller has checked the status.      *)
MarkableIfOpen(d) == Exists(d)

Markable(d) == Accepting(d)

(* claim, and mark_active: 409 unless the diagnostic still accepts frames. *)
(* Every 2xx goes out before its transaction is committed, which may fail. *)
Claim(g) ==
  LET r == call[Control(g)]
      claimed == [AfterBinding(g, r) EXCEPT ![r.d].status = "ACTIVE", ![r.d].owner = g]
  IN
    /\ r.op = "claim"
    /\ call' = [call EXCEPT ![Control(g)] = Idle]
    /\ \/ /\ Bound(g, r) /\ Markable(r.d)
          /\ diag' \in {diag, claimed}
          /\ phone' \in {phone, [phone EXCEPT ![g] = [job |-> r.d, active |-> TRUE]]}
       \/ ~(Bound(g, r) /\ Markable(r.d)) /\ UNCHANGED <<diag, phone>>
    /\ UNCHANGED <<rows, store, purged, spool, undone>>

Closed(D, d, from, to) == IF D[d].status \in from THEN [D EXCEPT ![d].status = to] ELSE D

(* The event STOPPED; whatever is answered, the phone sends the ack.       *)
Stopped(g) ==
  LET r == call[Control(g)] IN
    /\ r.op = "stopped"
    /\ diag' = IF Bound(g, r) THEN Closed(AfterBinding(g, r), r.d, Unfinished, "STOPPING") ELSE diag
    /\ call' = [call EXCEPT ![Control(g)] = [Idle EXCEPT !.op = "ack", !.d = r.d, !.owner = diag'[r.d].owner]]
    /\ UNCHANGED <<rows, store, purged, phoneVars>>

NoJob == [job |-> None, active |-> FALSE]

Ack(g) ==
  LET r == call[Control(g)] IN
    /\ r.op = "ack"
    /\ call' = [call EXCEPT ![Control(g)] = Idle]
    /\ diag' = IF Bound(g, r) THEN Closed(AfterBinding(g, r), r.d, {"STOPPING"}, "COMPLETED") ELSE diag
    /\ phone' = [phone EXCEPT ![g] = NoJob]
    /\ UNCHANGED <<rows, store, purged, spool, undone>>

(* A frame or preview of a gateway.  The body of a preview may be a later  *)
(* JPEG than its header says: the phone overwrites the one file.           *)
Admits(g, r) ==
  /\ Bound(g, r) /\ Accepting(r.d)
  /\ r.op = "preview" => diag[r.d].plan.mode = "PREVIEW" /\ r.body = r.f.sha

New(d, f, received) == ~IsDuplicate(d, f) /\ ~IsConflict(d, f) /\ WithinQuota(d, f, received) /\ Storable(d, f)

(* The 2xx of a frame: the phone marks its row and deletes its file.       *)
Acknowledged(g, r) ==
  [spool EXCEPT ![<<g, r.d, r.f.idx>>].row = "acked", ![<<g, r.d, r.f.idx>>].file = None]

(* A transaction that is not committed, because the cloud dies or because  *)
(* the commit fails behind the 2xx, leaves the object without its row.     *)
HandleFrame(g) ==
  LET r == call[Upload(g)]
      received == diag[r.d].received
      Heard == r.op = "frame" /\ spool' = Acknowledged(g, r)
  IN
    /\ r.op \in {"frame", "preview"}
    /\ call' = [call EXCEPT ![Upload(g)] = Idle]
    /\ \/ /\ Admits(g, r)
          /\ \/ Ingest(AfterBinding(g, r), r.d, r.f, received)
             \/ /\ IsDuplicate(r.d, r.f)
                /\ diag' \in {diag, AfterBinding(g, r)}
                /\ UNCHANGED <<rows, store, purged>>
          /\ UNCHANGED spool \/ Heard
          /\ UNCHANGED undone
       \/ /\ Admits(g, r) /\ New(r.d, r.f, received)
          /\ Store(r.d, r.f)
          /\ \/ UNCHANGED <<spool, undone>>
             \/ Heard /\ undone' = undone \cup {<<g, r.d, r.f.idx>>}
          /\ UNCHANGED <<diag, rows, purged>>
       \/ /\ ~(Admits(g, r) /\ (IsDuplicate(r.d, r.f) \/ New(r.d, r.f, received)))
          /\ UNCHANGED <<cloudVars, spool, undone>>
    /\ UNCHANGED phone

(* A request that never reaches the cloud, or is not committed there.      *)
Lose(g) ==
  /\ \/ /\ call[Control(g)].op = "stopped"
        /\ call' = [call EXCEPT ![Control(g)] = Loaded("ack", call[Control(g)].d)]
        /\ UNCHANGED phone
     \/ /\ call[Control(g)].op = "ack"
        /\ call' = [call EXCEPT ![Control(g)] = Idle]
        /\ phone' = [phone EXCEPT ![g] = NoJob]
     \/ \E c \in {Control(g), Upload(g)} :
          /\ call[c].op \in {"claim", "frame", "preview"}
          /\ call' = [call EXCEPT ![c] = Idle]
          /\ UNCHANGED phone
  /\ UNCHANGED <<cloudVars, spool, undone>>

-------------------------------------------------------------------------------
(* The administrator.                                                      *)

LoadStop(d) ==
  /\ Open(d)
  /\ Load(Admin, LoadedRow("stop", d))
  /\ UNCHANGED <<cloudVars, phoneVars>>

(* The row is written whatever it has become since, and the clip is made   *)
(* of the frames that are there.                                           *)
Stop ==
  LET d == call[Admin].d IN
    /\ call[Admin].op = "stop"
    /\ call' = [call EXCEPT ![Admin] = Idle]
    /\ IF ~Exists(d) THEN UNCHANGED diag
       ELSE \E clip \in {diag[d].clip} \cup {diag[d].plan.mode = "CLIP" /\ Convertible(rows[d], store[d])} :
              /\ diag[d].clip => clip
              /\ diag' = [diag EXCEPT ![d].clip = clip,
                            ![d].status = IF call[Admin].status = "STOPPING" THEN @ ELSE "STOPPING"]
    /\ UNCHANGED <<rows, store, purged, phoneVars>>

(* The bench relay: no owner, no lease, and the row as it was loaded; what *)
(* is loaded closed is refused.                                            *)
LoadRelay(d, f) ==
  /\ Accepting(d) /\ <<f.idx, f.sha>> \in diag[d].plan.bench
  /\ Load(Admin, [LoadedRow("relay", d) EXCEPT !.f = f])
  /\ UNCHANGED <<cloudVars, phoneVars>>

Relay ==
  LET r == call[Admin] IN
    /\ r.op = "relay"
    /\ call' = [call EXCEPT ![Admin] = Idle]
    /\ \/ /\ Exists(r.d) /\ r.status \in {"REQUESTED", "ACTIVE"}
          /\ \/ Ingest(diag, r.d, r.f, r.received)
             \/ New(r.d, r.f, r.received) /\ Store(r.d, r.f) /\ UNCHANGED <<diag, rows, purged>>
       \/ UNCHANGED cloudVars
    /\ UNCHANGED phoneVars

LastIsPreview(d) == diag[d].last.transient

(* cleanup_diagnostic_storage: the objects go, the rows stay; a deletion   *)
(* may fail.                                                               *)
Cleanup(d) ==
  /\ Exists(d) /\ rows[d] # {}
  /\ \E F \in SUBSET {f \in rows[d] : ~(f.transient /\ LastIsPreview(d))} :
       store' = [store EXCEPT ![d] = [k \in Keys |-> IF \E f \in F : Key(f) = k THEN None ELSE @[k]]]
  /\ purged' = purged \cup {d}
  /\ UNCHANGED <<diag, rows, call, phoneVars>>

(* Retention: diagnostics that are over and old or too many, and previews  *)
(* that are old and not the last.                                          *)
Retention ==
  LET Expiry == Expired(diag, Stale)
      Dropped == {d \in Diags : ~LastIsPreview(d) /\ \E f \in rows[d] : f.transient} IN
    /\ \E S \in SUBSET {d \in Diags : Expiry[d].status \in Terminal}, P \in SUBSET Dropped :
         /\ S \cup P # {}
         /\ diag' = [d \in Diags |-> IF d \in S THEN [Expiry[d] EXCEPT !.status = "removed"] ELSE Expiry[d]]
         /\ rows' = [d \in Diags |-> IF d \in S THEN {} ELSE IF d \in P THEN Durable(rows[d]) ELSE rows[d]]
         /\ store' = [d \in Diags |-> [k \in Keys |->
                       IF (d \in S /\ \E f \in rows[d] : Key(f) = k) \/ (d \in P /\ k = Latest)
                       THEN None ELSE store[d][k]]]
         /\ purged' = purged \cup {d \in S \cup P : rows[d] # {}}
    /\ UNCHANGED <<call, phoneVars>>

-------------------------------------------------------------------------------
(* The forwarder of a phone.                                               *)

(* The poll and the ESP name a diagnostic; one job at a time, claimed.     *)
StartJob(g, d) ==
  /\ Exists(d)
  /\ ~phone[g].active
  /\ Load(Control(g), Loaded("claim", d))
  /\ UNCHANGED <<cloudVars, phoneVars>>

(* stopLocked, at the deadline or by the ESP: the event, then the ack.     *)
StopJob(g) ==
  /\ phone[g].active
  /\ Load(Control(g), Loaded("stopped", phone[g].job))
  /\ phone' = [phone EXCEPT ![g].active = FALSE]
  /\ UNCHANGED <<cloudVars, spool, undone>>

(* The process ends: the job is forgotten, the spool is not.               *)
Kill(g) ==
  /\ call[Control(g)] = Idle /\ phone[g].job # None
  /\ phone' = [phone EXCEPT ![g] = NoJob]
  /\ UNCHANGED <<cloudVars, call, spool, undone>>

Forwards(g, d) == phone[g].active /\ phone[g].job = d

(* onDurableFrame: a file that exists is never replaced, and save answers  *)
(* with the row it finds; a file save does not register stays.  (A frame   *)
(* sent again after its ack leaves one more such file.)                    *)
DeviceFrame(g, d, i, c) ==
  LET s == spool[<<g, d, i>>] IN
    /\ Forwards(g, d) /\ diag[d].plan.mode # "PREVIEW" /\ <<i, c>> \in diag[d].plan.films
    /\ s.file = None /\ s.row # "acked"
    /\ \/ /\ s.row = "none"
          /\ spool' = [spool EXCEPT ![<<g, d, i>>] = [file |-> c, row |-> "pending", sha |-> c]]
       \/ spool' = [spool EXCEPT ![<<g, d, i>>].file = c]
    /\ UNCHANGED <<cloudVars, call, phone, undone>>

(* UploadWorker: the row and an intact file of it.                         *)
UploadFrame(g, d, i) ==
  LET s == spool[<<g, d, i>>] IN
    /\ s.row = "pending" /\ s.file = s.sha
    /\ Load(Upload(g), [Loaded("frame", d) EXCEPT !.body = s.file,
                        !.f = [idx |-> i, sha |-> s.sha, transient |-> FALSE]])
    /\ UNCHANGED <<cloudVars, phoneVars>>

DevicePreview(g, d, i, c, body) ==
  /\ Forwards(g, d) /\ diag[d].plan.mode = "PREVIEW" /\ <<i, c>> \in diag[d].plan.films
  /\ Load(Upload(g), [Loaded("preview", d) EXCEPT !.body = body,
                      !.f = [idx |-> i, sha |-> c, transient |-> TRUE]])
  /\ UNCHANGED <<cloudVars, phoneVars>>

-------------------------------------------------------------------------------
Gateway(g) ==
  \/ Claim(g) \/ Stopped(g) \/ Ack(g) \/ HandleFrame(g) \/ Lose(g)
  \/ StopJob(g) \/ Kill(g)
  \/ \E d \in Diags : StartJob(g, d)
  \/ \E d \in Diags, i \in Indexes : UploadFrame(g, d, i)
  \/ \E d \in Diags, i \in Indexes, c \in Contents : DeviceFrame(g, d, i, c)
  \/ \E d \in Diags, i \in Indexes, c, body \in Contents : DevicePreview(g, d, i, c, body)

Administrator ==
  \/ \E d \in Diags : Create(d) \/ LoadStop(d) \/ Cleanup(d)
  \/ \E d \in Diags, f \in FrameRow : LoadRelay(d, f)
  \/ Stop \/ Relay \/ Retention

Next ==
  \/ PollPending \/ ExpireStale \/ Administrator
  \/ \E d \in Diags : Lapse(d)
  \/ \E g \in Gateways : Gateway(g)

(* Leases run out, the phones poll every ten seconds and the cloud answers.*)
Fairness == WF_vars(PollPending) /\ WF_vars(ExpireStale) /\ \A d \in Diags : WF_vars(Lapse(d))

Spec == Init /\ [][Next]_vars /\ Fairness

-------------------------------------------------------------------------------
SpoolSlot == [file : Contents \cup {None}, row : {"none", "pending", "acked"}, sha : Contents \cup {None}]

(* Types; the counter of bytes, which every request writes back as it read *)
(* it plus its own, stays within bytes_limit.                              *)
TypeOK ==
  /\ diag \in [Diags -> Diagnostic] /\ \A d \in Diags : diag[d].received <= diag[d].plan.bytes_limit
  /\ rows \in [Diags -> SUBSET FrameRow]
  /\ store \in [Diags -> [Keys -> Contents \cup {None}]]
  /\ call \in [Callers -> Request]
  /\ phone \in [Gateways -> [job : Diags \cup {None}, active : BOOLEAN]]
  /\ spool \in [Gateways \X Diags \X Indexes -> SpoolSlot]
  /\ purged \subseteq Diags
  /\ undone \subseteq Gateways \X Diags \X Indexes

(* At most one diagnostic of the device accepts frames, although the stop  *)
(* of an administrator and the expiry write over rows they read before, so *)
(* that a diagnostic may be unfinished again beside a newer one.           *)
OneCamera == \A d, e \in Diags : Accepting(d) /\ Accepting(e) => d = e

(* A diagnostic that has been stopped or is over never accepts frames      *)
(* again, although the stop of an administrator and an expiry write over   *)
(* what they read of it before.                                            *)
NotReopened == [][\A d \in Diags : diag[d].status # "none" /\ ~Accepting(d) => ~Accepting(d)']_vars

(* Unless an administrator has cleaned it up: an index has one row, its    *)
(* object is the JPEG of the row, and a phone deletes a file only when the *)
(* cloud has a row of that JPEG, whatever is lost, repeated or dies        *)
(* between the object and the commit.  If the commit has failed behind the *)
(* answer there is no row; the JPEG is in the bucket all the same.         *)
FrameIsKept ==
  \A d \in Diags \ purged :
    /\ \A f, h \in rows[d] : f.idx = h.idx => f = h
    /\ \A f \in Durable(rows[d]) : store[d][Key(f)] = f.sha
    /\ \A g \in Gateways, i \in Indexes :
         LET sha == spool[<<g, d, i>>].sha IN
           spool[<<g, d, i>>].row = "acked" =>
             \/ \E f \in rows[d] : f.idx = i /\ f.sha = sha
             \/ <<g, d, i>> \in undone /\ store[d][i] = sha

(* A diagnostic never holds the camera for ever: lost stops, lost acks and *)
(* dead phones are ended by the lease.                                     *)
CameraFreed == \A d \in Diags : Open(d) ~> ~Open(d)
===============================================================================
