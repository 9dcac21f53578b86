-------------------------- MODULE SessionStart_proofs --------------------------
(***************************************************************************)
(* Proofs about SessionStart for any number of requests, connections,      *)
(* phones, administrators, versions and revisions.                         *)
(*                                                                         *)
(* None of the three properties is inductive.  What a transaction has read *)
(* and not yet written has to be right when it commits: the version an     *)
(* administrator has sent is the current one (SettingsInv), the number a   *)
(* revision gets is the next one as long as the lock of its scope is held  *)
(* (ProfileInv), and the session a request is going to write or to answer  *)
(* is of its own phone and device under an id no other request has         *)
(* (RequestInv).                                                           *)
(***************************************************************************)
EXTENDS SessionStart, FiniteSetTheorems, SequenceTheorems, TLAPS

-------------------------------------------------------------------------------
(* Settings.                                                               *)

(* The history of the settings has one content per version and ends with   *)
(* the current one; sessions hold something of that history.  A form may   *)
(* hold an answer that never came into force.                              *)
HistoryInv ==
  /\ settings \in published
  /\ \A s \in published : s.version <= settings.version
  /\ \A s, t \in published : s.version = t.version => s = t
  /\ \A i \in Ids : sessions[i].settings \in published

(* Under the lock of its row the one editor has the current version and    *)
(* writes the next.                                                        *)
EditInv ==
  /\ \A a \in Admins : editing[a] # NotEditing =>
       /\ editing[a].sent.version = settings.version
       /\ editing[a].new.version = settings.version + 1
       /\ settings.version > 0
       /\ \A b \in Admins : editing[b] # NotEditing => b = a
  /\ \A u \in accepted : u.replaced \in published /\ u.loaded.version = u.replaced.version

SettingsInv == HistoryInv /\ EditInv

-------------------------------------------------------------------------------
(* Profiles.                                                               *)

(* Revisions are numbered 1 .. n, and the n-th is the active one.          *)
Numbered(rows) ==
  \A i \in DOMAIN rows : rows[i].revision = i /\ (rows[i].active <=> i = Len(rows))

(* Who holds the lock of a scope is alone, and knows its latest revision.  *)
ProfileInv ==
  /\ \A sc \in Scopes : Numbered(profiles[sc])
  /\ \A a \in Admins : creating[a] # NotCreating =>
       /\ creating[a].scope \in Scopes
       /\ creating[a].latest = Len(profiles[creating[a].scope])
       /\ \A b \in Admins : creating[b].scope = creating[a].scope => b = a
       /\ \A c \in Connections : "scope" \in req[c].held => creating[a].scope # Global
  /\ \A c, o \in Connections : "scope" \in req[c].held /\ "scope" \in req[o].held => c = o

-------------------------------------------------------------------------------
(* Requests.                                                               *)

(* What an exam, or another session, may be bound to.                      *)
Bindable(kind) == IF scene.v2 /\ kind = "EXAM" THEN 1 .. Len(profiles[Global]) ELSE {0}

(* The locks a request holds at each point, and the row it has prepared.   *)
Locking(q) ==
  /\ q.pc = "locking" =>
       \/ q.held = {}
       \/ q.held = {"gateway"} /\ q.kind \in Starts \cup {"HEARTBEAT"}
       \/ q.held = {"session"} /\ q.kind \in Ends
       \/ q.held = {"session", "device"} /\ q.kind = "CANCEL"
  /\ q.pc \in {"locking", "resolve"} => q.row = NoSession
  /\ q.pc = "scope" => q.row # NoSession /\ q.row.kind = "EXAM" /\ scene.v2
  /\ q.default => "scope" \in q.held
  /\ "scope" \in q.held =>
       /\ q.pc = "commit" /\ q.default
       /\ q.latest = Len(profiles[Global])
       /\ q.row # NoSession /\ q.row.profile = q.latest + 1
       /\ q.row.kind = "EXAM" /\ scene.v2

(* The id of a request is its own and not used before; the session it      *)
(* writes or answers is that of its phone and device.                      *)
Sound(c, q) ==
  /\ q.id <= stamp
  /\ sessions[q.id] = NoSession
  /\ q.row.settings \in published
  /\ Locking(q)
  /\ q.pc = "commit" /\ q.row # NoSession /\ "scope" \notin q.held =>
       q.row.profile \in Bindable(q.row.kind)
  /\ q.pc = "commit" /\ q.row = NoSession /\ q.answer # None =>
       sessions[q.answer].gateway = Gateway(c) /\ sessions[q.answer].device = q.device

RequestInv ==
  /\ \A c \in Connections : req[c] # Idle => Sound(c, req[c])
  /\ \A c, o \in Connections : req[c] # Idle /\ req[o] # Idle /\ req[c].id = req[o].id => c = o
  /\ \A s \in Ids : sessions[s] # NoSession => s <= stamp
  /\ \A s \in Ids : sessions[s].profile \in Bindable(sessions[s].kind)

Inv == TypeOK /\ SettingsInv /\ ProfileInv /\ RequestInv

-------------------------------------------------------------------------------

LEMMA Absent ==
  /\ NoSession \notin Session
  /\ Idle \notin Request
  /\ \A c, q : q \in Request /\ q.row # NoSession => q.row \in Session
  /\ NoSettings \in Settings /\ NotEditing \in Edit
  /\ None \notin Gateways /\ None \notin Scopes /\ Global \in Scopes
  BY StartAssumption DEF NoSession, Session, Idle, Request, NoSettings, NotEditing, Edit, Settings, Scopes

(* A new revision behind the latest one takes its place.                   *)
LEMMA ReviseNumbered ==
  ASSUME NEW rows \in Seq(Revision), Numbered(rows), NEW default \in BOOLEAN
  PROVE  /\ Revise(rows, Len(rows), default) \in Seq(Revision)
         /\ Len(Revise(rows, Len(rows), default)) = Len(rows) + 1
         /\ Numbered(Revise(rows, Len(rows), default))
<1> DEFINE n == Len(rows)
           old == [i \in DOMAIN rows |-> IF i = n THEN [rows[i] EXCEPT !.active = FALSE] ELSE rows[i]]
           new == [revision |-> n + 1, active |-> TRUE, default |-> default]
<1>1. n \in Nat /\ DOMAIN rows = 1 .. n /\ \A i \in 1 .. n : rows[i] \in Revision
  BY LenProperties, ElementOfSeq
<1>2. \A i \in 1 .. n : /\ old[i] \in Revision
                        /\ old[i].revision = i
                        /\ ~old[i].active
  <2> SUFFICES ASSUME NEW i \in 1 .. n
               PROVE  old[i] \in Revision /\ old[i].revision = i /\ ~old[i].active
    OBVIOUS
  <2>1. rows[i] \in Revision /\ rows[i].revision = i /\ (rows[i].active <=> i = n)
    BY <1>1 DEF Numbered
  <2>2. PICK active \in BOOLEAN, first \in BOOLEAN :
          rows[i] = [revision |-> i, active |-> active, default |-> first]
    BY <2>1 DEF Revision
  <2>3. old[i] = IF i = n THEN [rows[i] EXCEPT !.active = FALSE] ELSE rows[i]
    BY <1>1
  <2>4. CASE i = n
    <3>1. \A b : [rows[i] EXCEPT !.active = b] = [revision |-> i, active |-> b, default |-> first]
      BY <2>2
    <3>2. old[i] = [revision |-> i, active |-> FALSE, default |-> first]
      BY <2>3, <2>4, <3>1, Zenon
    <3> HIDE DEF old
    <3> QED
      BY <1>1, <3>2 DEF Revision
  <2>5. CASE i # n
    BY <2>1, <2>3, <2>5
  <2> QED
    BY <2>4, <2>5
<1>3. old \in Seq(Revision) /\ Len(old) = n
  BY <1>1, <1>2, IsASeq, LenProperties
<1>4. new \in Revision /\ new.revision = n + 1 /\ new.active
  BY <1>1 DEF Revision
<1>5. Revise(rows, n, default) = Append(old, new)
  BY DEF Revise
<1> HIDE DEF old, new
<1>6. /\ Append(old, new) \in Seq(Revision)
      /\ Len(Append(old, new)) = n + 1
      /\ \A i \in 1 .. n : Append(old, new)[i] = old[i]
      /\ Append(old, new)[n + 1] = new
  BY <1>3, <1>4, AppendProperties
<1>7. DOMAIN Append(old, new) = 1 .. n + 1
  BY <1>6, LenProperties
<1>8. Numbered(Append(old, new))
  <2> SUFFICES ASSUME NEW i \in 1 .. n + 1
               PROVE  /\ Append(old, new)[i].revision = i
                      /\ Append(old, new)[i].active <=> i = n + 1
    BY <1>6, <1>7 DEF Numbered
  <2>1. CASE i \in 1 .. n
    BY <1>1, <1>2, <1>6, <2>1
  <2>2. CASE i = n + 1
    BY <1>4, <1>6, <2>2
  <2>3. i \in 1 .. n \/ i = n + 1
    BY <1>1
  <2> QED
    BY <2>1, <2>2, <2>3
<1> QED
  BY <1>5, <1>6, <1>8

LEMMA LenOfScope ==
  ASSUME TypeOK, NEW sc \in Scopes
  PROVE  profiles[sc] \in Seq(Revision) /\ Len(profiles[sc]) \in Nat
  BY LenProperties DEF TypeOK

-------------------------------------------------------------------------------
(* A request that moves on and writes nothing yet.                         *)
LEMMA RequestStep ==
  ASSUME Inv, NEW c \in Connections, NEW q, req' = [req EXCEPT ![c] = q],
         UNCHANGED <<scene, registered, sessions, stamp, settingsVars, profileVars>>,
         q # Idle => /\ q \in Request /\ req[c] # Idle /\ q.id = req[c].id /\ Sound(c, q)
                     /\ "scope" \in q.held => "scope" \in req[c].held \/ ScopeIsFree(Global)
  PROVE  Inv'
<1> USE DEF Inv
<1>1. \A o \in Connections : req'[o] = IF o = c THEN q ELSE req[o]
  BY DEF TypeOK
<1>2. TypeOK'
  BY DEF TypeOK, settingsVars, profileVars
<1>3. SettingsInv'
  BY DEF SettingsInv, HistoryInv, EditInv, settingsVars
<1>4. "scope" \notin Idle.held
  BY DEF Idle
<1>5. ASSUME NEW a \in Admins, creating[a] # NotCreating, NEW o \in Connections, "scope" \in req'[o].held
      PROVE  creating[a].scope # Global
  BY <1>1, <1>4, <1>5 DEF ProfileInv, ScopeIsFree
<1>6. ASSUME NEW o \in Connections, NEW x \in Connections, "scope" \in req'[o].held, "scope" \in req'[x].held
      PROVE  o = x
  <2>1. ASSUME ScopeIsFree(Global), NEW y \in Connections PROVE "scope" \notin req[y].held
    BY <2>1 DEF ScopeIsFree
  <2> QED
    BY <1>1, <1>4, <1>6, <2>1 DEF ProfileInv
<1>7. UNCHANGED <<profiles, creating>>
  BY DEF profileVars
<1>8. ProfileInv'
  BY <1>5, <1>6, <1>7 DEF ProfileInv
<1>9. ASSUME NEW o \in Connections, req'[o] # Idle PROVE Sound(o, req[o])'
  <2>1. Sound(o, req'[o])
    BY <1>1, <1>9 DEF RequestInv
  <2> QED
    BY <2>1 DEF Sound, Locking, Bindable, Gateway, settingsVars, profileVars
<1>10. ASSUME NEW o \in Connections, NEW x \in Connections, req'[o] # Idle, req'[x] # Idle,
              req'[o].id = req'[x].id
       PROVE  o = x
  BY <1>1, <1>10 DEF RequestInv
<1>11. RequestInv'
  BY <1>9, <1>10 DEF RequestInv, Bindable, profileVars
<1> QED
  BY <1>2, <1>3, <1>8, <1>11

LEMMA RequestAt ==
  ASSUME Inv, NEW c \in Connections, req[c] # Idle
  PROVE  req[c] \in Request /\ Sound(c, req[c]) /\ Locking(req[c])
  BY DEF Inv, TypeOK, RequestInv, Sound

LEMMA RollBackInv == ASSUME Inv, NEW c \in Connections, RollBack(c) PROVE Inv'
  BY RequestStep DEF RollBack

(* The lock a request needs next, by the locks it holds.                   *)
LEMMA NextLock ==
  ASSUME NEW q \in Request, Locking(q), q.pc = "locking"
  PROVE  LET order == LockOrder(q.kind)
             lock == order[Cardinality(q.held) + 1]
             done == Cardinality(q.held) + 1 = Len(order)
         IN  /\ lock \in {"session", "gateway", "device"}
             /\ q.held = {} =>
                  /\ lock = IF q.kind \in Ends THEN "session" ELSE "gateway"
                  /\ done <=> q.kind = "HELLO"
             /\ q.held = {"gateway"} => lock = "device" /\ done
             /\ q.held = {"session"} =>
                  /\ lock = IF q.kind = "CANCEL" THEN "device" ELSE "gateway"
                  /\ done <=> q.kind = "END"
             /\ q.held = {"session", "device"} => lock = "gateway" /\ done
<1>1. Cardinality({}) = 0
  BY FS_EmptySet
<1>2. Cardinality({"gateway"}) = 1 /\ Cardinality({"session"}) = 1
  BY FS_Singleton
<1>3. Cardinality({"session", "device"}) = 2
  <2>1. {"session", "device"} = {"session"} \cup {"device"} /\ "device" \notin {"session"}
    OBVIOUS
  <2>2. IsFiniteSet({"session"}) /\ Cardinality({"session"}) = 1
    BY FS_Singleton
  <2>3. Cardinality({"session"} \cup {"device"}) = Cardinality({"session"}) + 1
    BY <2>1, <2>2, FS_AddElement
  <2> QED
    BY <2>1, <2>2, <2>3
<1>4. q.kind \in Starts \cup Ends \cup {"HEARTBEAT", "HELLO"}
  BY DEF Request, Kinds
<1>5. CASE q.held = {}
  <2>1. Cardinality(q.held) + 1 = 1
    BY <1>1, <1>5
  <2> QED
    BY <1>4, <1>5, <2>1 DEF LockOrder, Ordered, Starts, Ends
<1>6. CASE q.held = {"gateway"} /\ q.kind \in Starts \cup {"HEARTBEAT"}
  <2>1. Cardinality(q.held) + 1 = 2
    BY <1>2, <1>6
  <2>2. LockOrder(q.kind) = <<"gateway", "device">>
    BY <1>6 DEF LockOrder, Ordered, Starts
  <2> QED
    BY <1>6, <2>1, <2>2
<1>7. CASE q.held = {"session"} /\ q.kind \in Ends
  <2>1. Cardinality(q.held) + 1 = 2
    BY <1>2, <1>7
  <2> QED
    BY <1>7, <2>1 DEF LockOrder, Ordered, Ends
<1>8. CASE q.held = {"session", "device"} /\ q.kind = "CANCEL"
  <2>1. Cardinality(q.held) + 1 = 3
    BY <1>3, <1>8
  <2>2. LockOrder(q.kind) = <<"session", "device", "gateway">>
    BY <1>8 DEF LockOrder, Ordered
  <2>3. "device" \in q.held /\ q.held # {} /\ q.held # {"gateway"} /\ q.held # {"session"}
    BY <1>8
  <2>4. LockOrder(q.kind)[3] = "gateway" /\ Len(LockOrder(q.kind)) = 3
    BY <2>2
  <2> QED
    BY <2>1, <2>3, <2>4
<1> QED
  BY <1>5, <1>6, <1>7, <1>8 DEF Locking

LEMMA TakeLockInv == ASSUME Inv, NEW c \in Connections, TakeLock(c) PROVE Inv'
<1> DEFINE r == req[c]
           order == LockOrder(r.kind)
           lock == order[Cardinality(r.held) + 1]
           done == Cardinality(r.held) + 1 = Len(order)
           refused == lock = "device" /\ r.device \in scene.disabled /\ r.kind \in Starts
           pc == IF done THEN "resolve" ELSE r.pc
           q == [r EXCEPT !.held = r.held \cup {lock}, !.pc = pc]
<1>1. r.pc = "locking" /\ r # Idle
  BY DEF TakeLock, Idle
<1>2. r \in Request /\ Sound(c, r) /\ Locking(r)
  BY <1>1, RequestAt
<1>3. \/ r.held = {}
      \/ r.held = {"gateway"} /\ r.kind \in Starts \cup {"HEARTBEAT"}
      \/ r.held = {"session"} /\ r.kind \in Ends
      \/ r.held = {"session", "device"} /\ r.kind = "CANCEL"
  BY <1>1, <1>2 DEF Locking
<1>4. r.kind \in Starts \cup Ends \cup {"HEARTBEAT", "HELLO"}
  BY <1>2 DEF Request, Kinds
<1>5. /\ lock \in {"session", "gateway", "device"}
      /\ r.held = {} => lock = (IF r.kind \in Ends THEN "session" ELSE "gateway") /\ (done <=> r.kind = "HELLO")
      /\ r.held = {"gateway"} => lock = "device" /\ done
      /\ r.held = {"session"} => lock = (IF r.kind = "CANCEL" THEN "device" ELSE "gateway") /\ (done <=> r.kind = "END")
      /\ r.held = {"session", "device"} => lock = "gateway" /\ done
  BY <1>1, <1>2, NextLock
<1>6. req' = [req EXCEPT ![c] = IF refused THEN Idle ELSE q]
  BY DEF TakeLock
<1> HIDE DEF lock, done, refused
<1>7. /\ q \in Request /\ q.id = r.id /\ q.held = r.held \cup {lock} /\ q.pc = pc
      /\ q.row = r.row /\ q.default = r.default /\ q.kind = r.kind
  BY <1>1, <1>2, <1>5 DEF Request, Locks
<1> HIDE DEF q
<1>8. "scope" \notin q.held
  BY <1>3, <1>5, <1>7
<1>9. Locking(q)
  <2>1. q.pc = "locking" =>
          \/ q.held = {"gateway"} /\ q.kind \in Starts \cup {"HEARTBEAT"}
          \/ q.held = {"session"} /\ q.kind \in Ends
          \/ q.held = {"session", "device"} /\ q.kind = "CANCEL"
    <3> SUFFICES ASSUME q.pc = "locking"
                 PROVE  \/ q.held = {"gateway"} /\ q.kind \in Starts \cup {"HEARTBEAT"}
                        \/ q.held = {"session"} /\ q.kind \in Ends
                        \/ q.held = {"session", "device"} /\ q.kind = "CANCEL"
      OBVIOUS
    <3>1. ~done
      BY <1>7
    <3>2. CASE r.held = {}
      BY <1>4, <1>5, <1>7, <3>1, <3>2
    <3>3. CASE r.held = {"session"} /\ r.kind \in Ends
      BY <1>5, <1>7, <3>1, <3>3 DEF Ends
    <3> QED
      BY <1>3, <1>5, <3>1, <3>2, <3>3
  <2>2. q.row = NoSession /\ q.pc \in {"locking", "resolve"} /\ ~q.default
    BY <1>1, <1>2, <1>3, <1>7 DEF Locking
  <2> QED
    BY <1>8, <2>1, <2>2 DEF Locking
<1>10. Sound(c, q)
  <2>1. q.pc # "commit"
    BY <1>1, <1>7
  <2> QED
    BY <1>1, <1>2, <1>7, <1>9, <2>1 DEF Sound
<1> QED
  BY <1>1, <1>6, <1>7, <1>8, <1>10, RequestStep DEF TakeLock

(* The session of this connection a request has found, or will create.     *)
LEMMA AnswerInv ==
  ASSUME Inv, NEW c \in Connections, req[c].pc = "resolve", NEW s \in Ids \cup {None},
         NEW row \in Session \cup {NoSession}, NEW pc \in {"scope", "commit"}, Answers(c, s, row, pc),
         UNCHANGED <<scene, registered, sessions, stamp, settingsVars, profileVars>>,
         row.settings \in published,
         row = NoSession => pc = "commit" /\ (s # None => Own(c, s)),
         row # NoSession /\ pc = "commit" => row.profile \in Bindable(row.kind),
         pc = "scope" => row.kind = "EXAM" /\ scene.v2
  PROVE  Inv'
<1> DEFINE q == [req[c] EXCEPT !.answer = s, !.row = row, !.pc = pc]
<1>1. req[c] # Idle
  BY DEF Idle
<1>2. req[c] \in Request /\ Sound(c, req[c]) /\ Locking(req[c])
  BY <1>1, RequestAt
<1>3. req' = [req EXCEPT ![c] = q]
  BY DEF Answers, Inv, TypeOK
<1>4. /\ q \in Request /\ q.id = req[c].id /\ q.held = req[c].held /\ q.pc = pc /\ q.row = row
      /\ q.answer = s /\ q.default = req[c].default /\ q.device = req[c].device
  BY <1>2 DEF Request
<1> HIDE DEF q
<1>5. "scope" \notin q.held /\ ~q.default
  BY <1>2, <1>4 DEF Locking
<1>6. Sound(c, q)
  BY <1>2, <1>4, <1>5 DEF Sound, Locking, Own
<1> QED
  BY <1>1, <1>3, <1>4, <1>5, <1>6, RequestStep

LEMMA RefusedInv ==
  ASSUME Inv, NEW c \in Connections, Refused(c),
         UNCHANGED <<scene, registered, sessions, stamp, settingsVars, profileVars>>
  PROVE  Inv'
  BY RequestStep DEF Refused

LEMMA CreateInv ==
  ASSUME Inv, NEW c \in Connections, req[c].pc = "resolve", req[c].kind \in Starts,
         Create(c), UNCHANGED <<scene, registered, sessions, stamp, settingsVars, profileVars>>
  PROVE  Inv'
<1> DEFINE r == req[c]
<1>1. r # Idle
  BY DEF Idle
<1>2. r \in Request /\ r.id \in Ids /\ r.device \in Devices /\ Gateway(c) \in Gateways
  BY <1>1, RequestAt, StartAssumption DEF Request, Inv, TypeOK, Scene, Gateway
<1>3. settings \in Settings /\ settings \in published
  BY DEF Inv, TypeOK, SettingsInv, HistoryInv
<1>4. ASSUME NEW n \in Nat
      PROVE  /\ NewSession(c, r.kind, n) \in Session
             /\ NewSession(c, r.kind, n).settings \in published
             /\ NewSession(c, r.kind, n).kind = r.kind
             /\ NewSession(c, r.kind, n).profile = n
             /\ NewSession(c, r.kind, n) # NoSession
  <2>1. NewSession(c, r.kind, n) \in Session
    BY <1>2, <1>3 DEF NewSession, Session
  <2> QED
    BY <1>3, <2>1, Absent DEF NewSession
<1>5. CASE ~scene.v2 \/ r.kind = "HANDWRITTEN_WORD"
  <2>1. Answers(c, r.id, NewSession(c, r.kind, 0), "commit")
    BY <1>5 DEF Create
  <2>2. 0 \in Bindable(r.kind)
    BY <1>5 DEF Bindable
  <2> QED
    BY <1>2, <1>4, <2>1, <2>2, AnswerInv
<1>6. CASE scene.v2 /\ r.kind = "EXAM"
  <2>1. CASE Refused(c)
    BY <2>1, RefusedInv
  <2>2. CASE Answers(c, r.id, NewSession(c, r.kind, 0), "scope")
    BY <1>2, <1>4, <1>6, <2>2, AnswerInv
  <2>3. ASSUME NEW i \in Active(Global),
               Answers(c, r.id, NewSession(c, r.kind, profiles[Global][i].revision), "commit")
        PROVE  Inv'
    <3>1. profiles[Global] \in Seq(Revision) /\ Numbered(profiles[Global])
      BY Absent DEF Inv, TypeOK, ProfileInv
    <3>2. i \in 1 .. Len(profiles[Global]) /\ profiles[Global][i].revision = i /\ i \in Nat
      BY <2>3, <3>1, LenProperties DEF Active, Numbered
    <3>3. i \in Bindable(r.kind)
      BY <1>6, <3>2 DEF Bindable
    <3> QED
      BY <1>2, <1>4, <2>3, <3>2, <3>3, AnswerInv
  <2> QED
    BY <1>6, <2>1, <2>2, <2>3 DEF Create
<1> QED
  BY <1>5, <1>6 DEF Starts

LEMMA ResolveInv == ASSUME Inv, NEW c \in Connections, Resolve(c) PROVE Inv'
<1>1. req[c].pc = "resolve" /\ UNCHANGED <<scene, registered, sessions, stamp, settingsVars, profileVars>>
  BY DEF Resolve
<1>2. NoSession.settings \in published
  <2>1. req[c] # Idle
    BY <1>1 DEF Idle
  <2> QED
    BY <1>1, <2>1, RequestAt DEF Sound, Locking
<1>3. CASE req[c].kind \in {"HEARTBEAT", "HELLO"}
  <2>1. Answers(c, None, NoSession, "commit")
    BY <1>3 DEF Resolve, Ends
  <2> QED
    BY <1>1, <1>2, <2>1, AnswerInv
<1>4. CASE req[c].kind = "HANDWRITTEN_WORD"
  BY <1>1, <1>4, CreateInv DEF Resolve, Starts, Ends
<1>5. CASE req[c].kind = "EXAM"
  <2>1. CASE Resume(c)
    <3>1. PICK s \in Resumable(c) : \/ Answers(c, s, NoSession, "commit")
                                   \/ Refused(c)
      BY <2>1 DEF Resume
    <3>2. s \in Ids /\ Own(c, s)
      BY DEF Resumable, Capturing
    <3> QED
      BY <1>1, <1>2, <3>1, <3>2, AnswerInv, RefusedInv
  <2>2. CASE Create(c)
    BY <1>1, <1>5, <2>2, CreateInv DEF Starts
  <2>3. CASE Refused(c)
    BY <1>1, <2>3, RefusedInv
  <2> QED
    BY <1>5, <2>1, <2>2, <2>3 DEF Resolve, Ends
<1>6. req[c].kind \in Kinds
  <2>1. req[c] # Idle
    BY <1>1 DEF Idle
  <2> QED
    BY <2>1, RequestAt DEF Request
<1>7. CASE req[c].kind \in Ends
  <2>1. End(c)
    <3>1. CASE req[c].kind = "END"
      BY <3>1 DEF Resolve, Ends
    <3>2. CASE req[c].kind = "CANCEL"
      BY <3>2 DEF Resolve, Ends
    <3> QED
      BY <1>7, <3>1, <3>2 DEF Ends
  <2>2. PICK s \in IF Closable(c) = {} THEN {None} ELSE Closable(c) : Answers(c, s, NoSession, "commit")
    BY <2>1 DEF End
  <2>3. s = None \/ (s \in Ids /\ Own(c, s))
    BY DEF Closable, Capturing
  <2> QED
    BY <1>1, <1>2, <2>2, <2>3, AnswerInv
<1> QED
  BY <1>3, <1>4, <1>5, <1>6, <1>7 DEF Kinds, Starts

(* Under the lock of the scope the default gets the next number.           *)
LEMMA TakeScopeInv == ASSUME Inv, NEW c \in Connections, TakeScope(c) PROVE Inv'
<1> DEFINE r == req[c]
           n == Len(profiles[Global])
           row == [r.row EXCEPT !.profile = n + 1]
           q == [r EXCEPT !.held = r.held \cup {"scope"}, !.latest = n, !.default = TRUE, !.row = row,
                   !.pc = "commit"]
<1>1. r.pc = "scope" /\ r # Idle /\ ScopeIsFree(Global)
      /\ UNCHANGED <<scene, registered, sessions, stamp, settingsVars, profileVars>>
  BY DEF TakeScope, Idle
<1>2. r \in Request /\ Sound(c, r) /\ Locking(r)
  BY <1>1, RequestAt
<1>3. r.row \in Session /\ r.row.kind = "EXAM" /\ scene.v2
  BY <1>1, <1>2, Absent DEF Locking
<1>4. n \in Nat
  BY LenOfScope, Absent DEF Inv
<1>5. req' = [req EXCEPT ![c] = q]
  BY DEF TakeScope
<1>6. /\ row \in Session /\ row.profile = n + 1 /\ row.kind = "EXAM" /\ row.settings = r.row.settings
      /\ row # NoSession
  <2>1. row \in Session
    BY <1>3, <1>4 DEF Session
  <2> QED
    BY <1>3, <2>1, Absent DEF Session
<1> HIDE DEF row
<1>7. /\ q \in Request /\ q.id = r.id /\ q.held = r.held \cup {"scope"} /\ q.pc = "commit"
      /\ q.row = row /\ q.default = TRUE /\ q.latest = n
  BY <1>2, <1>4, <1>6 DEF Request, Locks
<1> HIDE DEF q
<1>8. Locking(q)
  BY <1>3, <1>6, <1>7 DEF Locking
<1>9. Sound(c, q)
  BY <1>2, <1>6, <1>7, <1>8 DEF Sound
<1> QED
  BY <1>1, <1>5, <1>7, <1>9, RequestStep

-------------------------------------------------------------------------------
(* What the requests in flight rely on is not taken from them: their ids,  *)
(* the sessions they answer, the history of the settings, and the length   *)
(* of the profiles, which only grows, and not under the lock.              *)
LEMMA OthersKept ==
  ASSUME Inv, scene' = scene, stamp' = stamp, published \subseteq published',
         \A o \in Connections : req'[o] \in {req[o], Idle},
         \A o \in Connections : req'[o] # Idle =>
           /\ sessions'[req[o].id] = NoSession
           /\ "scope" \in req[o].held => Len(profiles'[Global]) = Len(profiles[Global]),
         \A s \in Ids : sessions[s] # NoSession =>
           sessions'[s].gateway = sessions[s].gateway /\ sessions'[s].device = sessions[s].device,
         Len(profiles'[Global]) \in Nat, Len(profiles'[Global]) >= Len(profiles[Global])
  PROVE  /\ \A c \in Connections : (req[c] # Idle => Sound(c, req[c]))'
         /\ \A c, o \in Connections : (req[c] # Idle /\ req[o] # Idle /\ req[c].id = req[o].id)' => c = o
<1> USE DEF Inv
<1>1. Len(profiles[Global]) \in Nat
  BY LenOfScope, Absent
<1>3. ASSUME NEW c \in Connections, req'[c] # Idle PROVE Sound(c, req[c])'
  <2> DEFINE q == req[c]
  <2>1. req'[c] = q /\ q # Idle
    BY <1>3
  <2>2. q \in Request /\ Sound(c, q) /\ Locking(q)
    BY <2>1, RequestAt
  <2>3. Locking(req[c])'
    BY <1>3, <2>1, <2>2 DEF Locking
  <2>4. q.pc = "commit" /\ q.row = NoSession /\ q.answer # None =>
          sessions'[q.answer].gateway = Gateway(c) /\ sessions'[q.answer].device = q.device
    <3> SUFFICES ASSUME q.pc = "commit", q.row = NoSession, q.answer # None
                 PROVE  sessions'[q.answer].gateway = Gateway(c) /\ sessions'[q.answer].device = q.device
      OBVIOUS
    <3>1. sessions[q.answer].gateway = Gateway(c) /\ sessions[q.answer].device = q.device
      BY <2>2 DEF Sound
    <3>2. q.answer \in Ids /\ Gateway(c) \in Gateways
      BY <2>2, StartAssumption DEF Request, TypeOK, Scene, Gateway
    <3>3. sessions[q.answer] # NoSession
      BY <3>1, <3>2, Absent DEF NoSession
    <3> QED
      BY <3>1, <3>2, <3>3
  <2>5. q.pc = "commit" /\ q.row # NoSession /\ "scope" \notin q.held =>
          (req[c].row.profile \in Bindable(req[c].row.kind))'
    BY <1>1, <2>1, <2>2 DEF Sound, Bindable
  <2> QED
    BY <1>3, <2>1, <2>2, <2>3, <2>4, <2>5 DEF Sound, Gateway
<1>4. ASSUME NEW c \in Connections, NEW o \in Connections, req'[c] # Idle, req'[o] # Idle,
             req'[c].id = req'[o].id
      PROVE  c = o
  BY <1>4 DEF RequestInv
<1> QED
  BY <1>3, <1>4

LEMMA SendInv ==
  ASSUME Inv, NEW c \in Connections, NEW kind \in Kinds, NEW d \in Devices, NEW new \in BOOLEAN,
         NEW v2 \in BOOLEAN, NEW hint \in 1 .. stamp \cup {None}, Send(c, kind, d, new, hint, v2)
  PROVE  Inv'
<1> USE DEF Inv
<1> DEFINE q == [pc |-> "locking", kind |-> kind, device |-> d, new |-> new, hint |-> hint, v2 |-> v2,
                 id |-> stamp + 1, held |-> {}, row |-> NoSession, answer |-> None, latest |-> 0,
                 default |-> FALSE]
<1>1. /\ req[c] = Idle /\ stamp < scene.requests /\ stamp' = stamp + 1
      /\ req' = [req EXCEPT ![c] = q]
      /\ UNCHANGED <<scene, registered, sessions, settingsVars, profileVars>>
  BY DEF Send
<1>2. stamp + 1 \in Ids /\ stamp \in Nat /\ stamp' \in 0 .. MaxRequests /\ hint \in Ids \cup {None}
  BY <1>1, StartAssumption DEF TypeOK, Scene, Ids
<1>3. q \in Request /\ q # Idle
  BY <1>2 DEF Request, Locks, Idle
<1>4. q.pc = "locking" /\ q.id = stamp + 1 /\ q.held = {} /\ q.row = NoSession /\ ~q.default
  OBVIOUS
<1> HIDE DEF q
<1>5. \A o \in Connections : req'[o] = IF o = c THEN q ELSE req[o]
  BY <1>1 DEF TypeOK
<1>6. TypeOK'
  <2>1. req' \in [Connections -> Request \cup {Idle}]
    BY <1>1, <1>3 DEF TypeOK
  <2> QED
    BY <1>1, <1>2, <2>1 DEF TypeOK, settingsVars, profileVars
<1>7. SettingsInv'
  BY <1>1 DEF SettingsInv, HistoryInv, EditInv, settingsVars
<1>8. ProfileInv'
  BY <1>1, <1>4, <1>5 DEF ProfileInv, profileVars
<1>9. \A o \in Connections : req[o] # Idle => req[o].id <= stamp
  BY DEF RequestInv, Sound
<1>10. \A s \in Ids : sessions[s] # NoSession => s <= stamp
  BY DEF RequestInv
<1>11. Sound(c, req[c])'
  <2>1. sessions[q.id] = NoSession
    BY <1>2, <1>4, <1>10
  <2>2. NoSession.settings \in published
    BY <1>2, <1>4, <2>1 DEF SettingsInv, HistoryInv
  <2> QED
    BY <1>1, <1>2, <1>4, <1>5, <2>1, <2>2 DEF Sound, Locking, settingsVars
<1>12. ASSUME NEW o \in Connections, req'[o] # Idle PROVE Sound(o, req[o])'
  <2>1. CASE o # c
    <3>1. Sound(o, req[o]) /\ req'[o] = req[o] /\ req[o] \in Request
      BY <1>5, <1>12, <2>1, RequestAt
    <3> QED
      BY <1>1, <1>2, <3>1 DEF Sound, Locking, Bindable, Gateway, settingsVars, profileVars, Request, Ids
  <2> QED
    BY <1>11, <2>1
<1>13. ASSUME NEW o \in Connections, NEW x \in Connections, req'[o] # Idle, req'[x] # Idle,
              req'[o].id = req'[x].id
       PROVE  o = x
  <2>1. ASSUME NEW y \in Connections \ {c}, req[y] # Idle PROVE req[y].id # stamp + 1
    <3>1. req[y].id <= stamp /\ req[y].id \in Ids
      BY <1>9, <2>1, RequestAt DEF Request
    <3> QED
      BY <1>2, <3>1 DEF Ids
  <2> QED
    BY <1>4, <1>5, <1>13, <2>1 DEF RequestInv
<1>14. RequestInv'
  BY <1>1, <1>2, <1>10, <1>12, <1>13 DEF RequestInv, Bindable, profileVars, Ids
<1> QED
  BY <1>6, <1>7, <1>8, <1>14

(* A session that is closed keeps what it is bound to.                     *)
LEMMA ClosedSession ==
  ASSUME NEW x \in Session
  PROVE  LET closed == [x EXCEPT !.status = "CLOSED"] IN
           /\ closed \in Session /\ closed.status = "CLOSED"
           /\ closed.gateway = x.gateway /\ closed.device = x.device /\ closed.kind = x.kind
           /\ closed.settings = x.settings /\ closed.profile = x.profile
  BY DEF Session

(* What a commit does to the sessions.                                     *)
LEMMA CommitSessions ==
  ASSUME Inv, NEW c \in Connections, Commit(c)
  PROVE  LET r == req[c] IN
           /\ sessions' \in [Ids -> Session \cup {NoSession}]
           /\ \A s \in Ids :
                \/ sessions'[s] = sessions[s]
                \/ s = r.id /\ sessions'[s] = r.row /\ r.row # NoSession
                \/ /\ sessions[s] \in Session /\ sessions'[s] \in Session
                   /\ sessions'[s] = [sessions[s] EXCEPT !.status = "CLOSED"]
                   /\ sessions'[s].status = "CLOSED"
                   /\ sessions'[s].gateway = sessions[s].gateway /\ sessions'[s].device = sessions[s].device
                   /\ sessions'[s].kind = sessions[s].kind
                   /\ sessions'[s].settings = sessions[s].settings
                   /\ sessions'[s].profile = sessions[s].profile
<1> USE DEF Inv
<1> DEFINE r == req[c]
<1>1. r # Idle /\ r.pc = "commit"
  BY DEF Commit, Idle
<1>2. r \in Request /\ Sound(c, r) /\ r.id \in Ids
  BY <1>1, RequestAt DEF Request
<1>3. CASE r.row # NoSession
  <2>1. sessions' = [sessions EXCEPT ![r.id] = r.row] /\ r.row \in Session
    BY <1>2, <1>3, Absent DEF Commit
  <2> QED
    BY <1>2, <1>3, <2>1 DEF TypeOK
<1>4. CASE r.row = NoSession /\ r.kind \in Ends /\ r.answer # None
  <2>1. r.answer \in Ids
    BY <1>2, <1>4 DEF Request
  <2>2. sessions[r.answer] \in Session
    <3>1. sessions[r.answer].gateway = Gateway(c) /\ Gateway(c) \in Gateways
      BY <1>1, <1>2, <1>4, StartAssumption DEF Sound, TypeOK, Scene, Gateway
    <3>2. NoSession.gateway = None
      BY DEF NoSession
    <3> QED
      BY <2>1, <3>1, <3>2, Absent DEF TypeOK
  <2> DEFINE closed == [sessions[r.answer] EXCEPT !.status = "CLOSED"]
  <2>3. sessions' = [sessions EXCEPT ![r.answer] = closed]
    BY <1>4 DEF Commit
  <2>4. /\ closed \in Session /\ closed.status = "CLOSED"
        /\ closed.gateway = sessions[r.answer].gateway /\ closed.device = sessions[r.answer].device
        /\ closed.kind = sessions[r.answer].kind /\ closed.settings = sessions[r.answer].settings
        /\ closed.profile = sessions[r.answer].profile
    BY <2>2, ClosedSession
  <2>5. closed = [sessions[r.answer] EXCEPT !.status = "CLOSED"]
    OBVIOUS
  <2> HIDE DEF closed
  <2>6. sessions' \in [Ids -> Session \cup {NoSession}]
    BY <2>3, <2>4 DEF TypeOK
  <2>7. \A s \in Ids : sessions'[s] = IF s = r.answer THEN closed ELSE sessions[s]
    BY <2>3 DEF TypeOK
  <2>8. ASSUME NEW s \in Ids
        PROVE  \/ sessions'[s] = sessions[s]
               \/ /\ sessions[s] \in Session /\ sessions'[s] \in Session
                  /\ sessions'[s] = [sessions[s] EXCEPT !.status = "CLOSED"]
                  /\ sessions'[s].status = "CLOSED"
                  /\ sessions'[s].gateway = sessions[s].gateway /\ sessions'[s].device = sessions[s].device
                  /\ sessions'[s].kind = sessions[s].kind
                  /\ sessions'[s].settings = sessions[s].settings
                  /\ sessions'[s].profile = sessions[s].profile
    <3>1. CASE s = r.answer
      <4>1. sessions'[s] = closed
        BY <2>7, <3>1
      <4>2. sessions'[s] = [sessions[s] EXCEPT !.status = "CLOSED"]
        BY <2>5, <3>1, <4>1
      <4> QED
        BY <2>2, <2>4, <3>1, <4>1, <4>2
    <3>2. CASE s # r.answer
      BY <2>7, <3>2
    <3> QED
      BY <3>1, <3>2
  <2> QED
    BY <2>6, <2>8
<1>5. CASE r.row = NoSession /\ ~(r.kind \in Ends /\ r.answer # None)
  BY <1>5 DEF Commit, TypeOK
<1> QED
  BY <1>3, <1>4, <1>5

(* A commit writes the session under an id nobody else has or closes one,  *)
(* and, with the lock of the scope, writes the next revision.              *)
LEMMA CommitInv == ASSUME Inv, NEW c \in Connections, Commit(c) PROVE Inv'
<1> USE DEF Inv
<1> DEFINE r == req[c]
<1>1. /\ r.pc = "commit" /\ r # Idle
      /\ req' = [req EXCEPT ![c] = Idle]
      /\ profiles' = IF r.default THEN [profiles EXCEPT ![Global] = Revise(profiles[Global], r.latest, TRUE)]
                     ELSE profiles
      /\ UNCHANGED <<scene, stamp, settingsVars, creating>>
  BY DEF Commit, Idle
<1>2. r \in Request /\ Sound(c, r) /\ Locking(r) /\ r.id \in Ids /\ r.id <= stamp
  BY <1>1, RequestAt DEF Request, Sound
<1>3. \A o \in Connections : req'[o] = IF o = c THEN Idle ELSE req[o]
  BY <1>1 DEF TypeOK
<1>4. /\ profiles[Global] \in Seq(Revision) /\ Len(profiles[Global]) \in Nat
      /\ Numbered(profiles[Global]) /\ Global \in Scopes
  BY LenOfScope, Absent DEF ProfileInv
<1>5. /\ profiles' \in [Scopes -> Seq(Revision)]
      /\ Numbered(profiles'[Global])
      /\ \A sc \in Scopes \ {Global} : profiles'[sc] = profiles[sc]
      /\ r.default => Len(profiles'[Global]) = Len(profiles[Global]) + 1
      /\ ~r.default => Len(profiles'[Global]) = Len(profiles[Global])
  <2>1. CASE r.default
    <3>1. r.latest = Len(profiles[Global])
      BY <1>2, <2>1 DEF Locking
    <3> QED
      BY <1>1, <1>4, <2>1, <3>1, ReviseNumbered DEF TypeOK
  <2>2. CASE ~r.default
    BY <1>1, <1>4, <2>2 DEF TypeOK
  <2> QED
    BY <2>1, <2>2
<1>6. /\ sessions' \in [Ids -> Session \cup {NoSession}]
      /\ \A s \in Ids :
           \/ sessions'[s] = sessions[s]
           \/ s = r.id /\ sessions'[s] = r.row /\ r.row # NoSession
           \/ /\ sessions[s] \in Session
              /\ sessions'[s].gateway = sessions[s].gateway /\ sessions'[s].device = sessions[s].device
              /\ sessions'[s].kind = sessions[s].kind
              /\ sessions'[s].settings = sessions[s].settings
              /\ sessions'[s].profile = sessions[s].profile
  BY CommitSessions
<1>7. TypeOK'
  <2>1. req' \in [Connections -> Request \cup {Idle}]
    BY <1>1 DEF TypeOK
  <2>2. registered' \subseteq Gateways \cup Devices
    BY <1>2, StartAssumption DEF Commit, TypeOK, Request, Scene, Gateway
  <2> QED
    BY <1>1, <1>5, <1>6, <2>1, <2>2 DEF TypeOK, settingsVars
<1>8. SettingsInv'
  <2>1. r.row.settings \in published
    BY <1>2 DEF Sound
  <2> QED
    BY <1>1, <1>6, <2>1 DEF SettingsInv, HistoryInv, EditInv, settingsVars
<1>9. r.default => \A a \in Admins : creating[a] # NotCreating => creating[a].scope # Global
  BY <1>2 DEF Locking, ProfileInv
<1>10. "scope" \notin Idle.held
  BY DEF Idle
<1>11. ProfileInv'
  <2>1. \A sc \in Scopes : Numbered(profiles'[sc])
    BY <1>5 DEF ProfileInv
  <2>2. ASSUME NEW a \in Admins, creating[a] # NotCreating
        PROVE  profiles'[creating[a].scope] = profiles[creating[a].scope]
    BY <1>1, <1>5, <1>9, <2>2 DEF ProfileInv
  <2>3. \A o \in Connections : "scope" \in req'[o].held => "scope" \in req[o].held
    BY <1>3, <1>10
  <2>4. ASSUME NEW a \in Admins, creating[a] # NotCreating
        PROVE  /\ creating[a].scope \in Scopes
               /\ creating[a].latest = Len(profiles'[creating[a].scope])
               /\ \A b \in Admins : creating[b].scope = creating[a].scope => b = a
               /\ \A o \in Connections : "scope" \in req'[o].held => creating[a].scope # Global
    BY <2>2, <2>3, <2>4 DEF ProfileInv
  <2>5. \A x, o \in Connections : "scope" \in req'[x].held /\ "scope" \in req'[o].held => x = o
    BY <2>3 DEF ProfileInv
  <2>6. creating' = creating
    BY <1>1
  <2> QED
    BY <2>1, <2>4, <2>5, <2>6 DEF ProfileInv
<1>12. ASSUME NEW o \in Connections, req'[o] # Idle
       PROVE  /\ sessions'[req[o].id] = NoSession
              /\ "scope" \in req[o].held => Len(profiles'[Global]) = Len(profiles[Global])
  <2>1. o # c /\ req[o] # Idle /\ req[o].id # r.id
    BY <1>1, <1>3, <1>12 DEF RequestInv
  <2>2. req[o].id \in Ids /\ sessions[req[o].id] = NoSession
    BY <2>1, RequestAt DEF Request, Sound
  <2>3. "scope" \in req[o].held => ~r.default
    BY <1>2, <2>1 DEF Locking, ProfileInv
  <2>4. sessions'[req[o].id] = NoSession
    BY <1>6, <2>1, <2>2, Absent
  <2> QED
    BY <1>5, <2>3, <2>4
<1>13. \A s \in Ids : sessions[s] # NoSession =>
         sessions'[s].gateway = sessions[s].gateway /\ sessions'[s].device = sessions[s].device
  BY <1>2, <1>6 DEF Sound
<1>14. /\ \A o \in Connections : (req[o] # Idle => Sound(o, req[o]))'
       /\ \A x, o \in Connections : (req[x] # Idle /\ req[o] # Idle /\ req[x].id = req[o].id)' => x = o
  <2>1. Len(profiles'[Global]) \in Nat /\ Len(profiles'[Global]) >= Len(profiles[Global])
    BY <1>4, <1>5
  <2>2. published \subseteq published' /\ scene' = scene /\ stamp' = stamp
    BY <1>1 DEF settingsVars
  <2>3. \A o \in Connections : req'[o] \in {req[o], Idle}
    BY <1>3
  <2> QED
    BY <1>12, <1>13, <2>1, <2>2, <2>3, OthersKept
<1>15. r.row # NoSession =>
         r.row.profile \in IF scene.v2 /\ r.row.kind = "EXAM" THEN 1 .. Len(profiles'[Global]) ELSE {0}
  <2>1. CASE "scope" \in r.held
    <3>1. r.row.profile = Len(profiles[Global]) + 1 /\ r.row.kind = "EXAM" /\ scene.v2 /\ r.default
      BY <1>2, <2>1 DEF Locking
    <3>2. Len(profiles'[Global]) = Len(profiles[Global]) + 1
      BY <1>5, <3>1
    <3> QED
      BY <1>4, <3>1, <3>2
  <2>2. CASE "scope" \notin r.held
    <3>1. r.row # NoSession => r.row.profile \in Bindable(r.row.kind)
      BY <1>1, <1>2, <2>2 DEF Sound
    <3>2. Len(profiles'[Global]) = Len(profiles[Global])
      BY <1>2, <1>5, <2>2 DEF Locking
    <3> QED
      BY <3>1, <3>2 DEF Bindable
  <2> QED
    BY <2>1, <2>2
<1>16. RequestInv'
  <2>1. \A s \in Ids : sessions'[s] # NoSession => s <= stamp'
    BY <1>1, <1>2, <1>6, Absent DEF RequestInv
  <2>2. ASSUME NEW s \in Ids PROVE (sessions[s].profile \in Bindable(sessions[s].kind))'
    <3>1. CASE sessions'[s].profile = sessions[s].profile /\ sessions'[s].kind = sessions[s].kind
      <4>1. sessions[s].profile \in Bindable(sessions[s].kind)
        BY DEF RequestInv
      <4>2. Len(profiles'[Global]) \in Nat /\ Len(profiles'[Global]) >= Len(profiles[Global])
        BY <1>4, <1>5
      <4>3. 1 .. Len(profiles[Global]) \subseteq 1 .. Len(profiles'[Global])
        BY <1>4, <4>2
      <4>4. scene' = scene
        BY <1>1
      <4> QED
        BY <3>1, <4>1, <4>3, <4>4 DEF Bindable
    <3>2. CASE sessions'[s] = r.row /\ r.row # NoSession
      BY <1>1, <1>15, <3>2 DEF Bindable
    <3> QED
      BY <1>6, <3>1, <3>2
  <2> QED
    BY <1>14, <2>1, <2>2 DEF RequestInv
<1> QED
  BY <1>7, <1>8, <1>11, <1>16

-------------------------------------------------------------------------------
(* Neither requests nor profiles know of the settings but by their         *)
(* history, which only grows.                                              *)
LEMMA SettingsOnly ==
  ASSUME Inv, UNCHANGED <<scene, phoneVars, profileVars>>, published \subseteq published'
  PROVE  ProfileInv' /\ RequestInv'
<1> USE DEF Inv
<1>1. UNCHANGED <<scene, sessions, stamp, req, profiles, creating>>
  BY DEF phoneVars, profileVars
<1>2. ProfileInv'
  BY <1>1 DEF ProfileInv
<1>3. ASSUME NEW o \in Connections, req[o] # Idle PROVE sessions[req[o].id] = NoSession
  BY <1>3, RequestAt DEF Sound
<1>4. Len(profiles[Global]) \in Nat
  BY LenOfScope, Absent
<1>5. /\ \A o \in Connections : (req[o] # Idle => Sound(o, req[o]))'
      /\ \A x, o \in Connections : (req[x] # Idle /\ req[o] # Idle /\ req[x].id = req[o].id)' => x = o
  BY <1>1, <1>3, <1>4, OthersKept
<1>6. \A s \in Ids : (sessions[s].profile \in Bindable(sessions[s].kind))'
  BY <1>1 DEF RequestInv, Bindable
<1>7. \A s \in Ids : (sessions[s] # NoSession => s <= stamp)'
  BY <1>1 DEF RequestInv
<1> QED
  BY <1>2, <1>5, <1>6, <1>7 DEF RequestInv

(* New settings have a version no earlier ones had.                        *)
LEMMA Publish ==
  ASSUME Inv, NEW new \in Settings, new.version > settings.version, settings' = new,
         published' = published \cup {new}, sessions' = sessions
  PROVE  HistoryInv'
<1>1. HistoryInv /\ settings.version \in Nat /\ new.version \in Nat
  BY DEF Inv, TypeOK, SettingsInv, Settings
<1>2. \A s \in published : s.version \in Nat /\ s.version <= settings.version
  BY <1>1 DEF Inv, TypeOK, Settings, HistoryInv
<1>3. ASSUME NEW s \in published, NEW t \in published', s.version = t.version PROVE s = t
  BY <1>1, <1>2, <1>3 DEF HistoryInv
<1>4. ASSUME NEW s \in published', NEW t \in published', s.version = t.version PROVE s = t
  BY <1>3, <1>4
<1>5. \A s \in published' : s.version <= settings'.version
  BY <1>1, <1>2
<1> QED
  BY <1>1, <1>4, <1>5 DEF HistoryInv

LEMMA ReadSettingsInv == ASSUME Inv, NEW a \in Admins, NEW v \in Values, ReadSettings(a, v) PROVE Inv'
<1> USE DEF Inv
<1>1. /\ settings' = IF settings.version = 0 THEN [version |-> 1, value |-> v] ELSE settings
      /\ settings.version = 0 => \A b \in Admins : editing[b] = NotEditing
      /\ published' = published \cup {settings'}
      /\ form' = [form EXCEPT ![a] = settings']
      /\ UNCHANGED <<scene, phoneVars, editing, accepted, profileVars>>
  BY DEF ReadSettings
<1>2. settings' \in Settings
  BY <1>1 DEF Settings, TypeOK
<1>3. TypeOK'
  BY <1>1, <1>2 DEF TypeOK, phoneVars, profileVars
<1>4. HistoryInv'
  <2>1. sessions' = sessions
    BY <1>1 DEF phoneVars
  <2>2. CASE settings.version = 0
    <3> DEFINE new == [version |-> 1, value |-> v]
    <3>1. settings' = new /\ new \in Settings /\ new.version > settings.version
      BY <1>1, <2>2 DEF Settings
    <3> HIDE DEF new
    <3> QED
      BY <1>1, <2>1, <3>1, Publish
  <2>3. CASE settings.version # 0
    BY <1>1, <2>1, <2>3 DEF SettingsInv, HistoryInv
  <2> QED
    BY <2>2, <2>3
<1>5. EditInv'
  <2>1. CASE settings.version = 0
    BY <1>1, <2>1 DEF SettingsInv, EditInv
  <2>2. CASE settings.version # 0
    BY <1>1, <2>2 DEF SettingsInv, EditInv
  <2> QED
    BY <2>1, <2>2
<1>6. ProfileInv' /\ RequestInv'
  BY <1>1, SettingsOnly
<1> QED
  BY <1>3, <1>4, <1>5, <1>6 DEF SettingsInv

(* The row is free and the form is of the current version.                 *)
LEMMA BeginUpdateInv == ASSUME Inv, NEW a \in Admins, NEW v \in Values, BeginUpdate(a, v) PROVE Inv'
<1> USE DEF Inv
<1> DEFINE w == [sent |-> form[a], new |-> [version |-> settings.version + 1, value |-> v]]
<1>1. /\ form[a].version = settings.version /\ form[a].version \in 1 .. MaxVersion - 1
      /\ \A b \in Admins \ {a} : editing[b] = NotEditing
      /\ editing' = [editing EXCEPT ![a] = w]
      /\ UNCHANGED <<scene, phoneVars, settings, form, published, accepted, profileVars>>
  BY DEF BeginUpdate, RowIsFree
<1>2. /\ w \in Edit /\ w.sent.version = settings.version /\ w.new.version = settings.version + 1
  <2>1. settings.version \in Nat /\ form[a] \in Settings
    BY DEF TypeOK, Settings
  <2> QED
    BY <1>1, <2>1 DEF Edit, Settings
<1>3. settings.version > 0
  BY <1>1, StartAssumption
<1> HIDE DEF w
<1>4. TypeOK'
  BY <1>1, <1>2 DEF TypeOK, phoneVars, profileVars
<1>5. HistoryInv'
  BY <1>1 DEF SettingsInv, HistoryInv, phoneVars
<1>6. \A b \in Admins : editing'[b] = IF b = a THEN w ELSE NotEditing
  BY <1>1 DEF TypeOK
<1>7. EditInv'
  BY <1>1, <1>2, <1>3, <1>6 DEF SettingsInv, EditInv
<1>8. ProfileInv' /\ RequestInv'
  BY <1>1, SettingsOnly
<1> QED
  BY <1>4, <1>5, <1>7, <1>8 DEF SettingsInv

LEMMA AnswerUpdateInv == ASSUME Inv, NEW a \in Admins, AnswerUpdate(a) PROVE Inv'
<1> USE DEF Inv
<1>1. /\ form' = [form EXCEPT ![a] = editing[a].new]
      /\ UNCHANGED <<scene, phoneVars, settings, editing, published, accepted, profileVars>>
  BY DEF AnswerUpdate
<1>2. TypeOK'
  BY <1>1 DEF TypeOK, Edit, phoneVars, profileVars
<1>3. HistoryInv' /\ EditInv'
  BY <1>1 DEF SettingsInv, HistoryInv, EditInv, phoneVars
<1>4. ProfileInv' /\ RequestInv'
  BY <1>1, SettingsOnly
<1> QED
  BY <1>2, <1>3, <1>4 DEF SettingsInv

LEMMA CommitUpdateInv == ASSUME Inv, NEW a \in Admins, CommitUpdate(a) PROVE Inv'
<1> USE DEF Inv
<1> DEFINE new == editing[a].new
           u == [loaded |-> editing[a].sent, replaced |-> settings]
<1>1. /\ editing[a] # NotEditing /\ editing[a] \in Edit
      /\ editing[a].sent.version = settings.version /\ new.version = settings.version + 1
      /\ \A b \in Admins : editing[b] # NotEditing => b = a
  BY DEF CommitUpdate, SettingsInv, EditInv, TypeOK
<1>2. /\ settings' = new
      /\ published' = published \cup {new}
      /\ accepted' = accepted \cup {u}
      /\ editing' = [editing EXCEPT ![a] = NotEditing]
      /\ UNCHANGED <<scene, phoneVars, form, profileVars>>
  BY DEF CommitUpdate
<1>3. new \in Settings /\ new.version > settings.version
  <2>1. settings.version \in Nat
    BY DEF TypeOK, Settings
  <2> QED
    BY <1>1, <2>1 DEF Edit
<1>4. u \in [loaded : Settings, replaced : Settings] /\ u.loaded.version = settings.version /\ u.replaced = settings
  BY <1>1 DEF Edit, TypeOK
<1> HIDE DEF new, u
<1>5. TypeOK'
  <2>1. editing' \in [Admins -> Edit]
    BY <1>2, Absent DEF TypeOK
  <2>2. published' \subseteq Settings /\ accepted' \subseteq [loaded : Settings, replaced : Settings]
    BY <1>2, <1>3, <1>4 DEF TypeOK
  <2> QED
    BY <1>2, <1>3, <2>1, <2>2 DEF TypeOK, phoneVars, profileVars
<1>6. HistoryInv'
  <2>1. sessions' = sessions
    BY <1>2 DEF phoneVars
  <2> QED
    BY <1>2, <1>3, <2>1, Publish
<1>7. EditInv'
  <2>1. \A b \in Admins : editing'[b] = NotEditing
    BY <1>1, <1>2 DEF TypeOK
  <2>2. settings \in published
    BY DEF SettingsInv, HistoryInv
  <2>3. \A x \in accepted' : x.replaced \in published' /\ x.loaded.version = x.replaced.version
    BY <1>2, <1>4, <2>2 DEF SettingsInv, EditInv
  <2> QED
    BY <2>1, <2>3 DEF EditInv
<1>8. ProfileInv' /\ RequestInv'
  BY <1>2, SettingsOnly
<1> QED
  BY <1>5, <1>6, <1>7, <1>8 DEF SettingsInv

LEMMA FailUpdateInv == ASSUME Inv, NEW a \in Admins, FailUpdate(a) PROVE Inv'
<1> USE DEF Inv
<1>1. /\ editing' = [editing EXCEPT ![a] = NotEditing]
      /\ UNCHANGED <<scene, phoneVars, settings, form, published, accepted, profileVars>>
  BY DEF FailUpdate
<1>2. TypeOK'
  BY <1>1, Absent DEF TypeOK, phoneVars, profileVars
<1>3. \A b \in Admins : editing'[b] \in {editing[b], NotEditing}
  BY <1>1 DEF TypeOK
<1>4. EditInv'
  BY <1>1, <1>3 DEF SettingsInv, EditInv
<1>5. HistoryInv'
  BY <1>1 DEF SettingsInv, HistoryInv, phoneVars
<1>6. ProfileInv' /\ RequestInv'
  BY <1>1, SettingsOnly
<1> QED
  BY <1>2, <1>4, <1>5, <1>6 DEF SettingsInv

-------------------------------------------------------------------------------
(* Who takes part in nothing of it keeps what it relies on.                *)
LEMMA ProfilesOnly ==
  ASSUME Inv, UNCHANGED <<scene, phoneVars, settingsVars>>,
         Len(profiles'[Global]) \in Nat, Len(profiles'[Global]) >= Len(profiles[Global]),
         \A o \in Connections : "scope" \in req[o].held => Len(profiles'[Global]) = Len(profiles[Global])
  PROVE  SettingsInv' /\ RequestInv'
<1> USE DEF Inv
<1>1. UNCHANGED <<scene, sessions, stamp, req, settings, form, editing, published, accepted>>
  BY DEF phoneVars, settingsVars
<1>2. SettingsInv'
  BY <1>1 DEF SettingsInv, HistoryInv, EditInv
<1>3. ASSUME NEW o \in Connections, req[o] # Idle PROVE sessions[req[o].id] = NoSession
  BY <1>3, RequestAt DEF Sound
<1>4. /\ \A o \in Connections : (req[o] # Idle => Sound(o, req[o]))'
      /\ \A x, o \in Connections : (req[x] # Idle /\ req[o] # Idle /\ req[x].id = req[o].id)' => x = o
  BY <1>1, <1>3, OthersKept
<1>5. Len(profiles[Global]) \in Nat
  BY LenOfScope, Absent
<1>6. \A s \in Ids : (sessions[s].profile \in Bindable(sessions[s].kind))'
  <2>1. 1 .. Len(profiles[Global]) \subseteq 1 .. Len(profiles'[Global])
    BY <1>5
  <2> QED
    BY <1>1, <2>1 DEF RequestInv, Bindable
<1>7. \A s \in Ids : (sessions[s] # NoSession => s <= stamp)'
  BY <1>1 DEF RequestInv
<1> QED
  BY <1>2, <1>4, <1>6, <1>7 DEF RequestInv

LEMMA BeginRevisionInv == ASSUME Inv, NEW a \in Admins, NEW sc \in Scopes, BeginRevision(a, sc) PROVE Inv'
<1> USE DEF Inv
<1> DEFINE w == [scope |-> sc, latest |-> Len(profiles[sc])]
<1>1. /\ ScopeIsFree(sc)
      /\ creating' = [creating EXCEPT ![a] = w]
      /\ UNCHANGED <<scene, phoneVars, settingsVars, profiles>>
  BY DEF BeginRevision
<1>2. w \in [scope : Scopes \cup {None}, latest : Nat] /\ w.scope = sc /\ w.latest = Len(profiles[sc])
  BY LenOfScope
<1> HIDE DEF w
<1>3. TypeOK'
  BY <1>1, <1>2 DEF TypeOK, phoneVars, settingsVars
<1>4. \A b \in Admins : creating'[b] = IF b = a THEN w ELSE creating[b]
  BY <1>1 DEF TypeOK
<1>5. req' = req
  BY <1>1 DEF phoneVars
<1>6. ASSUME NEW b \in Admins, creating'[b] # NotCreating
      PROVE  /\ creating'[b].scope \in Scopes
             /\ creating'[b].latest = Len(profiles[creating'[b].scope])
             /\ \A e \in Admins : creating'[e].scope = creating'[b].scope => e = b
             /\ \A c \in Connections : "scope" \in req[c].held => creating'[b].scope # Global
  <2>1. CASE b = a
    BY <1>1, <1>2, <1>4, <2>1 DEF ScopeIsFree
  <2>2. CASE b # a
    BY <1>1, <1>2, <1>4, <1>6, <2>2 DEF ScopeIsFree, ProfileInv
  <2> QED
    BY <2>1, <2>2
<1>7. ProfileInv'
  BY <1>1, <1>5, <1>6 DEF ProfileInv
<1>8. SettingsInv' /\ RequestInv'
  BY <1>1, LenOfScope, Absent, ProfilesOnly
<1> QED
  BY <1>3, <1>7, <1>8

LEMMA CommitRevisionInv == ASSUME Inv, NEW a \in Admins, CommitRevision(a) PROVE Inv'
<1> USE DEF Inv
<1> DEFINE w == creating[a]
           new == Revise(profiles[w.scope], Len(profiles[w.scope]), FALSE)
<1>1. /\ w.scope \in Scopes /\ w.latest = Len(profiles[w.scope])
      /\ \A b \in Admins : creating[b].scope = w.scope => b = a
      /\ \A c \in Connections : "scope" \in req[c].held => w.scope # Global
  BY DEF CommitRevision, ProfileInv
<1>2. /\ profiles' = [profiles EXCEPT ![w.scope] = new]
      /\ creating' = [creating EXCEPT ![a] = NotCreating]
      /\ UNCHANGED <<scene, phoneVars, settingsVars>>
  BY <1>1 DEF CommitRevision
<1>3. profiles[w.scope] \in Seq(Revision) /\ Len(profiles[w.scope]) \in Nat /\ Numbered(profiles[w.scope])
  BY <1>1, LenOfScope DEF ProfileInv
<1>4. new \in Seq(Revision) /\ Len(new) = Len(profiles[w.scope]) + 1 /\ Numbered(new)
  BY <1>3, ReviseNumbered
<1> HIDE DEF new
<1>5. NotCreating \in [scope : Scopes \cup {None}, latest : Nat]
  BY DEF NotCreating
<1>6. TypeOK'
  BY <1>1, <1>2, <1>4, <1>5 DEF TypeOK, phoneVars, settingsVars
<1>7. \A sc \in Scopes : profiles'[sc] = IF sc = w.scope THEN new ELSE profiles[sc]
  BY <1>1, <1>2 DEF TypeOK
<1>8. \A b \in Admins : creating'[b] = IF b = a THEN NotCreating ELSE creating[b]
  BY <1>2 DEF TypeOK
<1>9. None \notin Scopes /\ NotCreating.scope = None
  BY Absent DEF NotCreating
<1>10. ASSUME NEW b \in Admins, creating'[b] # NotCreating
       PROVE  /\ creating'[b].scope \in Scopes
              /\ creating'[b].latest = Len(profiles'[creating'[b].scope])
              /\ \A e \in Admins : creating'[e].scope = creating'[b].scope => e = b
              /\ \A c \in Connections : "scope" \in req[c].held => creating'[b].scope # Global
  <2>1. b # a /\ creating'[b] = creating[b] /\ creating[b] # NotCreating
    BY <1>8, <1>10
  <2>2. /\ creating[b].scope \in Scopes /\ creating[b].scope # w.scope
        /\ creating[b].latest = Len(profiles[creating[b].scope])
        /\ \A e \in Admins : creating[e].scope = creating[b].scope => e = b
        /\ \A c \in Connections : "scope" \in req[c].held => creating[b].scope # Global
    BY <1>1, <2>1 DEF ProfileInv
  <2> QED
    BY <1>7, <1>8, <1>9, <2>1, <2>2
<1>11. ProfileInv'
  <2>1. \A sc \in Scopes : Numbered(profiles'[sc])
    BY <1>4, <1>7 DEF ProfileInv
  <2>2. req' = req
    BY <1>2 DEF phoneVars
  <2> QED
    BY <1>10, <2>1, <2>2 DEF ProfileInv
<1>12. SettingsInv' /\ RequestInv'
  <2>1. Len(profiles[Global]) \in Nat /\ Global \in Scopes
    BY LenOfScope, Absent
  <2>2. Len(profiles'[Global]) \in Nat /\ Len(profiles'[Global]) >= Len(profiles[Global])
    BY <1>3, <1>4, <1>7, <2>1
  <2>3. \A o \in Connections : "scope" \in req[o].held => Len(profiles'[Global]) = Len(profiles[Global])
    BY <1>1, <1>7, <2>1
  <2> QED
    BY <1>2, <2>2, <2>3, ProfilesOnly
<1> QED
  BY <1>6, <1>11, <1>12

LEMMA FailRevisionInv == ASSUME Inv, NEW a \in Admins, FailRevision(a) PROVE Inv'
<1> USE DEF Inv
<1>1. /\ creating' = [creating EXCEPT ![a] = NotCreating]
      /\ UNCHANGED <<scene, phoneVars, settingsVars, profiles>>
  BY DEF FailRevision
<1>2. TypeOK'
  BY <1>1 DEF TypeOK, phoneVars, settingsVars, NotCreating
<1>3. \A b \in Admins : creating'[b] = creating[b] \/ creating'[b] = NotCreating
  BY <1>1 DEF TypeOK
<1>4. None \notin Scopes /\ NotCreating.scope = None
  BY Absent DEF NotCreating
<1>5. req' = req
  BY <1>1 DEF phoneVars
<1>6. ASSUME NEW b \in Admins, creating'[b] # NotCreating
      PROVE  /\ creating'[b].scope \in Scopes
             /\ creating'[b].latest = Len(profiles[creating'[b].scope])
             /\ \A e \in Admins : creating'[e].scope = creating'[b].scope => e = b
             /\ \A c \in Connections : "scope" \in req[c].held => creating'[b].scope # Global
  BY <1>3, <1>4, <1>6 DEF ProfileInv
<1>7. ProfileInv'
  BY <1>1, <1>5, <1>6 DEF ProfileInv
<1>8. SettingsInv' /\ RequestInv'
  BY <1>1, LenOfScope, Absent, ProfilesOnly
<1> QED
  BY <1>2, <1>7, <1>8

-------------------------------------------------------------------------------
LEMMA InitInv == Init => Inv
<1> SUFFICES ASSUME Init PROVE Inv
  OBVIOUS
<1>1. TypeOK
  <2>1. scene \in Scenes /\ scene \in Scene
    BY StartAssumption DEF Init
  <2>2. registered \subseteq Gateways \cup Devices /\ stamp \in 0 .. MaxRequests
    BY <2>1, StartAssumption DEF Init, Scene
  <2>3. <<>> \in Seq(Revision)
    OBVIOUS
  <2> QED
    BY <2>1, <2>2, <2>3, Absent DEF Init, TypeOK, NotCreating
<1>2. SettingsInv
  BY Absent DEF Init, SettingsInv, HistoryInv, EditInv, NoSettings, NoSession
<1>3. ProfileInv
  <2>1. Numbered(<<>>)
    BY DEF Numbered
  <2> QED
    BY <2>1 DEF Init, ProfileInv, Idle
<1>4. RequestInv
  BY DEF Init, RequestInv, NoSession, Bindable
<1> QED
  BY <1>1, <1>2, <1>3, <1>4 DEF Inv

LEMMA StutterInv == ASSUME Inv, UNCHANGED vars PROVE Inv'
<1> USE DEF Inv
<1>1. UNCHANGED <<scene, phoneVars, settingsVars, profileVars>>
  BY DEF vars
<1>2. TypeOK'
  BY <1>1 DEF TypeOK, phoneVars, settingsVars, profileVars
<1>3. SettingsInv'
  BY <1>1 DEF SettingsInv, HistoryInv, EditInv, phoneVars, settingsVars
<1>4. ProfileInv' /\ RequestInv'
  BY <1>1, SettingsOnly DEF settingsVars
<1> QED
  BY <1>2, <1>3, <1>4

LEMMA NextInv == ASSUME Inv, Next PROVE Inv'
<1>1. ASSUME NEW c \in Connections, NEW kind \in Kinds, NEW d \in Devices, NEW new \in BOOLEAN,
             NEW v2 \in BOOLEAN, NEW hint \in 1 .. stamp \cup {None}, Send(c, kind, d, new, hint, v2)
      PROVE  Inv'
  BY <1>1, SendInv
<1>2. ASSUME NEW c \in Connections, Serve(c) PROVE Inv'
  BY <1>2, TakeLockInv, ResolveInv, TakeScopeInv, CommitInv DEF Serve
<1>3. ASSUME NEW c \in Connections, RollBack(c) PROVE Inv'
  BY <1>3, RollBackInv
<1>5. ASSUME NEW a \in Admins, Administrator(a) PROVE Inv'
  <2>1. ASSUME NEW v \in Values, ReadSettings(a, v) \/ BeginUpdate(a, v) PROVE Inv'
    BY <2>1, ReadSettingsInv, BeginUpdateInv
  <2>2. ASSUME NEW sc \in Scopes, BeginRevision(a, sc) PROVE Inv'
    BY <2>2, BeginRevisionInv
  <2>3. CASE AnswerUpdate(a) \/ CommitUpdate(a) \/ FailUpdate(a) \/ FailRevision(a) \/ CommitRevision(a)
    BY <2>3, AnswerUpdateInv, CommitUpdateInv, FailUpdateInv, FailRevisionInv, CommitRevisionInv
  <2> QED
    BY <1>5, <2>1, <2>2, <2>3 DEF Administrator
<1> QED
  BY <1>1, <1>2, <1>3, <1>5 DEF Next

(* Whatever requests, administrators and lost connections interleave,      *)
(* every transaction in flight is about to write what is still right.      *)
THEOREM Invariance == Spec => []Inv
<1>1. Inv /\ [Next]_vars => Inv'
  BY NextInv, StutterInv
<1> QED
  BY InitInv, <1>1, PTL DEF Spec

(* Every variable keeps its type.                                          *)
THEOREM TypeCorrect == Spec => []TypeOK
<1>1. Inv => TypeOK
  BY DEF Inv
<1> QED
  BY Invariance, <1>1, PTL

(* Revisions of a camera profile are numbered without a gap, and only the  *)
(* newest is active, whoever creates one at the same time.                 *)
THEOREM OneActive == Spec => []OneActiveRevision
<1>1. Inv => OneActiveRevision
  BY DEF Inv, ProfileInv, Numbered, OneActiveRevision
<1> QED
  BY Invariance, <1>1, PTL

(* An administrator whose form was in force undoes no update not seen, and *)
(* a version has one content, in every session's snapshot too.             *)
THEOREM Versioned == Spec => []SettingsAreVersioned
<1>1. Inv => SettingsAreVersioned
  <2> SUFFICES ASSUME Inv PROVE SettingsAreVersioned
    OBVIOUS
  <2>1. {sessions[i].settings : i \in Ids} \subseteq published
    BY DEF Inv, SettingsInv, HistoryInv
  <2> QED
    BY <2>1 DEF Inv, SettingsInv, HistoryInv, EditInv, SettingsAreVersioned
<1> QED
  BY Invariance, <1>1, PTL

(* A request answers a session of its own phone and device only, and an    *)
(* exam is bound to a revision that was committed.                         *)
THEOREM Bound == Spec => []SessionsAreBound
<1>1. Inv => SessionsAreBound
  <2> SUFFICES ASSUME Inv PROVE SessionsAreBound
    OBVIOUS
  <2>1. ASSUME NEW c \in Connections, req[c].pc = "commit", req[c].row = NoSession, req[c].answer # None
        PROVE  Own(c, req[c].answer)
    <3>1. req[c] # Idle
      BY <2>1 DEF Idle
    <3> QED
      BY <2>1, <3>1, RequestAt DEF Sound, Own
  <2>2. \A s \in Ids : sessions[s].profile \in Bindable(sessions[s].kind)
    BY DEF Inv, RequestInv
  <2> QED
    BY <2>1, <2>2 DEF SessionsAreBound, Bindable
<1> QED
  BY Invariance, <1>1, PTL

(* A request that holds a lock has all those before it in its order.       *)
LEMMA Holding ==
  ASSUME Inv, NEW o \in Connections, req[o].held # {}
  PROVE  /\ req[o] # Idle /\ req[o] \in Request /\ Locking(req[o])
         /\ req[o].pc = "locking" =>
              \/ req[o].held = {"gateway"} /\ req[o].kind \in Starts \cup {"HEARTBEAT"}
              \/ req[o].held = {"session"} /\ req[o].kind \in Ends
              \/ req[o].held = {"session", "device"} /\ req[o].kind = "CANCEL"
         /\ req[o].pc \in {"locking", "resolve", "scope", "commit"}
<1>1. req[o] # Idle
  BY DEF Idle
<1>2. req[o] \in Request /\ Locking(req[o])
  BY <1>1, RequestAt
<1> QED
  BY <1>1, <1>2 DEF Locking, Request

(* Requests that wait, cancellations apart, do so at one of four stages,   *)
(* and who holds what is waited for is at a later one.                     *)
LEMMA WaitsAhead ==
  ASSUME Inv, NEW c \in Connections, NEW o \in Connections, WaitsFor(c, o),
         c \notin Cancels, o \notin Cancels
  PROVE  \/ req[c].pc = "scope" /\ req[o].pc = "commit"
         \/ req[c].pc = "locking" /\ req[c].held = {"gateway"} /\ req[o].pc \in {"resolve", "scope", "commit"}
         \/ /\ req[c].pc = "locking"
            /\ req[c].held = {"session"} \/ (req[c].held = {} /\ req[c].kind \notin Ends)
            /\ req[o].pc = "locking" => req[o].held = {"gateway"}
         \/ /\ req[c].pc = "locking" /\ req[c].held = {} /\ req[c].kind \in Ends
            /\ req[o].pc = "locking" => req[o].held = {"session"}
<1>1. req[c].pc = "scope" \/ req[c].pc = "locking"
  BY DEF WaitsFor
<1>2. req[c] # Idle /\ req[c] \in Request /\ Locking(req[c]) /\ req[c].kind # "CANCEL"
  BY <1>1, RequestAt DEF Idle, Cancels
<1>3. ASSUME req[o].pc = "locking", req[o].held # {}
      PROVE  \/ req[o].held = {"gateway"} /\ req[o].kind \in Starts \cup {"HEARTBEAT"}
             \/ req[o].held = {"session"} /\ req[o].kind \in Ends
  BY <1>3, Holding DEF Cancels
<1>4. CASE req[c].pc = "scope"
  <2>1. "scope" \in req[o].held
    BY <1>4 DEF WaitsFor
  <2>2. Locking(req[o])
    BY <2>1, Holding
  <2> QED
    BY <1>4, <2>1, <2>2 DEF Locking
<1>5. CASE req[c].pc = "locking"
  <2> DEFINE lock == LockOrder(req[c].kind)[Cardinality(req[c].held) + 1]
  <2>1. lock \in req[o].held
    BY <1>5 DEF WaitsFor
  <2>2. req[o].pc \in {"locking", "resolve", "scope", "commit"}
    BY <2>1, Holding
  <2>3. \/ req[c].held = {}
        \/ req[c].held = {"gateway"}
        \/ req[c].held = {"session"} /\ req[c].kind \in Ends
    BY <1>2, <1>5 DEF Locking
  <2>4. /\ req[c].held = {} => lock = IF req[c].kind \in Ends THEN "session" ELSE "gateway"
        /\ req[c].held = {"gateway"} => lock = "device"
        /\ req[c].held = {"session"} => lock = IF req[c].kind = "CANCEL" THEN "device" ELSE "gateway"
    BY <1>2, <1>5, NextLock
  <2> HIDE DEF lock
  <2>5. CASE req[c].held = {"gateway"}
    BY <1>3, <1>5, <2>1, <2>2, <2>4, <2>5
  <2>6. CASE req[c].held = {"session"}
    BY <1>2, <1>3, <1>5, <2>1, <2>4, <2>6
  <2>7. CASE req[c].held = {}
    BY <1>3, <1>5, <2>1, <2>4, <2>7
  <2> QED
    BY <2>3, <2>5, <2>6, <2>7
<1> QED
  BY <1>1, <1>4, <1>5

(* Requests of any number of phones and devices never wait for each other  *)
(* in a circle, so that whichever of them is first can go on, unless an    *)
(* administrator's cancellation or retry is among them.                    *)
THEOREM Acyclic == Spec => []NoCircle
<1>1. Inv => NoCircle
  <2> SUFFICES ASSUME Inv, NEW W \in SUBSET Connections, Circle(W), W \cap Cancels = {}
               PROVE  FALSE
    BY DEF NoCircle
  <2> DEFINE Next1(c, o) == WaitsFor(c, o) /\ c \notin Cancels /\ o \notin Cancels
  <2>0. \A c \in W : c \in Connections /\ \E o \in W : Next1(c, o)
    BY DEF Circle
  <2>1. \A c \in W : req[c].pc # "commit" /\ req[c].pc # "resolve"
    BY <2>0 DEF WaitsFor
  <2>2. \A c \in W : req[c].pc # "scope"
    BY <2>0, <2>1, WaitsAhead
  <2>3. \A c \in W : ~(req[c].pc = "locking" /\ req[c].held = {"gateway"})
    <3> SUFFICES ASSUME NEW c \in W, req[c].pc = "locking", req[c].held = {"gateway"} PROVE FALSE
      OBVIOUS
    <3>1. PICK o \in W : Next1(c, o)
      BY <2>0
    <3>2. req[o].pc \in {"resolve", "scope", "commit"}
      BY <3>1, WaitsAhead
    <3> QED
      BY <2>1, <2>2, <3>2
  <2>4. \A c \in W : req[c].pc = "locking"
    BY <2>0, <2>2 DEF WaitsFor
  <2>5. \A c \in W : req[c].held = {} /\ req[c].kind \in Ends
    <3> SUFFICES ASSUME NEW c \in W, ~(req[c].held = {} /\ req[c].kind \in Ends) PROVE FALSE
      OBVIOUS
    <3>1. PICK o \in W : Next1(c, o)
      BY <2>0
    <3>2. req[o].held = {"gateway"}
      BY <2>3, <2>4, <3>1, WaitsAhead
    <3> QED
      BY <2>3, <2>4, <3>2
  <2>6. PICK c \in W, o \in W : Next1(c, o)
    BY <2>0 DEF Circle
  <2>7. req[o].held = {"session"}
    BY <2>4, <2>5, <2>6, WaitsAhead
  <2> QED
    BY <2>5, <2>7
<1> QED
  BY Invariance, <1>1, PTL

(* A session keeps what it was bound to, and what is over stays over: the  *)
(* row a request commits is a new one, under an id that is its own.        *)
THEOREM Binding == Spec => BindingStays
<1> DEFINE Stays == \A s \in Ids : sessions[s] # NoSession =>
             /\ sessions'[s] = [sessions[s] EXCEPT !.status = sessions'[s].status]
             /\ sessions[s].status = "CLOSED" => sessions'[s].status = "CLOSED"
<1>1. ASSUME Inv, NEW s \in Ids, sessions[s] # NoSession
      PROVE  sessions[s] = [sessions[s] EXCEPT !.status = sessions[s].status]
  <2>1. sessions[s] \in Session
    BY <1>1 DEF Inv, TypeOK
  <2> QED
    BY <2>1 DEF Session
<1>2. ASSUME Inv, sessions' = sessions PROVE Stays
  BY <1>1, <1>2
<1>3. ASSUME Inv, NEW c \in Connections, Commit(c) PROVE Stays
  <2>1. req[c] # Idle
    BY <1>3 DEF Commit, Idle
  <2>2. req[c].id \in Ids /\ sessions[req[c].id] = NoSession
    BY <1>3, <2>1, RequestAt DEF Sound, Request
  <2>3. ASSUME NEW s \in Ids, sessions[s] # NoSession
        PROVE  /\ sessions'[s] = [sessions[s] EXCEPT !.status = sessions'[s].status]
               /\ sessions[s].status = "CLOSED" => sessions'[s].status = "CLOSED"
    <3>1. CASE sessions'[s] = sessions[s]
      BY <1>1, <1>3, <2>3, <3>1
    <3>2. CASE sessions'[s] = [sessions[s] EXCEPT !.status = "CLOSED"] /\ sessions'[s].status = "CLOSED"
      BY <3>2
    <3> QED
      BY <1>3, <2>2, <2>3, <3>1, <3>2, CommitSessions
  <2> QED
    BY <2>3
<1>5. Inv /\ [Next]_vars => [Stays]_vars
  <2> SUFFICES ASSUME Inv, Next PROVE Stays
    OBVIOUS
  <2>1. ASSUME NEW c \in Connections, Serve(c) \/ RollBack(c), ~Commit(c) PROVE sessions' = sessions
    BY <2>1 DEF Serve, TakeLock, Resolve, TakeScope, RollBack
  <2>2. ASSUME NEW a \in Admins, Administrator(a) PROVE sessions' = sessions
    BY <2>2 DEF Administrator, ReadSettings, BeginUpdate, AnswerUpdate, CommitUpdate, FailUpdate, BeginRevision,
                CommitRevision, FailRevision, phoneVars
  <2>3. \/ sessions' = sessions
        \/ \E c \in Connections : Commit(c)
    BY <2>1, <2>2 DEF Next, Send
  <2> QED
    BY <1>2, <1>3, <2>3
<1>6. BindingStays <=> [][Stays]_vars
  BY DEF BindingStays
<1> HIDE DEF Stays
<1> QED
  BY Invariance, <1>5, <1>6, PTL DEF Spec

===============================================================================
