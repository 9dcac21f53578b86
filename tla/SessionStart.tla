----------------------------- MODULE SessionStart -----------------------------
(***************************************************************************)
(* How a session comes to be: the requests that start, resume, keep alive  *)
(* and end a session, the administrator's versioned settings and camera    *)
(* profiles they take their snapshot from, and the locks they all wait for.*)
(*                                                                         *)
(* A start locks the row of its gateway, then that of its device, reads    *)
(* the settings without a lock, and may have to create the default camera  *)
(* profile under an advisory lock of the profile's scope.  It answers and  *)
(* commits only then; what it wrote is visible from the commit on.  There  *)
(* is no idempotency key: a start whose answer was lost is a new request.  *)
(* An end-signal locks its session and gateway, a cancellation (or retry)  *)
(* of an administrator its session, device and gateway, in one statement,  *)
(* which PostgreSQL locks in the order of its tables.                      *)
(***************************************************************************)
EXTENDS Naturals, Sequences, FiniteSets

CONSTANTS
  Connections,  \* requests at one time, each about one phone
  Gateways,     \* phones
  Devices,      \* ESPs and the cameras of the phones
  Admins,       \* administrators' browsers
  Global,       \* the scope of the profiles for all devices
  Values,       \* contents of the settings
  MaxRequests,  \* bound on requests, and the ids of sessions
  MaxVersion,   \* bound on versions of the settings
  MaxRevision,  \* bound on revisions of a profile, the defaults of starts included
  Scenes,       \* who takes part in a behaviour
  None

VARIABLES
  scene,      \* the scene of the behaviour
  registered, \* gateways and devices that have a row
  sessions,   \* sessions by id
  stamp,      \* requests sent, in the order of created_at
  req,        \* the request on each connection
  settings,   \* the row of admin_settings, version 0: no row
  form,       \* the settings as each browser has loaded them
  editing,    \* the form of a PUT that has locked the row, and what it answers
  profiles,   \* camera_profile_revisions of each scope
  creating,   \* the scope a POST has locked, and the latest revision there
  published,  \* history: settings ever in force
  accepted    \* history: what each committed PUT had loaded, and replaced

phoneVars == <<registered, sessions, stamp, req>>
settingsVars == <<settings, form, editing, published, accepted>>
profileVars == <<profiles, creating>>
vars == <<scene, phoneVars, settingsVars, profileVars>>

Starts == {"EXAM", "HANDWRITTEN_WORD"}
Ends == {"END", "CANCEL"}
Kinds == Starts \cup Ends \cup {"HEARTBEAT", "HELLO"}

(* The gateway of each connection, what it asks for, and the devices an    *)
(* operator has disabled; the administrators and what they do; the flag    *)
(* CAMERA_CONTRACT_V2_ENABLED; how many requests there are.                *)
Scene == [gateway : [Connections -> Gateways], kinds : SUBSET Kinds, disabled : SUBSET Devices,
          editors : SUBSET Admins, profilers : SUBSET Admins, v2 : BOOLEAN, requests : 0 .. MaxRequests]

ASSUME StartAssumption ==
  /\ Scenes \subseteq Scene
  /\ {MaxRequests, MaxVersion, MaxRevision} \subseteq Nat
  /\ {None, Global} \cap (Gateways \cup Devices \cup Admins \cup Values) = {} /\ None # Global
  /\ Gateways \cap Devices = {}

Ids == 1 .. MaxRequests

(* Profiles are for one camera mode; those of another share nothing.       *)
Scopes == Devices \cup {Global}

(* Version 0 stands for the values of the environment, without a row.      *)
Settings == [version : Nat, value : Values \cup {None}]
NoSettings == [version |-> 0, value |-> None]

Session == [gateway : Gateways, device : Devices, kind : Starts,
            status : {"CAPTURING", "CLOSED"}, settings : Settings, profile : Nat]
NoSession == [gateway |-> None, device |-> None, kind |-> "none", status |-> "none",
              settings |-> NoSettings, profile |-> 0]

Revision == [revision : Nat, active : BOOLEAN, default : BOOLEAN]

Locks == {"session", "gateway", "device", "scope"}
Request == [pc : {"locking", "resolve", "scope", "commit"}, kind : Kinds,
            device : Devices, new : BOOLEAN, hint : Ids \cup {None}, v2 : BOOLEAN, id : Ids,
            held : SUBSET Locks, row : Session \cup {NoSession}, answer : Ids \cup {None},
            latest : Nat, default : BOOLEAN]
Idle == [pc |-> "idle", id |-> None, held |-> {}]

NotCreating == [scope |-> None, latest |-> 0]
Edit == [sent : Settings, new : Settings]
NotEditing == [sent |-> NoSettings, new |-> NoSettings]

Init ==
  /\ scene \in Scenes
  /\ registered \in {scene.disabled, Gateways \cup Devices}
  /\ sessions = [s \in Ids |-> NoSession]
  /\ stamp = 0
  /\ req = [c \in Connections |-> Idle]
  /\ settings = NoSettings
  /\ form = [a \in Admins |-> NoSettings]
  /\ editing = [a \in Admins |-> NotEditing]
  /\ profiles = [s \in Scopes |-> <<>>]
  /\ creating = [a \in Admins |-> NotCreating]
  /\ published = {NoSettings}
  /\ accepted = {}

-------------------------------------------------------------------------------
(* Requests about a phone.                                                 *)

Gateway(c) == scene.gateway[c]

(* A start may ask for no new session (an ESP with a session on its card)  *)
(* and may name the one it means, even one whose start was answered and    *)
(* never committed; only the phone's button, which asks for a new session  *)
(* and names none, says that its camera has the version 2 contract.  An    *)
(* end names its session; one of no session is refused without a lock.     *)
Send(c, kind, d, new, hint, v2) ==
  /\ req[c] = Idle /\ stamp < scene.requests
  /\ kind \in scene.kinds
  /\ kind # "EXAM" \/ v2 => new
  /\ kind \notin Ends \cup {"EXAM"} \/ v2 => hint = None
  /\ kind \in Ends => hint # None /\ sessions[hint].gateway = Gateway(c) /\ sessions[hint].device = d
  /\ v2 => scene.v2 /\ kind = "EXAM"
  /\ stamp' = stamp + 1
  /\ req' = [req EXCEPT ![c] = [pc |-> "locking", kind |-> kind, device |-> d, new |-> new,
                                hint |-> hint, v2 |-> v2, id |-> stamp', held |-> {}, row |-> NoSession,
                                answer |-> None, latest |-> 0, default |-> FALSE]]
  /\ UNCHANGED <<scene, registered, sessions, settingsVars, profileVars>>

Ordered(kind, others) ==
  CASE kind = "HELLO" -> <<"gateway">>
    [] kind = "END" -> <<"session", "gateway">>
    [] kind = "CANCEL" -> <<"session", "device", "gateway">>
    [] OTHER -> others

(* Mutant: a handwritten session locks its device first.                   *)
LockOrderByKind(kind) ==
  Ordered(kind, IF kind = "HANDWRITTEN_WORD" THEN <<"device", "gateway">> ELSE <<"gateway", "device">>)

LockOrder(kind) == Ordered(kind, <<"gateway", "device">>)

SameRow(c, o, lock) ==
  CASE lock = "session" -> req[c].hint = req[o].hint
    [] lock = "gateway" -> Gateway(c) = Gateway(o)
    [] lock = "device" -> req[c].device = req[o].device

(* SELECT ... FOR UPDATE, or the INSERT of a row that is not there yet; a  *)
(* start of a device that is disabled is refused.                          *)
TakeLock(c) ==
  /\ req[c].pc = "locking"
  /\ LET r == req[c]
         order == LockOrder(r.kind)
         lock == order[Cardinality(r.held) + 1]
         done == Cardinality(r.held) + 1 = Len(order) IN
       /\ \A o \in Connections \ {c} : lock \in req[o].held => ~SameRow(c, o, lock)
       /\ req' = [req EXCEPT ![c] =
                    IF lock = "device" /\ r.device \in scene.disabled /\ r.kind \in Starts THEN Idle
                    ELSE [r EXCEPT !.held = r.held \cup {lock}, !.pc = IF done THEN "resolve" ELSE r.pc]]
  /\ UNCHANGED <<scene, registered, sessions, stamp, settingsVars, profileVars>>

Answers(c, s, row, pc) == req' = [req EXCEPT ![c].answer = s, ![c].row = row, ![c].pc = pc]

Own(c, s) == sessions[s].gateway = Gateway(c) /\ sessions[s].device = req[c].device
Capturing(c) == {s \in Ids : Own(c, s) /\ sessions[s].status = "CAPTURING"}

(* Mutant: without a hint, the newest session of the device is resumed.    *)
ResumableAnywhere(c) ==
  IF req[c].hint # None THEN {s \in Ids : s = req[c].hint /\ Own(c, s)}
  ELSE LET S == {s \in Ids : sessions[s].device = req[c].device /\ sessions[s].status = "CAPTURING"} IN
         {s \in S : ~req[c].new /\ \A t \in S : t <= s}

(* The session a start is about: the one its hint names, or, when no new   *)
(* one may be created, the newest that captures.                           *)
Resumable(c) ==
  IF req[c].hint # None THEN {s \in Ids : s = req[c].hint /\ Own(c, s)}
  ELSE {s \in Capturing(c) : ~req[c].new /\ \A t \in Capturing(c) : t <= s}

NewSession(c, kind, profile) ==
  [gateway |-> Gateway(c), device |-> req[c].device, kind |-> kind, status |-> "CAPTURING",
   settings |-> settings, profile |-> profile]

(* active_profile of the scope sessions use, read without its lock.        *)
Active(sc) == {i \in DOMAIN profiles[sc] : profiles[sc][i].active}
Refused(c) == req' = [req EXCEPT ![c] = Idle]

(* A resumed session is answered as it is; a hint of a session that is     *)
(* over is refused, one of no session at all is not, unless the phone asks *)
(* for no new one.  The settings are read here, for good.                  *)
Resume(c) ==
  /\ Resumable(c) # {}
  /\ \E s \in Resumable(c) : IF sessions[s].status = "CAPTURING" THEN Answers(c, s, NoSession, "commit") ELSE Refused(c)

Create(c) ==
  LET r == req[c]  sc == Global IN
    IF ~scene.v2 \/ r.kind = "HANDWRITTEN_WORD" THEN Answers(c, r.id, NewSession(c, r.kind, 0), "commit")
    ELSE IF ~r.v2 THEN Refused(c)
    ELSE IF Active(sc) = {} THEN Answers(c, r.id, NewSession(c, r.kind, 0), "scope")
    ELSE \E i \in Active(sc) : /\ \A j \in Active(sc) : j <= i
                               /\ Answers(c, r.id, NewSession(c, r.kind, profiles[sc][i].revision), "commit")

(* The session an end closes: the one it names, while it captures.  (Its   *)
(* device is enabled, as it was when the session started.)                 *)
Closable(c) == {s \in Capturing(c) : s = req[c].hint}

End(c) == \E s \in IF Closable(c) = {} THEN {None} ELSE Closable(c) : Answers(c, s, NoSession, "commit")

Resolve(c) ==
  /\ req[c].pc = "resolve"
  /\ CASE req[c].kind \in Ends -> End(c)
       [] req[c].kind \in {"HEARTBEAT", "HELLO"} -> Answers(c, None, NoSession, "commit")
       [] req[c].kind = "HANDWRITTEN_WORD" -> Create(c)
       [] req[c].kind = "EXAM" -> \/ Resume(c)
                                  \/ Resumable(c) = {} /\ IF req[c].new THEN Create(c) ELSE Refused(c)
  /\ UNCHANGED <<scene, registered, sessions, stamp, settingsVars, profileVars>>

(* Mutant: revisions are allocated without a lock.                         *)
ScopeIsOpen(sc) == TRUE

(* pg_advisory_xact_lock of the scope: another transaction holds it.       *)
ScopeIsFree(sc) ==
  /\ \A c \in Connections : "scope" \in req[c].held => Global # sc
  /\ \A a \in Admins : creating[a].scope # sc

(* ensure_default_profile found no active one.  What is there when it has  *)
(* the lock it supersedes, an administrator's revision too.                *)
TakeScope(c) ==
  /\ req[c].pc = "scope"
  /\ ScopeIsFree(Global)
  /\ LET r == req[c]  n == Len(profiles[Global]) IN
       req' = [req EXCEPT ![c] = [r EXCEPT !.held = r.held \cup {"scope"}, !.latest = n, !.default = TRUE,
                                           !.row = [r.row EXCEPT !.profile = n + 1], !.pc = "commit"]]
  /\ UNCHANGED <<scene, registered, sessions, stamp, settingsVars, profileVars>>

(* A new revision after the row n, which is superseded.                    *)
Revise(rows, n, default) ==
  Append([i \in DOMAIN rows |-> IF i = n THEN [rows[i] EXCEPT !.active = FALSE] ELSE rows[i]],
         [revision |-> n + 1, active |-> TRUE, default |-> default])

(* The answer is sent before the commit, or after it; either may be lost.  *)
Commit(c) ==
  LET r == req[c] IN
    /\ r.pc = "commit"
    /\ registered' = registered \cup {Gateway(c)} \cup (IF r.kind = "HELLO" THEN {} ELSE {r.device})
    /\ sessions' = IF r.row # NoSession THEN [sessions EXCEPT ![r.id] = r.row]
                   ELSE IF r.kind \in Ends /\ r.answer # None THEN [sessions EXCEPT ![r.answer].status = "CLOSED"]
                   ELSE sessions
    /\ profiles' = IF r.default THEN [profiles EXCEPT ![Global] = Revise(@, r.latest, TRUE)] ELSE profiles
    /\ req' = [req EXCEPT ![c] = Idle]
    /\ UNCHANGED <<scene, stamp, settingsVars, creating>>

(* The transaction is rolled back: an INSERT that another request was      *)
(* first with, a commit that fails behind its answer, a lost connection,   *)
(* a victim of PostgreSQL's deadlock detector.                             *)
RollBack(c) ==
  /\ req[c] # Idle
  /\ req' = [req EXCEPT ![c] = Idle]
  /\ UNCHANGED <<scene, registered, sessions, stamp, settingsVars, profileVars>>

-------------------------------------------------------------------------------
(* The administrators.                                                     *)

(* GET creates the row; its defaults are not those of the environment.     *)
ReadSettings(a, v) ==
  /\ a \in scene.editors
  /\ settings.version = 0 \/ v = settings.value
  /\ settings' = IF settings.version = 0 THEN [version |-> 1, value |-> v] ELSE settings
  /\ settings.version = 0 => \A b \in Admins : editing[b] = NotEditing
  /\ published' = published \cup {settings'}
  /\ form' = [form EXCEPT ![a] = settings']
  /\ form'[a] # form[a]
  /\ UNCHANGED <<scene, phoneVars, editing, accepted, profileVars>>

(* Mutant: the row is read without FOR UPDATE.                             *)
RowIsOpen(a) == TRUE

RowIsFree(a) == \A b \in Admins \ {a} : editing[b] = NotEditing

(* PUT of a form of the current version; any other is refused.             *)
BeginUpdate(a, v) ==
  /\ editing[a] = NotEditing
  /\ form[a].version \in 1 .. MaxVersion - 1 /\ form[a].version = settings.version
  /\ RowIsFree(a)
  /\ editing' = [editing EXCEPT ![a] = [sent |-> form[a],
                                        new |-> [version |-> settings.version + 1, value |-> v]]]
  /\ UNCHANGED <<scene, phoneVars, settings, form, published, accepted, profileVars>>

(* The answer leaves before the commit, and may be lost; the browser goes  *)
(* on with the version it names.                                           *)
AnswerUpdate(a) ==
  /\ editing[a] # NotEditing
  /\ form' = [form EXCEPT ![a] = editing[a].new]
  /\ UNCHANGED <<scene, phoneVars, settings, editing, published, accepted, profileVars>>

CommitUpdate(a) ==
  /\ editing[a] # NotEditing
  /\ settings' = editing[a].new
  /\ published' = published \cup {settings'}
  /\ accepted' = accepted \cup {[loaded |-> editing[a].sent, replaced |-> settings]}
  /\ editing' = [editing EXCEPT ![a] = NotEditing]
  /\ UNCHANGED <<scene, phoneVars, form, profileVars>>

FailUpdate(a) ==
  /\ editing[a] # NotEditing
  /\ editing' = [editing EXCEPT ![a] = NotEditing]
  /\ UNCHANGED <<scene, phoneVars, settings, form, published, accepted, profileVars>>

(* POST of a revision for all devices or for one that has a row; nothing   *)
(* of it happens without the flag.                                         *)
BeginRevision(a, sc) ==
  /\ a \in scene.profilers /\ scene.v2
  /\ creating[a] = NotCreating
  /\ sc \in registered \cup {Global}
  /\ ScopeIsFree(sc) /\ Len(profiles[sc]) + Cardinality(Connections) < MaxRevision
  /\ creating' = [creating EXCEPT ![a] = [scope |-> sc, latest |-> Len(profiles[sc])]]
  /\ UNCHANGED <<scene, phoneVars, settingsVars, profiles>>

CommitRevision(a) ==
  LET w == creating[a] IN
    /\ w # NotCreating
    /\ profiles' = [profiles EXCEPT ![w.scope] = Revise(@, w.latest, FALSE)]
    /\ creating' = [creating EXCEPT ![a] = NotCreating]
    /\ UNCHANGED <<scene, phoneVars, settingsVars>>

FailRevision(a) ==
  /\ creating[a] # NotCreating
  /\ creating' = [creating EXCEPT ![a] = NotCreating]
  /\ UNCHANGED <<scene, phoneVars, settingsVars, profiles>>

-------------------------------------------------------------------------------
Serve(c) == TakeLock(c) \/ Resolve(c) \/ TakeScope(c) \/ Commit(c)

Administrator(a) ==
  \/ AnswerUpdate(a) \/ CommitUpdate(a) \/ FailUpdate(a) \/ FailRevision(a) \/ CommitRevision(a)
  \/ \E v \in Values : ReadSettings(a, v) \/ BeginUpdate(a, v)
  \/ \E sc \in Scopes : BeginRevision(a, sc)

Next ==
  \/ \E c \in Connections, kind \in Kinds, d \in Devices, new, v2 \in BOOLEAN,
     hint \in 1 .. stamp \cup {None} : Send(c, kind, d, new, hint, v2)
  \/ \E c \in Connections : Serve(c) \/ RollBack(c)
  \/ \E a \in Admins : Administrator(a)

(* The server goes on with every request, and ends every transaction.      *)
(* PostgreSQL queues those that wait for a lock: whoever finds it free     *)
(* again and again gets it.                                                *)
Fairness ==
  /\ \A c \in Connections : WF_vars(Resolve(c) \/ Commit(c)) /\ SF_vars(TakeLock(c)) /\ SF_vars(TakeScope(c))
  /\ \A a \in Admins : WF_vars(CommitRevision(a) \/ FailRevision(a))

Spec == Init /\ [][Next]_vars /\ Fairness

-------------------------------------------------------------------------------
(* Types.                                                                  *)
TypeOK ==
  /\ scene \in Scenes /\ registered \subseteq Gateways \cup Devices /\ stamp \in 0 .. MaxRequests
  /\ sessions \in [Ids -> Session \cup {NoSession}]
  /\ req \in [Connections -> Request \cup {Idle}]
  /\ settings \in Settings /\ form \in [Admins -> Settings] /\ editing \in [Admins -> Edit]
  /\ profiles \in [Scopes -> Seq(Revision)]
  /\ creating \in [Admins -> [scope : Scopes \cup {None}, latest : Nat]]
  /\ published \subseteq Settings
  /\ accepted \subseteq [loaded : Settings, replaced : Settings]

(* Whoever creates revisions at the same time, the default of a starting   *)
(* session included, and also where the scope is empty or has no device    *)
(* (where the UNIQUE constraint does not hold): they are numbered without  *)
(* a gap or a repetition, and only the newest is active.                   *)
OneActiveRevision ==
  \A sc \in Scopes : \A i \in DOMAIN profiles[sc] :
    /\ profiles[sc][i].revision = i
    /\ profiles[sc][i].active <=> i = Len(profiles[sc])

(* An administrator whose form holds settings that have been in force      *)
(* undoes no update not seen (a form may hold an answer whose commit       *)
(* failed: its version is then another administrator's).  A version of the *)
(* settings, which sessions name in their snapshot, has one content.       *)
SettingsAreVersioned ==
  /\ \A u \in accepted : u.loaded \in published => u.loaded = u.replaced
  /\ \A s, t \in published \cup {sessions[i].settings : i \in Ids} : s.version = t.version => s = t

(* A phone is never resumed into a session of another phone or device; an  *)
(* exam has a profile exactly if the contract is on, and it is a revision  *)
(* that was committed, even where a start creates it.                      *)
SessionsAreBound ==
  /\ \A c \in Connections :
       req[c].pc = "commit" /\ req[c].row = NoSession /\ req[c].answer # None => Own(c, req[c].answer)
  /\ \A s \in Ids : sessions[s].profile \in IF scene.v2 /\ sessions[s].kind = "EXAM"
                                            THEN 1 .. Len(profiles[Global]) ELSE {0}

(* What a session is bound to when it is created, its phone, device,       *)
(* settings and profile, stays, whatever is answered late or asked again,  *)
(* and one that is over is not opened again.                               *)
BindingStays ==
  [][\A s \in Ids : sessions[s] # NoSession =>
       /\ sessions'[s] = [sessions[s] EXCEPT !.status = sessions'[s].status]
       /\ sessions[s].status = "CLOSED" => sessions'[s].status = "CLOSED"]_vars

(* A request waits for another that holds the lock it needs next.          *)
WaitsFor(c, o) ==
  \/ LET lock == LockOrder(req[c].kind)[Cardinality(req[c].held) + 1] IN
       req[c].pc = "locking" /\ lock \in req[o].held /\ SameRow(c, o, lock)
  \/ req[c].pc = "scope" /\ "scope" \in req[o].held

(* Of requests that all wait, each waits for another of them.              *)
Circle(W) == W # {} /\ \A c \in W : \E o \in W \ {c} : WaitsFor(c, o)
Cancels == {c \in Connections : req[c].pc # "idle" /\ req[c].kind = "CANCEL"}

(* Requests of phones, and the administrator's transactions, which hold    *)
(* one lock and wait for none, never wait in a circle: only a cancellation *)
(* or a retry, which locks the device before the gateway, can close one.   *)
NoCircle == \A W \in SUBSET Connections : Circle(W) => W \cap Cancels # {}

(* Every request is answered or rolled back: the locks of sessions,        *)
(* gateways, devices and scopes are never waited for in a circle, but with *)
(* a cancellation, until PostgreSQL's detector rolls one of them back.     *)
RequestsEnd ==
  \A c \in Connections :
    req[c] # Idle ~> req[c] = Idle \/ \E W \in SUBSET Connections : Circle(W) /\ W \cap Cancels # {}
===============================================================================
