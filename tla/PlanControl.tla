------------------------------ MODULE PlanControl ------------------------------
(***************************************************************************)
(* The controller of the production plan (scripts/plan_control.py): gates, *)
(* completed in their order, each with the kinds of evidence it requires.  *)
(*                                                                         *)
(* Every command is a process of its own that reads the state, and         *)
(* replaces the file, then the dashboard; there is no lock, and it may be  *)
(* killed between two steps.                                               *)
(***************************************************************************)
EXTENDS Naturals, Sequences, FiniteSets, FiniteSetsExt, SequencesExt

CONSTANTS
  Runners,     \* commands that run at one time
  Workflow,    \* the gates of DEFINITIONS, in their order
  Legacy,      \* the gates of a file an earlier controller has left
  Required,    \* the kinds of evidence of each gate
  MaxBlockers, \* bound: blockers of one gate that are not resolved
  NoFile

VARIABLES
  file,       \* the gates in their order, and what is known of each
  dashboard,  \* what the dashboard shows
  runner      \* what each command is at

plvars == <<file, dashboard, runner>>

Absorbed == ToSet(Legacy) \ ToSet(Workflow)

(* No gate is there twice, and those that are kept keep their order.       *)
ASSUME PlanAssumption ==
  /\ MaxBlockers \in Nat
  /\ Workflow \in Seq(ToSet(Legacy)) /\ Legacy \in Seq(ToSet(Legacy))
  /\ IsInjective(Workflow) /\ IsInjective(Legacy)
  /\ \A i, j \in DOMAIN Workflow, k, l \in DOMAIN Legacy :
       i < j /\ Legacy[k] = Workflow[i] /\ Legacy[l] = Workflow[j] => k < l
  /\ \A g \in ToSet(Legacy) : Required[g] # {}

-------------------------------------------------------------------------------
(* new_state.  "target" is the gate's target status, VALIDADO_LOCAL or     *)
(* VALIDADO_PRODUCAO.  Of the evidence, its kinds; of the blockers, how    *)
(* many are not resolved.                                                  *)
NewPlan(gates) ==
  [order |-> gates,
   gates |-> [g \in ToSet(gates) |-> [status |-> "PENDENTE", evidence |-> {}, open |-> 0]]]

GateDone(plan, g) == plan.gates[g].status = "target"

Undone(plan) == {i \in DOMAIN plan.order : ~GateDone(plan, plan.order[i])}

(* active: the first gate that is not complete; the gate it depends on is  *)
(* the one before it.                                                      *)
ActiveGate(plan) == plan.order[Min(Undone(plan))]

IsActive(plan, g) == Undone(plan) # {} /\ g = ActiveGate(plan)

(* render.                                                                 *)
Shown(plan) ==
  [done |-> Cardinality(DOMAIN plan.order \ Undone(plan)), of |-> Len(plan.order),
   next |-> IF Undone(plan) = {} THEN NoFile ELSE ActiveGate(plan),
   blocked |-> {g \in ToSet(plan.order) : plan.gates[g].open > 0}]

(* errors: the gates are not those of the controller.                      *)
HasErrors(plan) == plan.order # Workflow

(* final-check.                                                            *)
FinalIssues(plan) ==
  {e \in {"errors"} : HasErrors(plan)} \cup
  {g \in ToSet(plan.order) : ~GateDone(plan, g) \/ ~(Required[g] \subseteq plan.gates[g].evidence)
                             \/ plan.gates[g].open > 0}

NoCommand == [pc |-> "idle", plan |-> NoFile]

PlanInit ==
  /\ file \in {NoFile, NewPlan(Legacy)}
  /\ dashboard = NoFile
  /\ runner = [r \in Runners |-> NoCommand]

-------------------------------------------------------------------------------
(* A command that has read the file, and what it is about to write.        *)

Loads(r) == runner[r].pc = "idle" /\ file # NoFile

Writes(r, pc, plan) ==
  /\ runner' = [runner EXCEPT ![r] = [pc |-> pc, plan |-> plan]]
  /\ UNCHANGED <<file, dashboard>>

(* The gate g of the file, changed.                                        *)
Changes(r, g, gate) == Writes(r, "save", [file EXCEPT !.gates[g] = gate])

InitPlan(r) ==
  /\ runner[r].pc = "idle" /\ file = NoFile
  /\ Writes(r, "save", NewPlan(Workflow))

Verify(r) ==
  /\ Loads(r) /\ ~HasErrors(file)
  /\ Writes(r, "render", file)

(* A gate that is started already is left alone.                           *)
Start(r, g) ==
  /\ Loads(r) /\ IsActive(file, g)
  /\ file.gates[g].status = "PENDENTE"
  /\ Changes(r, g, [file.gates[g] EXCEPT !.status = "EM_EXECUCAO"])

Evidence(r, g, kind) ==
  /\ Loads(r) /\ IsActive(file, g)
  /\ file.gates[g].status \notin {"PENDENTE", "BLOQUEADO"}
  /\ Changes(r, g, [file.gates[g] EXCEPT !.evidence = @ \cup {kind}])

Complete(r, g) ==
  /\ Loads(r) /\ IsActive(file, g)
  /\ file.gates[g].status # "BLOQUEADO"
  /\ Required[g] \subseteq file.gates[g].evidence
  /\ Changes(r, g, [file.gates[g] EXCEPT !.status = "target"])

(* A blocked gate may be blocked again.                                    *)
Block(r, g) ==
  /\ Loads(r) /\ IsActive(file, g)
  /\ file.gates[g].open < MaxBlockers
  /\ Changes(r, g, [file.gates[g] EXCEPT !.status = "BLOQUEADO", !.open = @ + 1])

(* Mutant: one of the blockers is resolved.                                *)
UnblockOne(r, g) ==
  /\ Loads(r) /\ g \in ToSet(file.order)
  /\ file.gates[g].status = "BLOQUEADO" /\ file.gates[g].open > 0
  /\ Changes(r, g, [file.gates[g] EXCEPT !.status = "EM_EXECUCAO", !.open = @ - 1])

(* All of its blockers are resolved.                                       *)
Unblock(r, g) ==
  /\ Loads(r) /\ g \in ToSet(file.order)
  /\ file.gates[g].status = "BLOQUEADO" /\ file.gates[g].open > 0
  /\ Changes(r, g, [file.gates[g] EXCEPT !.status = "EM_EXECUCAO", !.open = 0])

(* sync-plan: the gates the workflow no longer has are dropped, if nobody  *)
(* has touched one; the next gate gets a note.                             *)
SyncPlan(r) ==
  /\ Loads(r) /\ HasErrors(file)
  /\ \A g \in Absorbed : file.gates[g] = [status |-> "PENDENTE", evidence |-> {}, open |-> 0]
  /\ LET plan == [order |-> Workflow, gates |-> [g \in ToSet(Workflow) |-> file.gates[g]]] IN
       Writes(r, "save", IF Undone(plan) = {} THEN plan
                         ELSE [plan EXCEPT !.gates[ActiveGate(plan)].evidence = @ \cup {"note"}])

(* atomic_write replaces the file.                                         *)
Save(r) ==
  /\ runner[r].pc = "save"
  /\ file' = runner[r].plan
  /\ runner' = [runner EXCEPT ![r].pc = "render"]
  /\ UNCHANGED dashboard

Render(r) ==
  /\ runner[r].pc = "render"
  /\ dashboard' = Shown(runner[r].plan)
  /\ runner' = [runner EXCEPT ![r] = NoCommand]
  /\ UNCHANGED file

Killed(r) ==
  /\ runner[r].pc # "idle"
  /\ runner' = [runner EXCEPT ![r] = NoCommand]
  /\ UNCHANGED <<file, dashboard>>

PlanNext ==
  \E r \in Runners :
    \/ InitPlan(r) \/ Verify(r) \/ SyncPlan(r) \/ Save(r) \/ Render(r) \/ Killed(r)
    \/ \E g \in ToSet(Legacy) :
         \/ Start(r, g) \/ Complete(r, g) \/ Block(r, g) \/ Unblock(r, g)
         \/ \E kind \in Required[g] : Evidence(r, g, kind)

-------------------------------------------------------------------------------
(* Whatever commands run at one time, undo each other or are killed, the   *)
(* file is that of a plan worked through in order: no gate is touched      *)
(* before those in front of it are complete, complete gates have their     *)
(* evidence and no open blocker, and a gate is blocked as long as it has   *)
(* one.  A plan all of whose gates are complete passes the final check of  *)
(* its controller, and the dashboard shows no blocker but of the next gate. *)
PlanIsInOrder ==
  /\ file # NoFile =>
       /\ \A i \in DOMAIN file.order : LET gate == file.gates[file.order[i]] IN
            /\ gate # NewPlan(Legacy).gates[file.order[i]] =>
                 \A j \in 1 .. i - 1 : GateDone(file, file.order[j])
            /\ gate.status = "target" => Required[file.order[i]] \subseteq gate.evidence
            /\ gate.status = "BLOQUEADO" <=> gate.open > 0
       /\ Undone(file) = {} => FinalIssues(file) = {e \in {"errors"} : HasErrors(file)}
  /\ dashboard # NoFile => dashboard.blocked \subseteq {dashboard.next}
===============================================================================
