------------------------------- MODULE Answering -------------------------------
(***************************************************************************)
(* Questions that a solver and a verifier answer without knowing of each   *)
(* other, and an arbiter where they disagree or doubt.  Each of the three  *)
(* asks Anthropic, again after a technical failure, and DeepSeek when      *)
(* Anthropic is given up; a semaphore for each provider limits the calls.  *)
(*                                                                         *)
(* The steps are in the order of the workflow (process_exam), whose        *)
(* activities for them are stubs.                                          *)
(***************************************************************************)
EXTENDS Naturals, Sequences, FiniteSets

CONSTANTS
  Questions,
  Letters,     \* A to E
  MaxRetries,  \* max_retries of run_with_fallback
  Limit,       \* MAX_LLM_CONCURRENCY
  Settings,    \* exams: their questions, what is known of these, are there doubts?
  None

VARIABLES
  exam,      \* the exam of the behaviour
  question   \* the state of each question

avars == <<exam, question>>

Conflicts == {"ocr_conflict", "visual_dependency", "evidence_conflict"}

ASSUME AnsweringAssumption ==
  /\ MaxRetries \in Nat /\ Limit \in Nat \ {0}
  /\ Settings \subseteq [questions : SUBSET Questions, known : SUBSET SUBSET Conflicts, doubts : BOOLEAN]
  /\ None \notin Letters \cup {"anthropic", "deepseek"}

Roles == {"solve", "verify", "arbitrate"}

(* needs_visual_recheck of the solver, verification_status of the          *)
(* verifier; the decision of the arbiter is not looked at.                 *)
Statuses(role) ==
  {"confident"} \cup {s \in {"recheck"} : role = "solve"} \cup {s \in {"uncertain", "ambiguous"} : role = "verify"}

(* What a role returns: its letter; a flag whose text says ambiguous or    *)
(* critical; and its status.                                               *)
Result(role) == [letter : Letters, flagged : IF exam.doubts THEN BOOLEAN ELSE {FALSE},
                 status : IF exam.doubts THEN Statuses(role) ELSE {"confident"}]

Absent == [stage |-> "absent", provider |-> None, calling |-> FALSE, failures |-> <<>>, known |-> {},
           offered |-> {}, solved |-> None, verified |-> None, ruled |-> None]

AnsweringInit ==
  /\ exam \in Settings
  /\ question = [q \in Questions |-> Absent]

-------------------------------------------------------------------------------
(* Failures of a call: a timeout, a 429, a network error or a 5xx; a       *)
(* response that is no JSON of the schema, a letter outside A to E         *)
(* included, or has no text; a 4xx or a missing key; a letter from A to E  *)
(* that is none of the alternatives; anything else.                        *)
Failures == {"timeout", "schema", "client", "alternative", "other"}

(* classify_error: what is worth another attempt, or another provider.     *)
Technical == {"timeout", "schema"}

(* should_arbitrate.  A verifier that calls the question ambiguous in its  *)
(* status alone triggers nothing.                                          *)
LooksAgain(x) == x.solved.status = "recheck" \/ x.verified.status = "uncertain"

Triggers(x) ==
  {t \in {"disagreement"} : x.solved.letter # x.verified.letter}
  \cup {t \in {"ambiguity_flag"} : x.solved.flagged \/ x.verified.flagged}
  \cup (x.known \cap {"ocr_conflict", "evidence_conflict"})
  \cup {t \in x.known \cap {"visual_dependency"} : LooksAgain(x)}

(* Mutant: only a disagreement is arbitrated.                              *)
NeedsArbiterIfDifferent(x) == x.solved.letter # x.verified.letter

NeedsArbiter(x) == Triggers(x) # {}

-------------------------------------------------------------------------------
Asks(x, role) == [x EXCEPT !.stage = role, !.provider = "anthropic", !.calling = FALSE, !.failures = <<>>]
Stops(x, stage) == [x EXCEPT !.stage = stage, !.provider = None, !.calling = FALSE, !.failures = <<>>]

Pose(q, known, letters) ==
  /\ q \in exam.questions /\ question[q] = Absent
  /\ known \in exam.known /\ letters # {}
  /\ question' = [question EXCEPT ![q] = Asks([Absent EXCEPT !.known = known, !.offered = letters], "solve")]
  /\ UNCHANGED exam

Calling(provider) == {q \in Questions : question[q].calling /\ question[q].provider = provider}

(* The semaphore of the provider is held around the call alone.            *)
Acquire(q) ==
  /\ question[q].stage \in Roles /\ ~question[q].calling
  /\ Cardinality(Calling(question[q].provider)) < Limit
  /\ question' = [question EXCEPT ![q].calling = TRUE]
  /\ UNCHANGED exam

(* The next step of a question, with the result of this one.               *)
After(x, r) ==
  LET verified == [x EXCEPT !.verified = r] IN
    CASE x.stage = "solve" -> Asks([x EXCEPT !.solved = r], "verify")
      [] x.stage = "verify" -> IF NeedsArbiter(verified) THEN Asks(verified, "arbitrate") ELSE Stops(verified, "answered")
      [] x.stage = "arbitrate" -> Stops([x EXCEPT !.ruled = r.letter], "answered")

Answers(q, provider, r) ==
  /\ question[q].calling /\ question[q].provider = provider
  /\ r.letter \in question[q].offered
  /\ question' = [question EXCEPT ![q] = After(@, r)]
  /\ UNCHANGED exam

AnthropicAnswers(q, r) == Answers(q, "anthropic", r)
DeepSeekAnswers(q, r) == Answers(q, "deepseek", r)

(* run_with_fallback: a technical failure uses up an attempt, and the last *)
(* attempt is followed by the other provider; any other failure ends it.   *)
AnthropicFails(q, kind) ==
  LET x == question[q]  failures == Append(x.failures, kind) IN
    /\ x.calling /\ x.provider = "anthropic"
    /\ question' = [question EXCEPT ![q] =
                      IF kind \notin Technical THEN Stops(x, "error")
                      ELSE [x EXCEPT !.failures = failures, !.calling = FALSE,
                                     !.provider = IF Len(failures) > MaxRetries THEN "deepseek" ELSE @]]
    /\ UNCHANGED exam

(* Whatever fails now is LLM_ALL_PROVIDERS_FAILED.                         *)
DeepSeekFails(q) ==
  /\ question[q].calling /\ question[q].provider = "deepseek"
  /\ question' = [question EXCEPT ![q] = Stops(@, "error")]
  /\ UNCHANGED exam

AnsweringNext ==
  \E q \in Questions :
    \/ \E known \in SUBSET Conflicts, letters \in SUBSET Letters : Pose(q, known, letters)
    \/ Acquire(q)
    \/ \E r \in Result(question[q].stage) : AnthropicAnswers(q, r) \/ DeepSeekAnswers(q, r)
    \/ \E kind \in Failures : AnthropicFails(q, kind)
    \/ DeepSeekFails(q)

-------------------------------------------------------------------------------
(* The answer of a question: the arbiter's, or the one the two agree on.   *)
Letter(x) == IF x.ruled # None THEN x.ruled ELSE x.solved.letter

(* A question is only answered with a letter that was offered, and that    *)
(* solver and verifier both gave or the arbiter ruled.  It is never        *)
(* answered without the arbiter where the two differ, one of them flags an *)
(* ambiguity, the OCR or the evidence is in conflict, or, of a question    *)
(* that depends on its image, the solver wants to look again or the        *)
(* verifier is uncertain.  The other provider is asked only when every     *)
(* attempt at the first one failed technically: never for a letter that    *)
(* was given but not offered.                                              *)
AnswersAreArbitrated ==
  \A q \in Questions : LET x == question[q] IN
    /\ x.stage = "answered" =>
         /\ Letter(x) \in x.offered
         /\ x.ruled = None => /\ x.solved.letter = x.verified.letter
                              /\ ~x.solved.flagged /\ ~x.verified.flagged
                              /\ x.known \subseteq {"visual_dependency"}
                              /\ x.known = {} \/ ~LooksAgain(x)
    /\ x.provider = "deepseek" =>
         /\ Len(x.failures) = MaxRetries + 1
         /\ \A i \in DOMAIN x.failures : x.failures[i] \notin {"client", "alternative", "other"}
===============================================================================
