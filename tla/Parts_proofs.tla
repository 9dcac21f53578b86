------------------------------ MODULE Parts_proofs ------------------------------
(***************************************************************************)
(* Proofs about the parts that have no state in common, each from its own  *)
(* initial states and its own next-state relation.                         *)
(***************************************************************************)
EXTENDS Knowledge, PageOcr, QuestionPipeline, Answering, Reconstruction, PlanControl,
        WellFoundedInduction, SequenceTheorems, FiniteSetTheorems, TLAPS

-------------------------------------------------------------------------------
(* A set of numbers has a smallest one.  The subsets 1 .. y of a finite    *)
(* interval, ordered by strict inclusion, are well-founded.                *)
LEMMA Smallest ==
  ASSUME NEW S, S \subseteq Nat, S # {}
  PROVE  /\ Min(S) \in S
         /\ \A y \in S : Min(S) <= y
<1>1. PICK k \in S : TRUE
  OBVIOUS
<1> DEFINE U == 1 .. k
           T == {1 .. y : y \in {z \in S : z <= k}}
<1>2. k \in Nat
  BY <1>1
<1>3. IsFiniteSet(U)
  BY <1>2, FS_Interval
<1>4. FiniteSubsetsOf(U) = SUBSET U
  BY <1>3, FS_FiniteSubsetsOfFinite
<1>5. IsWellFoundedOn(StrictSubsetOrdering(U), SUBSET U)
  BY <1>4, FS_StrictSubsetOrderingWellFounded
<1>6. T \subseteq SUBSET U
  <2>1. \A y \in {z \in S : z <= k} : y \in Nat /\ y <= k
    OBVIOUS
  <2>2. \A y \in Nat : y <= k => 1 .. y \subseteq 1 .. k
    BY <1>2
  <2> QED
    BY <2>1, <2>2
<1>7. T # {}
  BY <1>1, <1>2
<1> HIDE DEF U
<1>8. PICK t \in T : \A u \in T : ~(<<u, t>> \in StrictSubsetOrdering(U))
  <2> HIDE DEF T
  <2> QED
    BY <1>5, <1>6, <1>7, WFMin
<1>9. PICK x \in S : x <= k /\ t = 1 .. x
  BY <1>8
<1>10. \A y \in S : x <= y
  <2> SUFFICES ASSUME NEW y \in S, ~(x <= y) PROVE FALSE
    OBVIOUS
  <2>1. x \in Nat /\ y \in Nat /\ y < x /\ y <= k
    BY <1>2, <1>9
  <2>2. 1 .. y \in T /\ 1 .. x \in T
    BY <1>9, <2>1
  <2>3. 1 .. y \subseteq 1 .. x
    BY <2>1
  <2>4. x \in 1 .. x /\ x \notin 1 .. y
    BY <2>1
  <2>5. <<1 .. y, 1 .. x>> \in StrictSubsetOrdering(U)
    BY <1>6, <2>2, <2>3, <2>4 DEF StrictSubsetOrdering
  <2> QED
    BY <1>8, <1>9, <2>2, <2>5
<1> QED
  BY <1>9, <1>10 DEF Min

-------------------------------------------------------------------------------
(* QuestionPipeline.                                                       *)

QuestionSpec == PipelineInit /\ [][PipelineNext]_qvars

Beyond(score, critical) == score >= (IF critical THEN 95 ELSE 90)

(* What the step of a question says of its scores: nothing is reviewed     *)
(* before the review, and what is accepted is beyond doubt.                *)
ReviewInv ==
  /\ ocr.spans \subseteq Scores
  /\ stage = "reconcile" => final.score \in Scores
  /\ stage \in {"configure", "ocr", "reconcile"} => review = NoReview
  /\ UnsureIsReviewed

LEMMA ReviewInit == PipelineInit => ReviewInv
  BY DEF PipelineInit, ReviewInv, UnsureIsReviewed

LEMMA JudgedFacts ==
  ASSUME NEW spans \in SUBSET Scores, NEW whole \in Scores
  PROVE  /\ Min(Judged(spans, whole)) \in Scores
         /\ \A s \in Judged(spans, whole) : s \in Nat /\ Min(Judged(spans, whole)) <= s
<1>1. Scores \subseteq Nat
  BY PipelineAssumption
<1>2. Judged(spans, whole) \subseteq Scores
  BY SMT DEF Judged
<1>3. Judged(spans, whole) # {}
  BY SMT DEF Judged
<1> QED
  BY <1>1, <1>2, <1>3, Smallest

LEMMA WorstIsAccepted ==
  ASSUME NEW spans \in SUBSET Scores, NEW whole \in Scores, NEW critical \in BOOLEAN,
         Mode(Min(Judged(spans, whole)), critical) = "accept"
  PROVE  \A s \in Judged(spans, whole) : Beyond(s, critical)
<1> DEFINE worst == Min(Judged(spans, whole))
<1>1. worst \in Nat /\ \A s \in Judged(spans, whole) : s \in Nat /\ worst <= s
  <2>1. Scores \subseteq Nat
    BY PipelineAssumption
  <2> QED
    BY <2>1, JudgedFacts
<1> HIDE DEF worst
<1>2. worst >= (IF critical THEN 95 ELSE 90)
  BY <1>1 DEF Mode, worst
<1> QED
  BY <1>1, <1>2 DEF Beyond

LEMMA ReviewConfigure == ReviewInv /\ (\E model \in Models : Configure(model)) => ReviewInv'
  BY DEF ReviewInv, UnsureIsReviewed, Configure, Goto, NoReview

LEMMA ReviewRecognize ==
  ASSUME ReviewInv, NEW spans \in SUBSET Scores, NEW whole \in Scores, NEW critical \in BOOLEAN,
         NEW letters \in SUBSET Options, Recognize(spans, whole, critical, letters)
  PROVE  ReviewInv'
<1> DEFINE worst == Min(Judged(spans, whole))
<1>1. review' = NoReview /\ ocr' = [spans |-> spans, page |-> whole, critical |-> critical]
  BY DEF ReviewInv, Recognize, NoReview
<1>2. final' = [score |-> worst, mode |-> Mode(worst, critical)]
  BY DEF Recognize, Decide
<1>3. CASE final'.mode = "accept"
  <2>1. \A s \in Judged(spans, whole) : Beyond(s, critical)
    BY <1>2, <1>3, WorstIsAccepted
  <2>2. stage' = "solve"
    BY <1>3 DEF Recognize, Goto
  <2> QED
    BY <1>1, <2>1, <2>2 DEF ReviewInv, UnsureIsReviewed, Beyond, NoReview
<1>4. CASE final'.mode # "accept"
  <2>1. stage' = "reconcile"
    BY <1>4 DEF Recognize, Goto
  <2>2. worst \in Scores
    BY JudgedFacts
  <2> HIDE DEF worst
  <2>3. final'.score \in Scores
    BY <1>2, <2>2
  <2> QED
    BY <1>1, <2>1, <2>3 DEF ReviewInv, UnsureIsReviewed
<1> QED
  BY <1>3, <1>4

LEMMA ReviewReconcile ==
  ASSUME ReviewInv, NEW r \in Reviews, Reconcile(r)
  PROVE  ReviewInv'
<1>1. review' = r /\ ocr' = ocr
  BY DEF Reconcile
<1>2. CASE final'.mode = "manual"
  <2>1. stage' = "manual"
    BY <1>2 DEF Reconcile, Goto
  <2> QED
    BY <1>1, <2>1 DEF ReviewInv, UnsureIsReviewed
<1>3. CASE final'.mode # "manual"
  <2>1. stage' = "solve"
    BY <1>3 DEF Reconcile, Goto
  <2>2. ~(r.ambiguous /\ r.affects) /\ ~(ReviewScore(r) < 50)
    BY <1>3 DEF Reconcile, Finalize
  <2>3. r # NoReview
    BY PipelineAssumption DEF Reviews, NoReview
  <2>4. r.score \in Int /\ (r.sure # Unknown => r.sure \in Int)
    <3>1. Scores \subseteq Int
      BY PipelineAssumption
    <3>2. r.score \in Scores /\ r.sure \in Scores \cup {Unknown}
      BY DEF Reviews
    <3> QED
      BY <3>1, <3>2
  <2>5. /\ ocr.critical /\ r.sure # Unknown => r.sure >= 50
        /\ r.sure = Unknown => r.score >= 50
    BY <2>2, <2>4 DEF ReviewScore
  <2> QED
    BY <1>1, <2>1, <2>2, <2>3, <2>5 DEF ReviewInv, UnsureIsReviewed
<1> QED
  BY <1>2, <1>3

LEMMA TextAloneIsReview ==
  ASSUME ReviewInv, NEW r \in TextAlone, Reconcile(r)
  PROVE  r \in Reviews
<1>1. final.score \in Scores
  BY DEF ReviewInv, Reconcile
<1> QED
  BY <1>1 DEF TextAlone, NoReview, Reviews

LEMMA ReviewSolve == ReviewInv /\ (\E letter \in Options : Solve(letter)) => ReviewInv'
  BY DEF ReviewInv, UnsureIsReviewed, Solve, Goto, NoReview

LEMMA ReviewCallFails == ReviewInv /\ CallFails => ReviewInv'
  BY DEF ReviewInv, UnsureIsReviewed, CallFails, Goto, NoReview

(* The review of the questions of Gemini: what is solved without one is    *)
(* beyond doubt in each of its spans that has a confidence, or in its page *)
(* if none has one; and what is solved after one is not ambiguous and not  *)
(* in doubt; for every set of scores from 0 to 100.                        *)
THEOREM Reviewed == QuestionSpec => []UnsureIsReviewed
<1>1. ReviewInv /\ [PipelineNext]_qvars => ReviewInv'
  <2> SUFFICES ASSUME ReviewInv, [PipelineNext]_qvars PROVE ReviewInv'
    OBVIOUS
  <2>1. CASE \E model \in Models : Configure(model)
    BY <2>1, ReviewConfigure
  <2>2. CASE \E spans \in SUBSET Scores, whole \in Scores, critical \in BOOLEAN, letters \in SUBSET Options :
               Recognize(spans, whole, critical, letters)
    BY <2>2, ReviewRecognize
  <2>3. CASE \E r \in Reviews \cup TextAlone : Reconcile(r)
    BY <2>3, ReviewReconcile, TextAloneIsReview
  <2>4. CASE \E letter \in Options : Solve(letter)
    BY <2>4, ReviewSolve
  <2>5. CASE CallFails
    BY <2>5, ReviewCallFails
  <2>6. CASE UNCHANGED qvars
    BY <2>6 DEF qvars, ReviewInv, UnsureIsReviewed
  <2> QED
    BY <2>1, <2>2, <2>3, <2>4, <2>5, <2>6 DEF PipelineNext
<1>2. ReviewInv => UnsureIsReviewed
  BY DEF ReviewInv
<1> QED
  BY ReviewInit, <1>1, <1>2, PTL DEF QuestionSpec

-------------------------------------------------------------------------------
(* Answering.                                                              *)

AnsweringSpec == AnsweringInit /\ [][AnsweringNext]_avars

Said == [letter : Letters, flagged : BOOLEAN, status : {"confident", "recheck", "uncertain", "ambiguous"}]
Question ==
  [stage : Roles \cup {"absent", "answered", "error"}, provider : {"anthropic", "deepseek", None},
   calling : BOOLEAN, failures : Seq(Failures), known : SUBSET Conflicts, offered : SUBSET Letters,
   solved : Said \cup {None}, verified : Said \cup {None}, ruled : Letters \cup {None}]

(* Who is asked, and how often Anthropic has failed technically.           *)
AskedInv(x) ==
  /\ x.provider = None <=> x.stage \notin Roles
  /\ \A i \in DOMAIN x.failures : x.failures[i] \in Technical
  /\ x.provider = "anthropic" => Len(x.failures) <= MaxRetries
  /\ x.provider = "deepseek" => Len(x.failures) = MaxRetries + 1

(* What is there when a role begins, and when there is an answer.          *)
StageInv(x) ==
  /\ x.stage \in Roles => x.ruled = None
  /\ x.stage \in {"verify", "arbitrate"} => x.solved \in Said /\ x.solved.letter \in x.offered
  /\ x.stage = "answered" =>
       /\ Letter(x) \in x.offered
       /\ x.ruled = None => x.solved \in Said /\ x.verified \in Said /\ ~NeedsArbiter(x)

AnswerInv(x) == x \in Question /\ AskedInv(x) /\ StageInv(x)

AnsweringInv == question \in [Questions -> Question] /\ \A q \in Questions : AnswerInv(question[q])

LEMMA NoFailures == <<>> \in Seq(Failures)
  OBVIOUS

LEMMA AnsweringStarts == AnsweringInit => AnsweringInv
<1>1. AnswerInv(Absent)
  <2>1. Absent \in Question
    BY NoFailures DEF Absent, Question
  <2>2. AskedInv(Absent)
    BY AnsweringAssumption DEF Absent, AskedInv, Roles
  <2>3. StageInv(Absent)
    BY DEF Absent, StageInv, Roles
  <2> QED
    BY <2>1, <2>2, <2>3 DEF AnswerInv
<1>2. Absent \in Question
  BY <1>1 DEF AnswerInv
<1> QED
  BY <1>1, <1>2 DEF AnsweringInit, AnsweringInv

(* One question changes.                                                   *)
LEMMA OneQuestion ==
  ASSUME AnsweringInv, NEW q \in Questions, NEW x, AnswerInv(x),
         question' = [question EXCEPT ![q] = x]
  PROVE  AnsweringInv'
<1>1. question' \in [Questions -> Question]
  BY DEF AnsweringInv, AnswerInv
<1>2. \A p \in Questions : question'[p] = IF p = q THEN x ELSE question[p]
  BY DEF AnsweringInv
<1>3. \A p \in Questions : AnswerInv(question'[p])
  BY <1>2 DEF AnsweringInv
<1> QED
  BY <1>1, <1>3 DEF AnsweringInv

LEMMA AsksNext ==
  ASSUME NEW x \in Question, NEW role \in Roles, x.ruled = None,
         role # "solve" => x.solved \in Said /\ x.solved.letter \in x.offered
  PROVE  AnswerInv(Asks(x, role))
<1> DEFINE y == Asks(x, role)
<1>1. /\ y.stage = role /\ y.provider = "anthropic" /\ y.failures = <<>>
      /\ y.ruled = x.ruled /\ y.solved = x.solved /\ y.offered = x.offered
  BY DEF Question, Asks
<1>2. y \in Question
  BY NoFailures DEF Question, Asks
<1> HIDE DEF y
<1>3. AskedInv(y)
  BY <1>1, AnsweringAssumption DEF AskedInv
<1>4. StageInv(y)
  BY <1>1 DEF StageInv, Roles
<1> QED
  BY <1>2, <1>3, <1>4 DEF AnswerInv, y

LEMMA StopsNow ==
  ASSUME NEW x \in Question, NEW stage2 \in {"answered", "error"},
         stage2 = "answered" =>
           /\ Letter(x) \in x.offered
           /\ x.ruled = None => x.solved \in Said /\ x.verified \in Said /\ ~NeedsArbiter(x)
  PROVE  AnswerInv(Stops(x, stage2))
<1> DEFINE y == Stops(x, stage2)
<1>1. /\ y.stage = stage2 /\ y.provider = None /\ y.failures = <<>> /\ y.known = x.known
      /\ y.ruled = x.ruled /\ y.solved = x.solved /\ y.verified = x.verified /\ y.offered = x.offered
  BY DEF Question, Stops
<1>2. y \in Question
  BY NoFailures DEF Question, Stops
<1> HIDE DEF y
<1>3. AskedInv(y)
  BY <1>1, AnsweringAssumption DEF AskedInv, Roles
<1>4. Letter(y) = Letter(x) /\ NeedsArbiter(y) = NeedsArbiter(x)
  BY <1>1 DEF Letter, NeedsArbiter, Triggers, LooksAgain
<1>5. StageInv(y)
  BY <1>1, <1>4 DEF StageInv, Roles
<1> QED
  BY <1>2, <1>3, <1>5 DEF AnswerInv, y

(* The result of a role leads to the next one, or to an answer.            *)
LEMMA AfterAnswer ==
  ASSUME NEW x, AnswerInv(x), x.stage \in Roles, NEW r \in Said, r.letter \in x.offered
  PROVE  AnswerInv(After(x, r))
<1> DEFINE s == [x EXCEPT !.solved = r]
           v == [x EXCEPT !.verified = r]
           a == [x EXCEPT !.ruled = r.letter]
<1>1. x \in Question /\ x.ruled = None
  BY DEF AnswerInv, StageInv
<1>2. /\ s \in Question /\ s.ruled = x.ruled /\ s.solved = r /\ s.offered = x.offered
      /\ v \in Question /\ v.ruled = x.ruled /\ v.solved = x.solved /\ v.offered = x.offered /\ v.verified = r
      /\ a \in Question /\ a.ruled = r.letter /\ a.offered = x.offered
  BY <1>1 DEF Question, Said
<1>3. r.letter # None
  BY AnsweringAssumption DEF Said
<1> HIDE DEF s, v, a
<1>4. CASE x.stage = "solve"
  <2>1. After(x, r) = Asks(s, "verify")
    BY <1>4 DEF After, s
  <2> QED
    BY <1>1, <1>2, <2>1, AsksNext DEF Roles
<1>5. CASE x.stage = "verify"
  <2>1. x.solved \in Said /\ x.solved.letter \in x.offered
    BY <1>5 DEF AnswerInv, StageInv
  <2>2. CASE NeedsArbiter(v)
    <3>1. After(x, r) = Asks(v, "arbitrate")
      BY <1>5, <2>2 DEF After, v
    <3> QED
      BY <1>1, <1>2, <2>1, <3>1, AsksNext DEF Roles
  <2>3. CASE ~NeedsArbiter(v)
    <3>1. After(x, r) = Stops(v, "answered")
      BY <1>5, <2>3 DEF After, v
    <3>2. Letter(v) \in v.offered
      BY <1>1, <1>2, <2>1 DEF Letter
    <3> QED
      BY <1>2, <2>1, <2>3, <3>1, <3>2, StopsNow
  <2> QED
    BY <2>2, <2>3
<1>6. CASE x.stage = "arbitrate"
  <2>1. After(x, r) = Stops(a, "answered")
    BY <1>6 DEF After, a
  <2>2. Letter(a) \in a.offered
    BY <1>2, <1>3 DEF Letter
  <2> QED
    BY <1>2, <1>3, <2>1, <2>2, StopsNow
<1> QED
  BY <1>4, <1>5, <1>6 DEF Roles

LEMMA PoseStep ==
  ASSUME AnsweringInv, NEW q \in Questions, NEW known \in SUBSET Conflicts, NEW letters \in SUBSET Letters,
         Pose(q, known, letters)
  PROVE  AnsweringInv'
<1> DEFINE x == [Absent EXCEPT !.known = known, !.offered = letters]
<1>1. x \in Question /\ x.ruled = None
  BY NoFailures DEF Absent, Question
<1>2. AnswerInv(Asks(x, "solve"))
  <2> HIDE DEF x
  <2> QED
    BY <1>1, AsksNext DEF Roles
<1> QED
  BY <1>2, OneQuestion DEF Pose

LEMMA AcquireStep ==
  ASSUME AnsweringInv, NEW q \in Questions, Acquire(q)
  PROVE  AnsweringInv'
<1> DEFINE x == question[q]
           y == [x EXCEPT !.calling = TRUE]
<1>1. AnswerInv(x)
  BY DEF AnsweringInv
<1>2. y \in Question
  BY <1>1 DEF AnswerInv, Question
<1>3. /\ y.stage = x.stage /\ y.provider = x.provider /\ y.failures = x.failures /\ y.known = x.known
      /\ y.ruled = x.ruled /\ y.solved = x.solved /\ y.verified = x.verified /\ y.offered = x.offered
  BY <1>1 DEF AnswerInv, Question
<1>4. question' = [question EXCEPT ![q] = y]
  BY DEF Acquire
<1> HIDE DEF x, y
<1>5. AskedInv(y)
  BY <1>1, <1>3 DEF AnswerInv, AskedInv
<1>6. Letter(y) = Letter(x) /\ NeedsArbiter(y) = NeedsArbiter(x)
  BY <1>3 DEF Letter, NeedsArbiter, Triggers, LooksAgain
<1>7. StageInv(y)
  BY <1>1, <1>3, <1>6 DEF AnswerInv, StageInv
<1> QED
  BY <1>2, <1>4, <1>5, <1>7, OneQuestion DEF AnswerInv

LEMMA AnswersStep ==
  ASSUME AnsweringInv, NEW q \in Questions, NEW role, NEW r \in Result(role), NEW provider \in {"anthropic", "deepseek"},
         Answers(q, provider, r)
  PROVE  AnsweringInv'
<1>1. AnswerInv(question[q])
  BY DEF AnsweringInv
<1>2. r \in Said
  BY DEF Result, Statuses, Said
<1>3. question[q].stage \in Roles
  BY <1>1, AnsweringAssumption DEF Answers, AnswerInv, AskedInv
<1>4. AnswerInv(After(question[q], r))
  BY <1>1, <1>2, <1>3, AfterAnswer DEF Answers
<1>5. question' = [question EXCEPT ![q] = After(question[q], r)]
  BY DEF Answers, AnsweringInv
<1> QED
  BY <1>4, <1>5, OneQuestion

LEMMA AnthropicFailsStep ==
  ASSUME AnsweringInv, NEW q \in Questions, NEW kind \in Failures, AnthropicFails(q, kind)
  PROVE  AnsweringInv'
<1> DEFINE x == question[q]
           f == Append(x.failures, kind)
           provider == IF Len(f) > MaxRetries THEN "deepseek" ELSE x.provider
           y == [x EXCEPT !.failures = f, !.calling = FALSE, !.provider = provider]
<1>1. AnswerInv(x) /\ x \in Question
  BY DEF AnsweringInv, AnswerInv
<1>2. CASE kind \notin Technical
  <2>1. question' = [question EXCEPT ![q] = Stops(x, "error")]
    BY <1>2 DEF AnthropicFails
  <2>2. AnswerInv(Stops(x, "error"))
    BY <1>1, StopsNow
  <2> QED
    BY <2>1, <2>2, OneQuestion
<1>3. CASE kind \in Technical
  <2>1. question' = [question EXCEPT ![q] = y] /\ x.provider = "anthropic"
    BY <1>3 DEF AnthropicFails
  <2>2. x.failures \in Seq(Failures)
    BY <1>1 DEF Question
  <2>3. /\ f \in Seq(Failures) /\ Len(f) = Len(x.failures) + 1
        /\ \A i \in DOMAIN f : f[i] = kind \/ (i \in DOMAIN x.failures /\ f[i] = x.failures[i])
    BY <2>2
  <2> HIDE DEF x, f
  <2>4. provider \in {"anthropic", "deepseek"}
    BY <2>1
  <2>5. /\ y \in Question
        /\ y.stage = x.stage /\ y.provider = provider /\ y.failures = f /\ y.known = x.known
        /\ y.ruled = x.ruled /\ y.solved = x.solved /\ y.verified = x.verified /\ y.offered = x.offered
    BY <1>1, <2>3, <2>4 DEF Question
  <2>6. Len(x.failures) <= MaxRetries /\ Len(x.failures) \in Nat
    BY <1>1, <2>1, <2>2 DEF AnswerInv, AskedInv
  <2>7. provider = "anthropic" => Len(f) <= MaxRetries
    BY <2>3, <2>6, AnsweringAssumption
  <2>8. provider = "deepseek" => Len(f) = MaxRetries + 1
    BY <2>1, <2>3, <2>6, AnsweringAssumption
  <2>9. \A i \in DOMAIN f : f[i] \in Technical
    BY <1>1, <1>3, <2>3 DEF AnswerInv, AskedInv
  <2>10. x.stage \in Roles
    BY <1>1, <2>1, AnsweringAssumption DEF AnswerInv, AskedInv
  <2> HIDE DEF y, provider
  <2>11. AskedInv(y)
    BY <2>4, <2>5, <2>7, <2>8, <2>9, <2>10, AnsweringAssumption DEF AskedInv
  <2>12. StageInv(y)
    BY <1>1, <2>5, <2>10 DEF AnswerInv, StageInv, Roles
  <2> QED
    BY <2>1, <2>5, <2>11, <2>12, OneQuestion DEF AnswerInv
<1> QED
  BY <1>2, <1>3

LEMMA DeepSeekFailsStep ==
  ASSUME AnsweringInv, NEW q \in Questions, DeepSeekFails(q)
  PROVE  AnsweringInv'
<1>1. question[q] \in Question
  BY DEF AnsweringInv
<1>2. AnswerInv(Stops(question[q], "error"))
  BY <1>1, StopsNow
<1>3. question' = [question EXCEPT ![q] = Stops(question[q], "error")]
  BY DEF DeepSeekFails, AnsweringInv
<1> QED
  BY <1>2, <1>3, OneQuestion

LEMMA NoArbiterNeeded ==
  ASSUME NEW x \in Question, x.solved \in Said, x.verified \in Said, ~NeedsArbiter(x)
  PROVE  /\ x.solved.letter = x.verified.letter
         /\ ~x.solved.flagged /\ ~x.verified.flagged
         /\ x.known \subseteq {"visual_dependency"}
         /\ x.known = {} \/ ~LooksAgain(x)
<1>1. x.known \subseteq Conflicts
  BY DEF Question
<1>2. x.solved.letter = x.verified.letter
  BY DEF NeedsArbiter, Triggers
<1>3. ~(x.solved.flagged \/ x.verified.flagged)
  BY DEF NeedsArbiter, Triggers
<1>4. x.known \cap {"ocr_conflict", "evidence_conflict"} = {}
  BY DEF NeedsArbiter, Triggers
<1>5. \A t \in x.known \cap {"visual_dependency"} : ~LooksAgain(x)
  BY DEF NeedsArbiter, Triggers
<1>6. x.known \subseteq {"visual_dependency"}
  BY <1>1, <1>4 DEF Conflicts
<1> QED
  BY <1>2, <1>3, <1>5, <1>6

LEMMA AnsweringStep == AnsweringInv /\ [AnsweringNext]_avars => AnsweringInv'
<1> SUFFICES ASSUME AnsweringInv, [AnsweringNext]_avars PROVE AnsweringInv'
  OBVIOUS
<1>1. CASE UNCHANGED avars
  BY <1>1 DEF avars, AnsweringInv
<1>2. CASE AnsweringNext
  <2>1. PICK q \in Questions :
          \/ \E known \in SUBSET Conflicts, letters \in SUBSET Letters : Pose(q, known, letters)
          \/ Acquire(q)
          \/ \E r \in Result(question[q].stage) : AnthropicAnswers(q, r) \/ DeepSeekAnswers(q, r)
          \/ \E kind \in Failures : AnthropicFails(q, kind)
          \/ DeepSeekFails(q)
    BY <1>2 DEF AnsweringNext
  <2>2. CASE \E known \in SUBSET Conflicts, letters \in SUBSET Letters : Pose(q, known, letters)
    BY <2>2, PoseStep
  <2>3. CASE Acquire(q)
    BY <2>3, AcquireStep
  <2>4. CASE \E r \in Result(question[q].stage) : AnthropicAnswers(q, r) \/ DeepSeekAnswers(q, r)
    BY <2>4, AnswersStep DEF AnthropicAnswers, DeepSeekAnswers
  <2>5. CASE \E kind \in Failures : AnthropicFails(q, kind)
    BY <2>5, AnthropicFailsStep
  <2>6. CASE DeepSeekFails(q)
    BY <2>6, DeepSeekFailsStep
  <2> QED
    BY <2>1, <2>2, <2>3, <2>4, <2>5, <2>6
<1> QED
  BY <1>1, <1>2

(* The answers of solver, verifier and arbiter, for any number of          *)
(* questions, retries and calls at one time: an answer is one that the     *)
(* arbiter ruled, or one that solver and verifier both gave while nothing  *)
(* that should_arbitrate looks at spoke against it (a status ambiguous, or *)
(* uncertain where nothing depends on an image, does not); and DeepSeek is *)
(* only asked after one technical failure of Anthropic more than the       *)
(* retries.                                                                *)
THEOREM Arbitrated == AnsweringSpec => []AnswersAreArbitrated
<1>1. AnsweringInv => AnswersAreArbitrated
  <2> SUFFICES ASSUME AnsweringInv, NEW q \in Questions
               PROVE  LET x == question[q] IN
                 /\ x.stage = "answered" =>
                      /\ Letter(x) \in x.offered
                      /\ x.ruled = None => /\ x.solved.letter = x.verified.letter
                                           /\ ~x.solved.flagged /\ ~x.verified.flagged
                                           /\ x.known \subseteq {"visual_dependency"}
                                           /\ x.known = {} \/ ~LooksAgain(x)
                 /\ x.provider = "deepseek" =>
                      /\ Len(x.failures) = MaxRetries + 1
                      /\ \A i \in DOMAIN x.failures : x.failures[i] \notin {"client", "alternative", "other"}
    BY DEF AnswersAreArbitrated
  <2> DEFINE x == question[q]
  <2>1. AnswerInv(x)
    BY DEF AnsweringInv
  <2> HIDE DEF x
  <2>2. x \in Question /\ AskedInv(x) /\ StageInv(x)
    BY <2>1 DEF AnswerInv
  <2>3. ASSUME x.stage = "answered", x.ruled = None
        PROVE  x.solved \in Said /\ x.verified \in Said /\ ~NeedsArbiter(x)
    BY <2>2, <2>3 DEF StageInv
  <2>4. x.stage = "answered" => Letter(x) \in x.offered
    BY <2>2 DEF StageInv
  <2>5. x.provider = "deepseek" =>
          /\ Len(x.failures) = MaxRetries + 1
          /\ \A i \in DOMAIN x.failures : x.failures[i] \notin {"client", "alternative", "other"}
    BY <2>2 DEF AskedInv, Technical
  <2> QED
    BY <2>2, <2>3, <2>4, <2>5, NoArbiterNeeded DEF x
<1> QED
  BY AnsweringStarts, AnsweringStep, <1>1, PTL DEF AnsweringSpec

-------------------------------------------------------------------------------
(* Reconstruction.                                                         *)

ReconstructionSpec == ReconstructionInit /\ [][ReconstructionNext]_rvars

QuestionParsed == [number : Nat \ {0}, text : {"text", "blank"}, letters : Nat,
                   completeness : {"complete", "partial", "missing"}, flags : SUBSET STRING]

PaperInv ==
  /\ said \in Seq(QuestionParsed)
  /\ paper = Validated(said)

LEMMA PaperStarts == ReconstructionInit => PaperInv
<1> SUFFICES ASSUME ReconstructionInit PROVE PaperInv
  OBVIOUS
<1>1. said = <<>> /\ paper = <<>> /\ DOMAIN said = {}
  BY DEF ReconstructionInit
<1>2. said \in Seq(QuestionParsed)
  BY <1>1
<1>3. Validated(said) = [i \in {} |-> 0]
  BY <1>1 DEF Validated
<1>4. <<>> = [i \in {} |-> 0]
  OBVIOUS
<1> QED
  BY <1>1, <1>2, <1>3, <1>4 DEF PaperInv

(* What is left of a question that has been checked.                       *)
LEMMA ValidatedQuestion ==
  ASSUME NEW qs \in Seq(QuestionParsed), NEW i \in DOMAIN qs
  PROVE  /\ DOMAIN Validated(qs) = DOMAIN qs
         /\ Validated(qs)[i].completeness = Rated(qs, i)
         /\ Validated(qs)[i].flags = qs[i].flags \cup Marks(qs, i)
         /\ Rated(qs, i) \in {"complete", "partial", "missing"}
<1>1. qs[i] \in QuestionParsed
  OBVIOUS
<1>2. Rated(qs, i) \in {"complete", "partial", "missing"}
  BY <1>1 DEF Rated, QuestionParsed
<1> QED
  BY <1>1, <1>2 DEF Validated, QuestionParsed

(* What a question was before it was checked, if it is ready.              *)
LEMMA ReadyQuestion ==
  ASSUME NEW qs \in Seq(QuestionParsed), NEW i \in Report(Validated(qs)).ready
  PROVE  /\ i \in DOMAIN qs
         /\ qs[i].text = "text"
         /\ qs[i].letters >= 2
         /\ qs[i].completeness = "complete"
         /\ qs[i].flags \cap (DoubtFlags \cup BlockingFlags) = {}
         /\ ~Repeated(qs, i) /\ ~AfterGap(qs, i)
<1>1. i \in DOMAIN Validated(qs) /\ Validated(qs)[i].completeness = "complete" /\ ~IsBlocking(Validated(qs)[i])
  BY DEF Report
<1>2. i \in DOMAIN qs
  BY <1>1 DEF Validated
<1>3. qs[i] \in QuestionParsed
  BY <1>2
<1>4. Rated(qs, i) = "complete"
  BY <1>1, <1>2, ValidatedQuestion
<1>5. (qs[i].flags \cup Marks(qs, i)) \cap BlockingFlags = {}
  BY <1>1, <1>2, ValidatedQuestion DEF IsBlocking
<1>6. qs[i].text # "blank" /\ ~Repeated(qs, i) /\ qs[i].completeness = "complete"
  BY <1>4 DEF Rated
<1>7. ~(AfterGap(qs, i) \/ qs[i].letters < 2 \/ qs[i].flags \cap DoubtFlags # {})
  BY <1>4, <1>6 DEF Rated
<1>8. qs[i].letters >= 2 /\ qs[i].text \in {"text", "blank"}
  BY <1>3, <1>7 DEF QuestionParsed
<1>9. qs[i].flags \cap (DoubtFlags \cup BlockingFlags) = {}
  BY <1>5, <1>7
<1> QED
  BY <1>2, <1>6, <1>7, <1>8, <1>9


LEMMA ParsedQuestion ==
  ASSUME NEW q \in QuestionRead, WellFormed(q)
  PROVE  Parsed(q) \in QuestionParsed
<1>1. /\ q.number \in Nat \ {0} /\ q.text \in {"text", "blank"} /\ q.flags \in SUBSET STRING
      /\ q.completeness \in {"complete", "partial", "missing"}
      /\ q.letters \in Nat \cup {Absence}
  BY DEF QuestionRead, WellFormed
<1>2. CASE q.letters = Absence
  BY <1>1, <1>2 DEF Parsed, QuestionParsed, QuestionRead
<1>3. CASE q.letters # Absence
  BY <1>1, <1>3 DEF Parsed, QuestionParsed, QuestionRead
<1> QED
  BY <1>2, <1>3

LEMMA ReconstructStep == PaperInv /\ Reconstruct => PaperInv'
<1> SUFFICES ASSUME PaperInv, Reconstruct PROVE PaperInv'
  OBVIOUS
<1>1. PICK answer \in Readings :
        IF \A i \in DOMAIN answer : WellFormed(answer[i])
        THEN LET qs == [i \in DOMAIN answer |-> Parsed(answer[i])] IN
               /\ reconstruction' = "validated"
               /\ said' = qs /\ paper' = Validated(qs)
        ELSE reconstruction' = "failed" /\ UNCHANGED <<paper, said>>
  BY DEF Reconstruct
<1>2. CASE ~(\A i \in DOMAIN answer : WellFormed(answer[i]))
  <2>1. UNCHANGED <<paper, said>>
    BY <1>1, <1>2
  <2> QED
    BY <2>1 DEF PaperInv
<1>3. CASE \A i \in DOMAIN answer : WellFormed(answer[i])
  <2> DEFINE qs == [i \in DOMAIN answer |-> Parsed(answer[i])]
  <2>1. said' = qs /\ paper' = Validated(qs)
    BY <1>1, <1>3
  <2>2. answer \in Seq(QuestionRead)
    BY ReconstructionAssumption
  <2>3. Len(answer) \in Nat /\ DOMAIN answer = 1 .. Len(answer) /\ \A i \in DOMAIN answer : answer[i] \in QuestionRead
    BY <2>2
  <2>4. \A i \in DOMAIN answer : Parsed(answer[i]) \in QuestionParsed
    BY <1>3, <2>3, ParsedQuestion
  <2>5. qs \in Seq(QuestionParsed)
    BY <2>3, <2>4
  <2> HIDE DEF qs
  <2>6. said' \in Seq(QuestionParsed) /\ paper' = Validated(said')
    BY <2>1, <2>5
  <2> QED
    BY <2>6 DEF PaperInv, Validated
<1> QED
  BY <1>2, <1>3

LEMMA PaperStep == PaperInv /\ [ReconstructionNext]_rvars => PaperInv'
<1> SUFFICES ASSUME PaperInv, [ReconstructionNext]_rvars PROVE PaperInv'
  OBVIOUS
<1>1. CASE ModelFails \/ UNCHANGED rvars
  <2>1. UNCHANGED <<paper, said>>
    BY <1>1 DEF ModelFails, rvars
  <2> QED
    BY <2>1 DEF PaperInv
<1>2. CASE Reconstruct
  BY <1>2, ReconstructStep
<1> QED
  BY <1>1, <1>2 DEF ReconstructionNext

(* Every question of the paper is ready, or it is incomplete or failed.    *)
LEMMA ReportIsComplete ==
  ASSUME PaperInv
  PROVE  /\ Report(paper).ready \cup Report(paper).incomplete \cup Report(paper).failed = DOMAIN paper
         /\ Report(paper).ready \cap (Report(paper).incomplete \cup Report(paper).failed) = {}
<1>1. \A i \in DOMAIN paper : paper[i].completeness \in {"complete", "partial", "missing"}
  <2>1. paper = Validated(said) /\ said \in Seq(QuestionParsed) /\ DOMAIN paper = DOMAIN said
    BY DEF PaperInv, Validated
  <2> QED
    BY <2>1, ValidatedQuestion
<1> QED
  BY <1>1 DEF Report

(* The questions of the reconstruction, for every sequence of questions    *)
(* the model may read: a question is ready only as the model read it       *)
(* without a doubt, as the first of its number, and, unless its number is  *)
(* the smallest, with the number right before it; and none is lost.        *)
THEOREM Ready == ReconstructionSpec => []ReadyIsSound
<1>1. PaperInv => ReadyIsSound
  <2> SUFFICES ASSUME PaperInv PROVE ReadyIsSound
    OBVIOUS
  <2> DEFINE r == Report(paper)
  <2>1. paper = Validated(said) /\ said \in Seq(QuestionParsed) /\ DOMAIN paper = DOMAIN said
    BY DEF PaperInv, Validated
  <2>2. r.ready \subseteq DOMAIN said
    BY <2>1 DEF Report
  <2>3. ASSUME NEW i \in r.ready
        PROVE  /\ said[i].text = "text" /\ said[i].letters >= 2
               /\ said[i].completeness = "complete"
               /\ said[i].flags \cap (DoubtFlags \cup BlockingFlags) = {}
               /\ \A j \in DOMAIN paper : j < i => said[j].number # said[i].number
               /\ \/ said[i].number = 1
                  \/ \E j \in DOMAIN paper : said[j].number = said[i].number - 1
                  \/ \A k \in DOMAIN paper : said[k].number >= said[i].number
    <3>1. /\ i \in DOMAIN said /\ said[i].text = "text" /\ said[i].letters >= 2
          /\ said[i].completeness = "complete"
          /\ said[i].flags \cap (DoubtFlags \cup BlockingFlags) = {}
          /\ ~Repeated(said, i) /\ ~AfterGap(said, i)
      BY <2>1, ReadyQuestion
    <3>2. DOMAIN said = 1 .. Len(said) /\ Len(said) \in Nat /\ \A j \in DOMAIN said : said[j].number \in Nat \ {0}
      <4>1. DOMAIN said = 1 .. Len(said) /\ Len(said) \in Nat /\ \A j \in DOMAIN said : said[j] \in QuestionParsed
        BY <2>1
      <4> QED
        BY <4>1 DEF QuestionParsed
    <3>3. \A j \in DOMAIN paper : j < i => said[j].number # said[i].number
      BY <2>1, <3>1, <3>2 DEF Repeated
    <3> DEFINE Smaller == {said[j].number : j \in DOMAIN said} \cap 1 .. said[i].number - 1
    <3>4. Smaller = {} \/ said[i].number - 1 \in Smaller
      BY <3>1 DEF AfterGap
    <3>5. ASSUME said[i].number - 1 \in Smaller
          PROVE  \E j \in DOMAIN paper : said[j].number = said[i].number - 1
      <4>1. \E j \in DOMAIN said : said[j].number = said[i].number - 1
        BY <3>5
      <4> QED
        BY <2>1, <4>1
    <3>6. ASSUME Smaller = {}
          PROVE  \A k \in DOMAIN paper : said[k].number >= said[i].number
      <4>1. \A k \in DOMAIN said : said[k].number \notin 1 .. said[i].number - 1
        BY <3>6
      <4> HIDE DEF Smaller
      <4>2. said[i].number \in Nat \ {0} /\ \A k \in DOMAIN said : said[k].number \in Nat \ {0}
        BY <3>1, <3>2
      <4> QED
        BY <2>1, <4>1, <4>2
    <3>7. \/ \E j \in DOMAIN paper : said[j].number = said[i].number - 1
          \/ \A k \in DOMAIN paper : said[k].number >= said[i].number
      <4> HIDE DEF Smaller
      <4> QED
        BY <3>4, <3>5, <3>6
    <3> HIDE DEF Smaller, r
    <3> QED
      BY <3>1, <3>3, <3>7
  <2> QED
    BY <2>3, ReportIsComplete DEF ReadyIsSound
<1> QED
  BY PaperStarts, PaperStep, <1>1, PTL DEF ReconstructionSpec

-------------------------------------------------------------------------------
(* Induction, recursion, and what the operators on sequences compute.      *)

(* A set of numbers that is closed under the next one holds all of them.   *)
LEMMA UpTo ==
  ASSUME NEW N \in Nat, NEW S, 0 \in S, \A n \in 1 .. N : n - 1 \in S => n \in S
  PROVE  \A n \in 0 .. N : n \in S
<1> DEFINE T == (0 .. N) \ S
<1> SUFFICES ASSUME T # {} PROVE FALSE
  OBVIOUS
<1>1. T \subseteq Nat
  OBVIOUS
<1>2. Min(T) \in T /\ \A y \in T : Min(T) <= y
  BY <1>1, Smallest
<1> DEFINE m == Min(T)
<1>3. m \in 0 .. N /\ m \notin S /\ \A y \in 0 .. N : y \notin S => m <= y
  BY <1>2
<1> HIDE DEF m, T
<1>4. m \in 1 .. N /\ m - 1 \in 0 .. N /\ ~(m <= m - 1)
  BY <1>3
<1> QED
  BY <1>3, <1>4

(* A function may be defined by recursion.                                 *)
Iterates(f, n, D, base, g) ==
  f \in [0 .. n -> D] /\ f[0] = base /\ \A i \in 1 .. n : f[i] = g[<<f[i - 1], i>>]

LEMMA Recursion ==
  ASSUME NEW N \in Nat, NEW D, NEW base \in D, NEW g \in [D \X (1 .. N) -> D]
  PROVE  \E f : Iterates(f, N, D, base, g)
<1> DEFINE Rec(n, f) == f \in [0 .. n -> D] /\ f[0] = base /\ \A i \in 1 .. n : f[i] = g[<<f[i - 1], i>>]
           S == {n \in 0 .. N : \E f : Rec(n, f)}
<1>1. 0 \in S
  <2>1. Rec(0, [i \in 0 .. 0 |-> base])
    OBVIOUS
  <2> HIDE DEF Rec
  <2> QED
    BY <2>1
<1>2. ASSUME NEW n \in 1 .. N, n - 1 \in S
      PROVE  n \in S
  <2>1. PICK f : Rec(n - 1, f)
    BY <1>2
  <2> DEFINE h == [i \in 0 .. n |-> IF i = n THEN g[<<f[n - 1], n>>] ELSE f[i]]
  <2>2. f[n - 1] \in D /\ g[<<f[n - 1], n>>] \in D
    BY <2>1
  <2>3. h \in [0 .. n -> D] /\ h[0] = base
    BY <2>1, <2>2
  <2>4. ASSUME NEW i \in 1 .. n PROVE h[i] = g[<<h[i - 1], i>>]
    <3>1. i - 1 \in 0 .. n /\ i - 1 # n /\ h[i - 1] = f[i - 1]
      OBVIOUS
    <3>2. CASE i = n
      BY <3>1, <3>2
    <3>3. CASE i # n
      <4>1. i \in 1 .. n - 1 /\ h[i] = f[i]
        BY <3>3
      <4> QED
        BY <2>1, <3>1, <4>1
    <3> QED
      BY <3>2, <3>3
  <2>5. Rec(n, h)
    BY <2>3, <2>4
  <2> HIDE DEF Rec, h
  <2> QED
    BY <2>5
<1>3. N \in S
  <2> HIDE DEF S
  <2> QED
    BY <1>1, <1>2, UpTo
<1> QED
  BY <1>3 DEF Iterates

(* FlattenSeq joins one sequence after the other.                          *)
Joins(f, ss) == f[0] = <<>> /\ \A i \in 1 .. Len(ss) : f[i] = f[i - 1] \o ss[i]

LEMMA FlattenJoins ==
  ASSUME NEW X, NEW ss \in Seq(Seq(X))
  PROVE  \E f \in [0 .. Len(ss) -> Seq(X)] : Joins(f, ss) /\ FlattenSeq(ss) = f[Len(ss)]
<1> DEFINE N == Len(ss)
           D == Seq(X)
           g == [p \in D \X (1 .. N) |-> p[1] \o ss[p[2]]]
           none == <<>>
<1>0. N \in Nat /\ none \in D
  OBVIOUS
<1>1. N \in Nat /\ \A i \in 1 .. N : ss[i] \in D
  OBVIOUS
<1>2. g \in [D \X (1 .. N) -> D]
  <2>1. \A p \in D \X (1 .. N) : p[1] \in Seq(X) /\ ss[p[2]] \in Seq(X)
    BY <1>1
  <2>2. \A p \in D \X (1 .. N) : p[1] \o ss[p[2]] \in Seq(X)
    BY <2>1, ConcatProperties
  <2> QED
    BY <2>2
<1> HIDE DEF g, D, N, none
<1>9. \E f : Iterates(f, N, D, none, g)
  BY <1>0, <1>2, Recursion
<1>3. PICK f \in [0 .. N -> D] : f[0] = none /\ \A n \in 1 .. N : f[n] = g[<<f[n - 1], n>>]
  BY <1>9 DEF Iterates
<1> USE DEF g, D, N, none
<1>4. ASSUME NEW n \in 1 .. N PROVE f[n - 1] \in D /\ f[n] = f[n - 1] \o ss[n]
  <2>1. n - 1 \in 0 .. N
    BY <1>0
  <2>2. f[n - 1] \in D
    BY <2>1
  <2>3. g[<<f[n - 1], n>>] = f[n - 1] \o ss[n]
    BY <2>2
  <2> QED
    BY <1>3, <2>2, <2>3
<1> HIDE DEF g
<1>5. ASSUME N > 0
      PROVE  FlattenSeq(ss) = f[N]
  <2> DEFINE Is(flatten) == flatten = [i \in 1 .. Len(ss) |-> IF i = 1 THEN ss[i] ELSE flatten[i - 1] \o ss[i]]
             chosen == CHOOSE flatten : Is(flatten)
  <2>1. Is([i \in 1 .. N |-> f[i]])
    <3>1. 1 \in 1 .. N /\ f[0] = <<>> /\ ss[1] \in Seq(X)
      BY <1>1, <1>3, <1>5
    <3>2. f[1] = ss[1]
      <4>1. f[1] = <<>> \o ss[1]
        <5>1. f[1] = f[1 - 1] \o ss[1]
          BY <1>4, <3>1
        <5>2. 1 - 1 = 0
          OBVIOUS
        <5> QED
          BY <3>1, <5>1, <5>2, Zenon
      <4> QED
        BY <3>1, <4>1, ConcatEmptySeq
    <3> DEFINE h == [i \in 1 .. N |-> f[i]]
    <3>3. ASSUME NEW i \in 1 .. N PROVE h[i] = IF i = 1 THEN ss[i] ELSE h[i - 1] \o ss[i]
      <4>1. CASE i = 1
        BY <3>2, <4>1
      <4>2. CASE i # 1
        <5>1. i - 1 \in 1 .. N
          BY <1>1, <4>2
        <5> QED
          BY <1>4, <4>2, <5>1
      <4> QED
        BY <4>1, <4>2
    <3>4. h = [i \in 1 .. N |-> h[i]]
      OBVIOUS
    <3> HIDE DEF h
    <3>5. Is(h)
      BY <3>3, <3>4
    <3> QED
      BY <3>5 DEF h
  <2>2. Is(chosen)
    <3> HIDE DEF Is
    <3> QED
      BY <2>1
  <2> HIDE DEF chosen
  <2>3. \A i \in 1 .. N : chosen[i] = IF i = 1 THEN ss[i] ELSE chosen[i - 1] \o ss[i]
    <3> DEFINE e(i) == IF i = 1 THEN ss[i] ELSE chosen[i - 1] \o ss[i]
    <3>1. chosen = [i \in 1 .. N |-> e(i)]
      BY <2>2
    <3> HIDE DEF e
    <3>2. \A i \in 1 .. N : chosen[i] = e(i)
      BY <3>1
    <3> QED
      BY <3>2 DEF e
  <2>4. f[1] = ss[1]
    <3>1. 1 \in 1 .. N /\ f[0] = <<>> /\ ss[1] \in Seq(X)
      BY <1>1, <1>3, <1>5
    <3>2. QED
      <4>1. f[1] = <<>> \o ss[1]
        <5>1. f[1] = f[1 - 1] \o ss[1]
          BY <1>4, <3>1
        <5>2. 1 - 1 = 0
          OBVIOUS
        <5> QED
          BY <3>1, <5>1, <5>2, Zenon
      <4> QED
        BY <3>1, <4>1, ConcatEmptySeq
  <2> DEFINE S == {0} \cup {i \in 1 .. N : chosen[i] = f[i]}
  <2>5. ASSUME NEW n \in 1 .. N, n - 1 \in S PROVE n \in S
    <3>1. CASE n = 1
      BY <2>3, <2>4, <3>1
    <3>2. CASE n # 1
      <4>1. chosen[n - 1] = f[n - 1]
        BY <1>1, <2>5, <3>2
      <4>2. chosen[n] = f[n - 1] \o ss[n]
        BY <2>3, <3>2, <4>1
      <4> QED
        BY <1>4, <4>2
    <3> QED
      BY <3>1, <3>2
  <2>6. \A n \in 0 .. N : n \in S
    <3>1. 0 \in S
      OBVIOUS
    <3> HIDE DEF S
    <3> QED
      BY <1>1, <2>5, <3>1, UpTo
  <2>7. chosen[N] = f[N]
    BY <1>1, <1>5, <2>6
  <2>8. FlattenSeq(ss) = chosen[N]
    BY <1>5 DEF FlattenSeq, chosen
  <2> QED
    BY <2>7, <2>8
<1>6. ASSUME N = 0
      PROVE  FlattenSeq(ss) = f[N]
  <2>1. ss = <<>>
    BY <1>6
  <2> QED
    BY <1>3, <1>6, <2>1 DEF FlattenSeq
<1>7. Joins(f, ss)
  BY <1>3, <1>4 DEF Joins
<1>8. FlattenSeq(ss) = f[N]
  <2> HIDE DEF N
  <2>1. N > 0 \/ N = 0
    BY <1>0
  <2> QED
    BY <1>5, <1>6, <2>1
<1> QED
  BY <1>7, <1>8

Associates(D) == \A a, b, c \in D : (a \o b) \o c = a \o (b \o c)

LEMMA Associative == \A X : Associates(Seq(X))
<1> SUFFICES ASSUME NEW X, NEW a \in Seq(X), NEW b \in Seq(X), NEW c \in Seq(X)
             PROVE  (a \o b) \o c = a \o (b \o c)
  BY DEF Associates
<1> QED
  BY ConcatAssociative

LEMMA FlattenType ==
  ASSUME NEW X, NEW ss \in Seq(Seq(X))
  PROVE  FlattenSeq(ss) \in Seq(X)
<1>1. PICK f \in [0 .. Len(ss) -> Seq(X)] : FlattenSeq(ss) = f[Len(ss)]
  BY FlattenJoins
<1>2. Len(ss) \in 0 .. Len(ss)
  OBVIOUS
<1> QED
  BY <1>1, <1>2

LEMMA FlattenEmpty == FlattenSeq(<<>>) = <<>>
<1>1. Len(<<>>) = 0
  OBVIOUS
<1> QED
  BY <1>1 DEF FlattenSeq

LEMMA FlattenConcat ==
  ASSUME NEW X, NEW ss \in Seq(Seq(X)), NEW tt \in Seq(Seq(X))
  PROVE  FlattenSeq(ss \o tt) = FlattenSeq(ss) \o FlattenSeq(tt)
<1> DEFINE M == Len(ss)
           N == Len(tt)
           both == ss \o tt
<1>1. /\ M \in Nat /\ N \in Nat /\ both \in Seq(Seq(X)) /\ Len(both) = M + N
      /\ \A i \in 1 .. M : both[i] = ss[i] /\ ss[i] \in Seq(X)
      /\ \A i \in 1 .. N : both[M + i] = tt[i] /\ tt[i] \in Seq(X)
  OBVIOUS
<1> HIDE DEF both
<1>0. Associates(Seq(X))
  BY Associative, Zenon
<1>2. PICK f \in [0 .. M -> Seq(X)] : Joins(f, ss) /\ FlattenSeq(ss) = f[M]
  BY FlattenJoins
<1>3. PICK g \in [0 .. N -> Seq(X)] : Joins(g, tt) /\ FlattenSeq(tt) = g[N]
  BY FlattenJoins
<1>4. PICK h \in [0 .. Len(both) -> Seq(X)] : Joins(h, both) /\ FlattenSeq(both) = h[Len(both)]
  BY <1>1, FlattenJoins
<1> HIDE DEF M, N
<1>5. \A n \in 0 .. M : n \in {i \in 0 .. M : h[i] = f[i]}
  <2> DEFINE S == {i \in 0 .. M : h[i] = f[i]}
  <2>1. 0 \in S
    BY <1>1, <1>2, <1>4 DEF Joins
  <2>2. ASSUME NEW n \in 1 .. M, n - 1 \in S PROVE n \in S
    <3>1. f[n] = f[n - 1] \o ss[n]
      BY <1>2 DEF Joins, M
    <3>2. n \in 1 .. Len(both) /\ n \in 0 .. M
      BY <1>1
    <3>3. h[n] = h[n - 1] \o both[n]
      BY <1>4, <3>2 DEF Joins
    <3>4. both[n] = ss[n] /\ h[n - 1] = f[n - 1]
      BY <1>1, <2>2
    <3>5. h[n] = f[n]
      BY <3>1, <3>3, <3>4, Zenon
    <3> QED
      BY <3>2, <3>5
  <2> HIDE DEF S
  <2>3. \A n \in 0 .. M : n \in S
    BY <1>1, <2>1, <2>2, UpTo
  <2> QED
    BY <2>3 DEF S
<1>6. \A n \in 0 .. N : n \in {i \in 0 .. N : h[M + i] = f[M] \o g[i]}
  <2> DEFINE S == {i \in 0 .. N : h[M + i] = f[M] \o g[i]}
  <2>0. f[M] \in Seq(X) /\ \A i \in 0 .. N : g[i] \in Seq(X)
    BY <1>1
  <2>1. 0 \in S
    <3>1. h[M] = f[M] /\ g[0] = <<>>
      BY <1>1, <1>3, <1>5 DEF Joins
    <3>2. f[M] \o <<>> = f[M]
      BY <2>0, ConcatEmptySeq
    <3>3. 0 \in 0 .. N /\ M + 0 = M
      BY <1>1
    <3>4. h[M + 0] = f[M] \o g[0]
      BY <3>1, <3>2, <3>3, Zenon
    <3> QED
      BY <3>3, <3>4
  <2>2. ASSUME NEW n \in 1 .. N, n - 1 \in S PROVE n \in S
    <3>1. g[n] = g[n - 1] \o tt[n]
      BY <1>3 DEF Joins, N
    <3>2. M + n \in 1 .. Len(both) /\ (M + n) - 1 = M + (n - 1) /\ n - 1 \in 0 .. N
      BY <1>1
    <3>3. h[M + n] = h[(M + n) - 1] \o both[M + n]
      <4>1. \A m \in 1 .. Len(both) : h[m] = h[m - 1] \o both[m]
        BY <1>4 DEF Joins
      <4> QED
        BY <3>2, <4>1, Zenon
    <3>4. both[M + n] = tt[n] /\ h[M + (n - 1)] = f[M] \o g[n - 1]
      BY <1>1, <2>2
    <3>5. h[M + n] = (f[M] \o g[n - 1]) \o tt[n]
      BY <3>2, <3>3, <3>4, Zenon
    <3>6. tt[n] \in Seq(X) /\ g[n - 1] \in Seq(X) /\ f[M] \in Seq(X)
      BY <1>1, <2>0, <3>2
    <3>7. (f[M] \o g[n - 1]) \o tt[n] = f[M] \o (g[n - 1] \o tt[n])
      <4> DEFINE a == f[M]
                 b == g[n - 1]
                 c == tt[n]
      <4>1. a \in Seq(X) /\ b \in Seq(X) /\ c \in Seq(X)
        BY <3>6
      <4> HIDE DEF a, b, c
      <4>2. (a \o b) \o c = a \o (b \o c)
        BY <1>0, <4>1, Zenon DEF Associates
      <4> QED
        BY <4>2 DEF a, b, c
    <3>8. h[M + n] = f[M] \o g[n]
      BY <3>1, <3>5, <3>7, Zenon
    <3>9. n \in 0 .. N
      BY <1>1
    <3> QED
      BY <3>8, <3>9
  <2> HIDE DEF S
  <2>3. \A n \in 0 .. N : n \in S
    BY <1>1, <2>1, <2>2, UpTo
  <2> QED
    BY <2>3 DEF S
<1>7. h[M + N] = f[M] \o g[N]
  <2>1. N \in 0 .. N
    BY <1>1
  <2> QED
    BY <1>6, <2>1, Zenon
<1> QED
  BY <1>1, <1>2, <1>3, <1>4, <1>7 DEF both

LEMMA FlattenOne ==
  ASSUME NEW X, NEW s \in Seq(X)
  PROVE  FlattenSeq(<<s>>) = s
<1>1. <<s>> \in Seq(Seq(X)) /\ Len(<<s>>) = 1 /\ <<s>>[1] = s
  OBVIOUS
<1>2. PICK f \in [0 .. 1 -> Seq(X)] : Joins(f, <<s>>) /\ FlattenSeq(<<s>>) = f[1]
  BY <1>1, FlattenJoins
<1>3. f[0] = <<>> /\ f[1] = f[0] \o s
  <2>0. 1 \in 1 .. Len(<<s>>)
    BY <1>1
  <2>1. f[1] = f[1 - 1] \o <<s>>[1] /\ f[0] = <<>>
    BY <1>2, <2>0, Zenon DEF Joins
  <2>2. 1 - 1 = 0
    OBVIOUS
  <2> QED
    BY <1>1, <2>1, <2>2, Zenon
<1> QED
  BY <1>2, <1>3, ConcatEmptySeq

LEMMA FlattenAppend ==
  ASSUME NEW X, NEW ss \in Seq(Seq(X)), NEW s \in Seq(X)
  PROVE  /\ Append(ss, s) \in Seq(Seq(X))
         /\ FlattenSeq(Append(ss, s)) = FlattenSeq(ss) \o s
<1>1. Append(ss, s) = ss \o <<s>> /\ <<s>> \in Seq(Seq(X))
  BY AppendIsConcat
<1>2. FlattenSeq(ss \o <<s>>) = FlattenSeq(ss) \o FlattenSeq(<<s>>)
  BY <1>1, FlattenConcat
<1>3. Append(ss, s) \in Seq(Seq(X))
  OBVIOUS
<1> QED
  BY <1>1, <1>2, <1>3, FlattenOne

(* What a family of sequences of one element or none holds.                *)
LEMMA FlattenElements ==
  ASSUME NEW X, NEW ss \in Seq(Seq(X)), NEW P \in SUBSET X, \A i \in 1 .. Len(ss) : ss[i] \in Seq(P)
  PROVE  FlattenSeq(ss) \in Seq(P)
<1>1. ss \in Seq(Seq(P))
  <2>1. Len(ss) \in Nat /\ ss = [i \in 1 .. Len(ss) |-> ss[i]]
    OBVIOUS
  <2> QED
    BY <2>1
<1> QED
  BY <1>1, FlattenType

-------------------------------------------------------------------------------
(* A set of some of the first numbers has a largest one.                   *)
LEMMA Largest ==
  ASSUME NEW N \in Nat, NEW s \in SUBSET (1 .. N), s # {}
  PROVE  /\ Max(s) \in s
         /\ \A y \in s : Max(s) >= y
<1> DEFINE T == {N - y : y \in s}
<1>1. T \subseteq Nat /\ T # {}
  <2>1. \A y \in s : N - y \in Nat
    OBVIOUS
  <2>2. PICK y \in s : TRUE
    OBVIOUS
  <2> QED
    BY <2>1, <2>2
<1>2. Min(T) \in T /\ \A y \in T : Min(T) <= y
  <2> HIDE DEF T
  <2> QED
    BY <1>1, Smallest
<1> DEFINE m == Min(T)
<1> HIDE DEF m
<1>3. PICK x \in s : m = N - x /\ \A y \in s : m <= N - y
  BY <1>2 DEF m
<1>4. \A y \in s : x >= y
  BY <1>3
<1> QED
  BY <1>4 DEF Max

LEMMA LargestUpTo ==
  ASSUME NEW n \in Nat, n > 0
  PROVE  1 .. n # {} /\ Max(1 .. n) = n /\ (1 .. n) \ {n} = 1 .. (n - 1)
<1>1. n \in 1 .. n
  OBVIOUS
<1> DEFINE s == 1 .. n
<1>2. s \in SUBSET (1 .. n) /\ s # {}
  BY <1>1
<1> HIDE DEF s
<1>3. Max(s) \in s /\ \A y \in s : Max(s) >= y
  BY <1>2, Largest
<1> QED
  BY <1>1, <1>3 DEF s

(* What FoldLeft chooses exists: a fold over the subsets of a sequence's   *)
(* places, the largest place last.                                         *)
FoldsSubsets(it, N, D, base, g) ==
  /\ it \in [SUBSET (1 .. N) -> D]
  /\ it[{}] = base
  /\ \A s \in SUBSET (1 .. N) : s # {} => it[s] = g[<<it[s \ {Max(s)}], Max(s)>>]

LEMMA FoldExists ==
  ASSUME NEW N \in Nat, NEW D, NEW base \in D, NEW g \in [D \X (1 .. N) -> D]
  PROVE  \E it : FoldsSubsets(it, N, D, base, g)
<1> DEFINE F == [SUBSET (1 .. N) -> D]
           none == [s \in SUBSET (1 .. N) |-> base]
           with(f, n) == [s \in SUBSET (1 .. N) |-> IF n \in s THEN g[<<f[s \ {n}], n>>] ELSE f[s]]
           step == [p \in F \X (1 .. N) |-> with(p[1], p[2])]
<1>1. none \in F
  OBVIOUS
<1>2. \A f \in F, n \in 1 .. N : with(f, n) \in F
  OBVIOUS
<1>3. step \in [F \X (1 .. N) -> F]
  <2> HIDE DEF F, with
  <2> QED
    BY <1>2
<1>4. \A f \in F, n \in 1 .. N : step[<<f, n>>] = with(f, n)
  <2> HIDE DEF F, with
  <2> QED
    OBVIOUS
<1>5. \E fs : Iterates(fs, N, F, none, step)
  <2> HIDE DEF F, none, step
  <2> QED
    BY <1>1, <1>3, Recursion
<1>6. PICK fs : fs \in [0 .. N -> F] /\ fs[0] = none /\ \A n \in 1 .. N : fs[n] = step[<<fs[n - 1], n>>]
  <2> HIDE DEF F, none, step
  <2> QED
    BY <1>5 DEF Iterates
<1> HIDE DEF step
<1>7. \A n \in 0 .. N : fs[n] \in F
  <2> HIDE DEF F
  <2> QED
    BY <1>6
<1>8. ASSUME NEW n \in 1 .. N
      PROVE  n - 1 \in 0 .. N /\ fs[n - 1] \in F /\ fs[n] = with(fs[n - 1], n)
  <2>1. n - 1 \in 0 .. N
    OBVIOUS
  <2> HIDE DEF F, with
  <2> QED
    BY <1>4, <1>6, <1>7, <2>1
<1>9. ASSUME NEW n \in 1 .. N, NEW s \in SUBSET (1 .. N)
      PROVE  fs[n][s] = IF n \in s THEN g[<<fs[n - 1][s \ {n}], n>>] ELSE fs[n - 1][s]
  <2>1. \A f : with(f, n)[s] = IF n \in s THEN g[<<f[s \ {n}], n>>] ELSE f[s]
    OBVIOUS
  <2> HIDE DEF with
  <2> QED
    BY <1>8, <2>1
<1>10. ASSUME NEW k \in 0 .. N, NEW s \in SUBSET (1 .. N), \A y \in s : y <= k
       PROVE  fs[N][s] = fs[k][s]
  <2> DEFINE S == {n \in 0 .. N : n >= k => fs[n][s] = fs[k][s]}
  <2>1. 0 \in S
    OBVIOUS
  <2>2. ASSUME NEW n \in 1 .. N, n - 1 \in S PROVE n \in S
    <3>1. CASE n > k
      <4>1. n \notin s /\ n - 1 >= k
        BY <1>10, <3>1
      <4>2. fs[n][s] = fs[n - 1][s]
        BY <1>9, <4>1
      <4> QED
        BY <2>2, <4>1, <4>2
    <3>2. CASE n <= k
      BY <3>2
    <3> QED
      BY <3>1, <3>2
  <2> HIDE DEF S
  <2>3. \A n \in 0 .. N : n \in S
    BY <2>1, <2>2, UpTo
  <2> QED
    BY <2>3 DEF S
<1> DEFINE it == fs[N]
<1>11. it \in [SUBSET (1 .. N) -> D]
  <2>1. N \in 0 .. N
    OBVIOUS
  <2>2. fs[N] \in F
    BY <1>7, <2>1
  <2> QED
    BY <2>2
<1>12. it[{}] = base
  <2>1. fs[N][{}] = fs[0][{}]
    BY <1>10
  <2> QED
    BY <1>6, <2>1
<1>13. ASSUME NEW s \in SUBSET (1 .. N), s # {}
       PROVE  it[s] = g[<<it[s \ {Max(s)}], Max(s)>>]
  <2>1. Max(s) \in s /\ \A y \in s : Max(s) >= y
    BY <1>13, Largest
  <2> DEFINE m == Max(s)
             r == s \ {m}
  <2>0. m \in s /\ \A y \in s : m >= y
    BY <2>1
  <2> HIDE DEF m
  <2>2. m \in 1 .. N /\ m \in s /\ m - 1 \in 0 .. N /\ m \in 0 .. N /\ \A y \in s : y <= m
    BY <2>0
  <2>3. r \in SUBSET (1 .. N) /\ \A y \in r : y <= m - 1
    BY <2>2
  <2>4. fs[N][s] = fs[m][s]
    BY <1>10, <2>2
  <2>5. fs[m][s] = g[<<fs[m - 1][r], m>>]
    BY <1>9, <2>2
  <2> HIDE DEF r
  <2>6. fs[N][r] = fs[m - 1][r]
    BY <1>10, <2>2, <2>3
  <2>7. fs[N][s] = g[<<fs[N][r], m>>]
    BY <2>4, <2>5, <2>6
  <2> QED
    BY <2>7 DEF m, r
<1> QED
  BY <1>11, <1>12, <1>13 DEF FoldsSubsets

(* The steps of each fold in turn.                                        *)
AddLineSteps(h, base, seq) ==
  /\ h[0] = base
  /\ \A n \in 1 .. Len(seq) : h[n] = AddLine(h[n - 1], seq[n])
  /\ h[Len(seq)] = FoldLeft(AddLine, base, seq)

LEMMA AddLineFolds ==
  ASSUME NEW D, NEW base \in D, NEW A, NEW seq \in Seq(A),
         \A d \in D, i \in 1 .. Len(seq) : AddLine(d, seq[i]) \in D
  PROVE  \E h \in [0 .. Len(seq) -> D] : AddLineSteps(h, base, seq)
<1> DEFINE N == Len(seq)
           g == [p \in D \X (1 .. N) |-> AddLine(p[1], seq[p[2]])]
           Is(f) == f = [s \in SUBSET DOMAIN seq |->
                           IF s = {} THEN base ELSE AddLine(f[s \ {Max(s)}], seq[Max(s)])]
           chosen == CHOOSE f : Is(f)
<1>1. N \in Nat /\ DOMAIN seq = 1 .. N
  OBVIOUS
<1>2. g \in [D \X (1 .. N) -> D] /\ \A d \in D, i \in 1 .. N : g[<<d, i>>] = AddLine(d, seq[i])
  OBVIOUS
<1>3. \E f : Is(f)
  <2>1. \E it : FoldsSubsets(it, N, D, base, g)
    <3> HIDE DEF N, g
    <3> QED
      BY <1>1, <1>2, FoldExists
  <2>2. PICK it : /\ it \in [SUBSET (1 .. N) -> D]
                  /\ it[{}] = base
                  /\ \A s \in SUBSET (1 .. N) : s # {} => it[s] = g[<<it[s \ {Max(s)}], Max(s)>>]
    <3> HIDE DEF N, g
    <3> QED
      BY <2>1 DEF FoldsSubsets
  <2> HIDE DEF N, g
  <2>3. ASSUME NEW s \in SUBSET (1 .. N), s # {}
        PROVE  it[s] = AddLine(it[s \ {Max(s)}], seq[Max(s)])
    <3>1. Max(s) \in 1 .. N
      BY <1>1, <2>3, Largest
    <3>2. s \ {Max(s)} \in SUBSET (1 .. N)
      OBVIOUS
    <3>3. it[s \ {Max(s)}] \in D
      BY <2>2, <3>2
    <3> QED
      BY <1>2, <2>2, <2>3, <3>1, <3>3
  <2>4. it = [s \in SUBSET (1 .. N) |-> IF s = {} THEN base ELSE AddLine(it[s \ {Max(s)}], seq[Max(s)])]
    BY <2>2, <2>3
  <2>5. Is(it)
    BY <1>1, <2>4
  <2> HIDE DEF Is
  <2> QED
    BY <2>5
<1>4. Is(chosen)
  <2> HIDE DEF Is
  <2> QED
    BY <1>3
<1> HIDE DEF chosen
<1>5. \A s \in SUBSET (1 .. N) :
        chosen[s] = IF s = {} THEN base ELSE AddLine(chosen[s \ {Max(s)}], seq[Max(s)])
  <2> DEFINE e(s) == IF s = {} THEN base ELSE AddLine(chosen[s \ {Max(s)}], seq[Max(s)])
  <2>1. chosen = [s \in SUBSET (1 .. N) |-> e(s)]
    BY <1>1, <1>4
  <2> HIDE DEF e
  <2>2. \A s \in SUBSET (1 .. N) : chosen[s] = e(s)
    BY <2>1
  <2> QED
    BY <2>2 DEF e
<1> HIDE DEF N, g, Is
<1> DEFINE h == [n \in 0 .. N |-> chosen[1 .. n]]
<1>6. h[0] = base
  <2>1. 1 .. 0 = {} /\ 0 \in 0 .. N /\ {} \in SUBSET (1 .. N)
    BY <1>1
  <2> QED
    BY <1>5, <2>1
<1>7. ASSUME NEW n \in 1 .. N PROVE h[n] = AddLine(h[n - 1], seq[n])
  <2>1. n \in Nat /\ n > 0 /\ n - 1 \in 0 .. N /\ n \in 0 .. N /\ 1 .. n \in SUBSET (1 .. N)
    BY <1>1
  <2>2. 1 .. n # {} /\ Max(1 .. n) = n /\ (1 .. n) \ {n} = 1 .. (n - 1)
    BY <2>1, LargestUpTo
  <2>3. chosen[1 .. n] = AddLine(chosen[(1 .. n) \ {Max(1 .. n)}], seq[Max(1 .. n)])
    <3> DEFINE s == 1 .. n
    <3>1. s \in SUBSET (1 .. N) /\ s # {}
      BY <2>1, <2>2
    <3> HIDE DEF s
    <3>2. chosen[s] = AddLine(chosen[s \ {Max(s)}], seq[Max(s)])
      BY <1>5, <3>1
    <3> QED
      BY <3>2 DEF s
  <2>4. chosen[1 .. n] = AddLine(chosen[1 .. (n - 1)], seq[n])
    BY <2>2, <2>3, Zenon
  <2> QED
    BY <2>1, <2>4
<1>8. h[N] = FoldLeft(AddLine, base, seq)
  <2>1. FoldLeft(AddLine, base, seq) = chosen[DOMAIN seq]
    BY DEF FoldLeft, MapThenFoldSet, chosen, Is
  <2> QED
    BY <1>1, <2>1
<1> HIDE DEF h
<1>9. \A n \in 0 .. N : n \in {i \in 0 .. N : h[i] \in D}
  <2> DEFINE S == {i \in 0 .. N : h[i] \in D}
  <2>1. 0 \in S
    BY <1>1, <1>6
  <2>2. ASSUME NEW n \in 1 .. N, n - 1 \in S PROVE n \in S
    <3>1. h[n - 1] \in D /\ n \in 0 .. N
      BY <1>1, <2>2
    <3>2. AddLine(h[n - 1], seq[n]) \in D
      BY <3>1 DEF N
    <3> QED
      BY <1>7, <3>1, <3>2
  <2> HIDE DEF S
  <2>3. \A n \in 0 .. N : n \in S
    BY <1>1, <2>1, <2>2, UpTo
  <2> QED
    BY <2>3 DEF S
<1>10. h = [n \in 0 .. N |-> h[n]]
  BY DEF h
<1>11. h \in [0 .. N -> D]
  BY <1>9, <1>10
<1> QED
  BY <1>6, <1>7, <1>8, <1>11 DEF N, AddLineSteps

CutWordSteps(h, base, seq) ==
  /\ h[0] = base
  /\ \A n \in 1 .. Len(seq) : h[n] = CutWord(h[n - 1], seq[n])
  /\ h[Len(seq)] = FoldLeft(CutWord, base, seq)

LEMMA CutWordFolds ==
  ASSUME NEW D, NEW base \in D, NEW A, NEW seq \in Seq(A),
         \A d \in D, i \in 1 .. Len(seq) : CutWord(d, seq[i]) \in D
  PROVE  \E h \in [0 .. Len(seq) -> D] : CutWordSteps(h, base, seq)
<1> DEFINE N == Len(seq)
           g == [p \in D \X (1 .. N) |-> CutWord(p[1], seq[p[2]])]
           Is(f) == f = [s \in SUBSET DOMAIN seq |->
                           IF s = {} THEN base ELSE CutWord(f[s \ {Max(s)}], seq[Max(s)])]
           chosen == CHOOSE f : Is(f)
<1>1. N \in Nat /\ DOMAIN seq = 1 .. N
  OBVIOUS
<1>2. g \in [D \X (1 .. N) -> D] /\ \A d \in D, i \in 1 .. N : g[<<d, i>>] = CutWord(d, seq[i])
  OBVIOUS
<1>3. \E f : Is(f)
  <2>1. \E it : FoldsSubsets(it, N, D, base, g)
    <3> HIDE DEF N, g
    <3> QED
      BY <1>1, <1>2, FoldExists
  <2>2. PICK it : /\ it \in [SUBSET (1 .. N) -> D]
                  /\ it[{}] = base
                  /\ \A s \in SUBSET (1 .. N) : s # {} => it[s] = g[<<it[s \ {Max(s)}], Max(s)>>]
    <3> HIDE DEF N, g
    <3> QED
      BY <2>1 DEF FoldsSubsets
  <2> HIDE DEF N, g
  <2>3. ASSUME NEW s \in SUBSET (1 .. N), s # {}
        PROVE  it[s] = CutWord(it[s \ {Max(s)}], seq[Max(s)])
    <3>1. Max(s) \in 1 .. N
      BY <1>1, <2>3, Largest
    <3>2. s \ {Max(s)} \in SUBSET (1 .. N)
      OBVIOUS
    <3>3. it[s \ {Max(s)}] \in D
      BY <2>2, <3>2
    <3> QED
      BY <1>2, <2>2, <2>3, <3>1, <3>3
  <2>4. it = [s \in SUBSET (1 .. N) |-> IF s = {} THEN base ELSE CutWord(it[s \ {Max(s)}], seq[Max(s)])]
    BY <2>2, <2>3
  <2>5. Is(it)
    BY <1>1, <2>4
  <2> HIDE DEF Is
  <2> QED
    BY <2>5
<1>4. Is(chosen)
  <2> HIDE DEF Is
  <2> QED
    BY <1>3
<1> HIDE DEF chosen
<1>5. \A s \in SUBSET (1 .. N) :
        chosen[s] = IF s = {} THEN base ELSE CutWord(chosen[s \ {Max(s)}], seq[Max(s)])
  <2> DEFINE e(s) == IF s = {} THEN base ELSE CutWord(chosen[s \ {Max(s)}], seq[Max(s)])
  <2>1. chosen = [s \in SUBSET (1 .. N) |-> e(s)]
    BY <1>1, <1>4
  <2> HIDE DEF e
  <2>2. \A s \in SUBSET (1 .. N) : chosen[s] = e(s)
    BY <2>1
  <2> QED
    BY <2>2 DEF e
<1> HIDE DEF N, g, Is
<1> DEFINE h == [n \in 0 .. N |-> chosen[1 .. n]]
<1>6. h[0] = base
  <2>1. 1 .. 0 = {} /\ 0 \in 0 .. N /\ {} \in SUBSET (1 .. N)
    BY <1>1
  <2> QED
    BY <1>5, <2>1
<1>7. ASSUME NEW n \in 1 .. N PROVE h[n] = CutWord(h[n - 1], seq[n])
  <2>1. n \in Nat /\ n > 0 /\ n - 1 \in 0 .. N /\ n \in 0 .. N /\ 1 .. n \in SUBSET (1 .. N)
    BY <1>1
  <2>2. 1 .. n # {} /\ Max(1 .. n) = n /\ (1 .. n) \ {n} = 1 .. (n - 1)
    BY <2>1, LargestUpTo
  <2>3. chosen[1 .. n] = CutWord(chosen[(1 .. n) \ {Max(1 .. n)}], seq[Max(1 .. n)])
    <3> DEFINE s == 1 .. n
    <3>1. s \in SUBSET (1 .. N) /\ s # {}
      BY <2>1, <2>2
    <3> HIDE DEF s
    <3>2. chosen[s] = CutWord(chosen[s \ {Max(s)}], seq[Max(s)])
      BY <1>5, <3>1
    <3> QED
      BY <3>2 DEF s
  <2>4. chosen[1 .. n] = CutWord(chosen[1 .. (n - 1)], seq[n])
    BY <2>2, <2>3, Zenon
  <2> QED
    BY <2>1, <2>4
<1>8. h[N] = FoldLeft(CutWord, base, seq)
  <2>1. FoldLeft(CutWord, base, seq) = chosen[DOMAIN seq]
    BY DEF FoldLeft, MapThenFoldSet, chosen, Is
  <2> QED
    BY <1>1, <2>1
<1> HIDE DEF h
<1>9. \A n \in 0 .. N : n \in {i \in 0 .. N : h[i] \in D}
  <2> DEFINE S == {i \in 0 .. N : h[i] \in D}
  <2>1. 0 \in S
    BY <1>1, <1>6
  <2>2. ASSUME NEW n \in 1 .. N, n - 1 \in S PROVE n \in S
    <3>1. h[n - 1] \in D /\ n \in 0 .. N
      BY <1>1, <2>2
    <3>2. CutWord(h[n - 1], seq[n]) \in D
      BY <3>1 DEF N
    <3> QED
      BY <1>7, <3>1, <3>2
  <2> HIDE DEF S
  <2>3. \A n \in 0 .. N : n \in S
    BY <1>1, <2>1, <2>2, UpTo
  <2> QED
    BY <2>3 DEF S
<1>10. h = [n \in 0 .. N |-> h[n]]
  BY DEF h
<1>11. h \in [0 .. N -> D]
  BY <1>9, <1>10
<1> QED
  BY <1>6, <1>7, <1>8, <1>11 DEF N, CutWordSteps

PlusSteps(h, base, seq) ==
  /\ h[0] = base
  /\ \A n \in 1 .. Len(seq) : h[n] = Plus(h[n - 1], seq[n])
  /\ h[Len(seq)] = FoldLeft(Plus, base, seq)

LEMMA PlusFolds ==
  ASSUME NEW D, NEW base \in D, NEW A, NEW seq \in Seq(A),
         \A d \in D, i \in 1 .. Len(seq) : Plus(d, seq[i]) \in D
  PROVE  \E h \in [0 .. Len(seq) -> D] : PlusSteps(h, base, seq)
<1> DEFINE N == Len(seq)
           g == [p \in D \X (1 .. N) |-> Plus(p[1], seq[p[2]])]
           Is(f) == f = [s \in SUBSET DOMAIN seq |->
                           IF s = {} THEN base ELSE Plus(f[s \ {Max(s)}], seq[Max(s)])]
           chosen == CHOOSE f : Is(f)
<1>1. N \in Nat /\ DOMAIN seq = 1 .. N
  OBVIOUS
<1>2. g \in [D \X (1 .. N) -> D] /\ \A d \in D, i \in 1 .. N : g[<<d, i>>] = Plus(d, seq[i])
  OBVIOUS
<1>3. \E f : Is(f)
  <2>1. \E it : FoldsSubsets(it, N, D, base, g)
    <3> HIDE DEF N, g
    <3> QED
      BY <1>1, <1>2, FoldExists
  <2>2. PICK it : /\ it \in [SUBSET (1 .. N) -> D]
                  /\ it[{}] = base
                  /\ \A s \in SUBSET (1 .. N) : s # {} => it[s] = g[<<it[s \ {Max(s)}], Max(s)>>]
    <3> HIDE DEF N, g
    <3> QED
      BY <2>1 DEF FoldsSubsets
  <2> HIDE DEF N, g
  <2>3. ASSUME NEW s \in SUBSET (1 .. N), s # {}
        PROVE  it[s] = Plus(it[s \ {Max(s)}], seq[Max(s)])
    <3>1. Max(s) \in 1 .. N
      BY <1>1, <2>3, Largest
    <3>2. s \ {Max(s)} \in SUBSET (1 .. N)
      OBVIOUS
    <3>3. it[s \ {Max(s)}] \in D
      BY <2>2, <3>2
    <3> QED
      BY <1>2, <2>2, <2>3, <3>1, <3>3
  <2>4. it = [s \in SUBSET (1 .. N) |-> IF s = {} THEN base ELSE Plus(it[s \ {Max(s)}], seq[Max(s)])]
    BY <2>2, <2>3
  <2>5. Is(it)
    BY <1>1, <2>4
  <2> HIDE DEF Is
  <2> QED
    BY <2>5
<1>4. Is(chosen)
  <2> HIDE DEF Is
  <2> QED
    BY <1>3
<1> HIDE DEF chosen
<1>5. \A s \in SUBSET (1 .. N) :
        chosen[s] = IF s = {} THEN base ELSE Plus(chosen[s \ {Max(s)}], seq[Max(s)])
  <2> DEFINE e(s) == IF s = {} THEN base ELSE Plus(chosen[s \ {Max(s)}], seq[Max(s)])
  <2>1. chosen = [s \in SUBSET (1 .. N) |-> e(s)]
    BY <1>1, <1>4
  <2> HIDE DEF e
  <2>2. \A s \in SUBSET (1 .. N) : chosen[s] = e(s)
    BY <2>1
  <2> QED
    BY <2>2 DEF e
<1> HIDE DEF N, g, Is
<1> DEFINE h == [n \in 0 .. N |-> chosen[1 .. n]]
<1>6. h[0] = base
  <2>1. 1 .. 0 = {} /\ 0 \in 0 .. N /\ {} \in SUBSET (1 .. N)
    BY <1>1
  <2> QED
    BY <1>5, <2>1
<1>7. ASSUME NEW n \in 1 .. N PROVE h[n] = Plus(h[n - 1], seq[n])
  <2>1. n \in Nat /\ n > 0 /\ n - 1 \in 0 .. N /\ n \in 0 .. N /\ 1 .. n \in SUBSET (1 .. N)
    BY <1>1
  <2>2. 1 .. n # {} /\ Max(1 .. n) = n /\ (1 .. n) \ {n} = 1 .. (n - 1)
    BY <2>1, LargestUpTo
  <2>3. chosen[1 .. n] = Plus(chosen[(1 .. n) \ {Max(1 .. n)}], seq[Max(1 .. n)])
    <3> DEFINE s == 1 .. n
    <3>1. s \in SUBSET (1 .. N) /\ s # {}
      BY <2>1, <2>2
    <3> HIDE DEF s
    <3>2. chosen[s] = Plus(chosen[s \ {Max(s)}], seq[Max(s)])
      BY <1>5, <3>1
    <3> QED
      BY <3>2 DEF s
  <2>4. chosen[1 .. n] = Plus(chosen[1 .. (n - 1)], seq[n])
    BY <2>2, <2>3, Zenon
  <2> QED
    BY <2>1, <2>4
<1>8. h[N] = FoldLeft(Plus, base, seq)
  <2>1. FoldLeft(Plus, base, seq) = chosen[DOMAIN seq]
    BY DEF FoldLeft, MapThenFoldSet, chosen, Is
  <2> QED
    BY <1>1, <2>1
<1> HIDE DEF h
<1>9. \A n \in 0 .. N : n \in {i \in 0 .. N : h[i] \in D}
  <2> DEFINE S == {i \in 0 .. N : h[i] \in D}
  <2>1. 0 \in S
    BY <1>1, <1>6
  <2>2. ASSUME NEW n \in 1 .. N, n - 1 \in S PROVE n \in S
    <3>1. h[n - 1] \in D /\ n \in 0 .. N
      BY <1>1, <2>2
    <3>2. Plus(h[n - 1], seq[n]) \in D
      BY <3>1 DEF N
    <3> QED
      BY <1>7, <3>1, <3>2
  <2> HIDE DEF S
  <2>3. \A n \in 0 .. N : n \in S
    BY <1>1, <2>1, <2>2, UpTo
  <2> QED
    BY <2>3 DEF S
<1>10. h = [n \in 0 .. N |-> h[n]]
  BY DEF h
<1>11. h \in [0 .. N -> D]
  BY <1>9, <1>10
<1> QED
  BY <1>6, <1>7, <1>8, <1>11 DEF N, PlusSteps

CutSentenceSteps(h, base, seq) ==
  /\ h[0] = base
  /\ \A n \in 1 .. Len(seq) : h[n] = CutSentence(h[n - 1], seq[n])
  /\ h[Len(seq)] = FoldLeft(CutSentence, base, seq)

LEMMA CutSentenceFolds ==
  ASSUME NEW D, NEW base \in D, NEW A, NEW seq \in Seq(A),
         \A d \in D, i \in 1 .. Len(seq) : CutSentence(d, seq[i]) \in D
  PROVE  \E h \in [0 .. Len(seq) -> D] : CutSentenceSteps(h, base, seq)
<1> DEFINE N == Len(seq)
           g == [p \in D \X (1 .. N) |-> CutSentence(p[1], seq[p[2]])]
           Is(f) == f = [s \in SUBSET DOMAIN seq |->
                           IF s = {} THEN base ELSE CutSentence(f[s \ {Max(s)}], seq[Max(s)])]
           chosen == CHOOSE f : Is(f)
<1>1. N \in Nat /\ DOMAIN seq = 1 .. N
  OBVIOUS
<1>2. g \in [D \X (1 .. N) -> D] /\ \A d \in D, i \in 1 .. N : g[<<d, i>>] = CutSentence(d, seq[i])
  OBVIOUS
<1>3. \E f : Is(f)
  <2>1. \E it : FoldsSubsets(it, N, D, base, g)
    <3> HIDE DEF N, g
    <3> QED
      BY <1>1, <1>2, FoldExists
  <2>2. PICK it : /\ it \in [SUBSET (1 .. N) -> D]
                  /\ it[{}] = base
                  /\ \A s \in SUBSET (1 .. N) : s # {} => it[s] = g[<<it[s \ {Max(s)}], Max(s)>>]
    <3> HIDE DEF N, g
    <3> QED
      BY <2>1 DEF FoldsSubsets
  <2> HIDE DEF N, g
  <2>3. ASSUME NEW s \in SUBSET (1 .. N), s # {}
        PROVE  it[s] = CutSentence(it[s \ {Max(s)}], seq[Max(s)])
    <3>1. Max(s) \in 1 .. N
      BY <1>1, <2>3, Largest
    <3>2. s \ {Max(s)} \in SUBSET (1 .. N)
      OBVIOUS
    <3>3. it[s \ {Max(s)}] \in D
      BY <2>2, <3>2
    <3> QED
      BY <1>2, <2>2, <2>3, <3>1, <3>3
  <2>4. it = [s \in SUBSET (1 .. N) |-> IF s = {} THEN base ELSE CutSentence(it[s \ {Max(s)}], seq[Max(s)])]
    BY <2>2, <2>3
  <2>5. Is(it)
    BY <1>1, <2>4
  <2> HIDE DEF Is
  <2> QED
    BY <2>5
<1>4. Is(chosen)
  <2> HIDE DEF Is
  <2> QED
    BY <1>3
<1> HIDE DEF chosen
<1>5. \A s \in SUBSET (1 .. N) :
        chosen[s] = IF s = {} THEN base ELSE CutSentence(chosen[s \ {Max(s)}], seq[Max(s)])
  <2> DEFINE e(s) == IF s = {} THEN base ELSE CutSentence(chosen[s \ {Max(s)}], seq[Max(s)])
  <2>1. chosen = [s \in SUBSET (1 .. N) |-> e(s)]
    BY <1>1, <1>4
  <2> HIDE DEF e
  <2>2. \A s \in SUBSET (1 .. N) : chosen[s] = e(s)
    BY <2>1
  <2> QED
    BY <2>2 DEF e
<1> HIDE DEF N, g, Is
<1> DEFINE h == [n \in 0 .. N |-> chosen[1 .. n]]
<1>6. h[0] = base
  <2>1. 1 .. 0 = {} /\ 0 \in 0 .. N /\ {} \in SUBSET (1 .. N)
    BY <1>1
  <2> QED
    BY <1>5, <2>1
<1>7. ASSUME NEW n \in 1 .. N PROVE h[n] = CutSentence(h[n - 1], seq[n])
  <2>1. n \in Nat /\ n > 0 /\ n - 1 \in 0 .. N /\ n \in 0 .. N /\ 1 .. n \in SUBSET (1 .. N)
    BY <1>1
  <2>2. 1 .. n # {} /\ Max(1 .. n) = n /\ (1 .. n) \ {n} = 1 .. (n - 1)
    BY <2>1, LargestUpTo
  <2>3. chosen[1 .. n] = CutSentence(chosen[(1 .. n) \ {Max(1 .. n)}], seq[Max(1 .. n)])
    <3> DEFINE s == 1 .. n
    <3>1. s \in SUBSET (1 .. N) /\ s # {}
      BY <2>1, <2>2
    <3> HIDE DEF s
    <3>2. chosen[s] = CutSentence(chosen[s \ {Max(s)}], seq[Max(s)])
      BY <1>5, <3>1
    <3> QED
      BY <3>2 DEF s
  <2>4. chosen[1 .. n] = CutSentence(chosen[1 .. (n - 1)], seq[n])
    BY <2>2, <2>3, Zenon
  <2> QED
    BY <2>1, <2>4
<1>8. h[N] = FoldLeft(CutSentence, base, seq)
  <2>1. FoldLeft(CutSentence, base, seq) = chosen[DOMAIN seq]
    BY DEF FoldLeft, MapThenFoldSet, chosen, Is
  <2> QED
    BY <1>1, <2>1
<1> HIDE DEF h
<1>9. \A n \in 0 .. N : n \in {i \in 0 .. N : h[i] \in D}
  <2> DEFINE S == {i \in 0 .. N : h[i] \in D}
  <2>1. 0 \in S
    BY <1>1, <1>6
  <2>2. ASSUME NEW n \in 1 .. N, n - 1 \in S PROVE n \in S
    <3>1. h[n - 1] \in D /\ n \in 0 .. N
      BY <1>1, <2>2
    <3>2. CutSentence(h[n - 1], seq[n]) \in D
      BY <3>1 DEF N
    <3> QED
      BY <1>7, <3>1, <3>2
  <2> HIDE DEF S
  <2>3. \A n \in 0 .. N : n \in S
    BY <1>1, <2>1, <2>2, UpTo
  <2> QED
    BY <2>3 DEF S
<1>10. h = [n \in 0 .. N |-> h[n]]
  BY DEF h
<1>11. h \in [0 .. N -> D]
  BY <1>9, <1>10
<1> QED
  BY <1>6, <1>7, <1>8, <1>11 DEF N, CutSentenceSteps

AddBlockSteps(h, base, seq) ==
  /\ h[0] = base
  /\ \A n \in 1 .. Len(seq) : h[n] = AddBlock(h[n - 1], seq[n])
  /\ h[Len(seq)] = FoldLeft(AddBlock, base, seq)

LEMMA AddBlockFolds ==
  ASSUME NEW D, NEW base \in D, NEW A, NEW seq \in Seq(A),
         \A d \in D, i \in 1 .. Len(seq) : AddBlock(d, seq[i]) \in D
  PROVE  \E h \in [0 .. Len(seq) -> D] : AddBlockSteps(h, base, seq)
<1> DEFINE N == Len(seq)
           g == [p \in D \X (1 .. N) |-> AddBlock(p[1], seq[p[2]])]
           Is(f) == f = [s \in SUBSET DOMAIN seq |->
                           IF s = {} THEN base ELSE AddBlock(f[s \ {Max(s)}], seq[Max(s)])]
           chosen == CHOOSE f : Is(f)
<1>1. N \in Nat /\ DOMAIN seq = 1 .. N
  OBVIOUS
<1>2. g \in [D \X (1 .. N) -> D] /\ \A d \in D, i \in 1 .. N : g[<<d, i>>] = AddBlock(d, seq[i])
  OBVIOUS
<1>3. \E f : Is(f)
  <2>1. \E it : FoldsSubsets(it, N, D, base, g)
    <3> HIDE DEF N, g
    <3> QED
      BY <1>1, <1>2, FoldExists
  <2>2. PICK it : /\ it \in [SUBSET (1 .. N) -> D]
                  /\ it[{}] = base
                  /\ \A s \in SUBSET (1 .. N) : s # {} => it[s] = g[<<it[s \ {Max(s)}], Max(s)>>]
    <3> HIDE DEF N, g
    <3> QED
      BY <2>1 DEF FoldsSubsets
  <2> HIDE DEF N, g
  <2>3. ASSUME NEW s \in SUBSET (1 .. N), s # {}
        PROVE  it[s] = AddBlock(it[s \ {Max(s)}], seq[Max(s)])
    <3>1. Max(s) \in 1 .. N
      BY <1>1, <2>3, Largest
    <3>2. s \ {Max(s)} \in SUBSET (1 .. N)
      OBVIOUS
    <3>3. it[s \ {Max(s)}] \in D
      BY <2>2, <3>2
    <3> QED
      BY <1>2, <2>2, <2>3, <3>1, <3>3
  <2>4. it = [s \in SUBSET (1 .. N) |-> IF s = {} THEN base ELSE AddBlock(it[s \ {Max(s)}], seq[Max(s)])]
    BY <2>2, <2>3
  <2>5. Is(it)
    BY <1>1, <2>4
  <2> HIDE DEF Is
  <2> QED
    BY <2>5
<1>4. Is(chosen)
  <2> HIDE DEF Is
  <2> QED
    BY <1>3
<1> HIDE DEF chosen
<1>5. \A s \in SUBSET (1 .. N) :
        chosen[s] = IF s = {} THEN base ELSE AddBlock(chosen[s \ {Max(s)}], seq[Max(s)])
  <2> DEFINE e(s) == IF s = {} THEN base ELSE AddBlock(chosen[s \ {Max(s)}], seq[Max(s)])
  <2>1. chosen = [s \in SUBSET (1 .. N) |-> e(s)]
    BY <1>1, <1>4
  <2> HIDE DEF e
  <2>2. \A s \in SUBSET (1 .. N) : chosen[s] = e(s)
    BY <2>1
  <2> QED
    BY <2>2 DEF e
<1> HIDE DEF N, g, Is
<1> DEFINE h == [n \in 0 .. N |-> chosen[1 .. n]]
<1>6. h[0] = base
  <2>1. 1 .. 0 = {} /\ 0 \in 0 .. N /\ {} \in SUBSET (1 .. N)
    BY <1>1
  <2> QED
    BY <1>5, <2>1
<1>7. ASSUME NEW n \in 1 .. N PROVE h[n] = AddBlock(h[n - 1], seq[n])
  <2>1. n \in Nat /\ n > 0 /\ n - 1 \in 0 .. N /\ n \in 0 .. N /\ 1 .. n \in SUBSET (1 .. N)
    BY <1>1
  <2>2. 1 .. n # {} /\ Max(1 .. n) = n /\ (1 .. n) \ {n} = 1 .. (n - 1)
    BY <2>1, LargestUpTo
  <2>3. chosen[1 .. n] = AddBlock(chosen[(1 .. n) \ {Max(1 .. n)}], seq[Max(1 .. n)])
    <3> DEFINE s == 1 .. n
    <3>1. s \in SUBSET (1 .. N) /\ s # {}
      BY <2>1, <2>2
    <3> HIDE DEF s
    <3>2. chosen[s] = AddBlock(chosen[s \ {Max(s)}], seq[Max(s)])
      BY <1>5, <3>1
    <3> QED
      BY <3>2 DEF s
  <2>4. chosen[1 .. n] = AddBlock(chosen[1 .. (n - 1)], seq[n])
    BY <2>2, <2>3, Zenon
  <2> QED
    BY <2>1, <2>4
<1>8. h[N] = FoldLeft(AddBlock, base, seq)
  <2>1. FoldLeft(AddBlock, base, seq) = chosen[DOMAIN seq]
    BY DEF FoldLeft, MapThenFoldSet, chosen, Is
  <2> QED
    BY <1>1, <2>1
<1> HIDE DEF h
<1>9. \A n \in 0 .. N : n \in {i \in 0 .. N : h[i] \in D}
  <2> DEFINE S == {i \in 0 .. N : h[i] \in D}
  <2>1. 0 \in S
    BY <1>1, <1>6
  <2>2. ASSUME NEW n \in 1 .. N, n - 1 \in S PROVE n \in S
    <3>1. h[n - 1] \in D /\ n \in 0 .. N
      BY <1>1, <2>2
    <3>2. AddBlock(h[n - 1], seq[n]) \in D
      BY <3>1 DEF N
    <3> QED
      BY <1>7, <3>1, <3>2
  <2> HIDE DEF S
  <2>3. \A n \in 0 .. N : n \in S
    BY <1>1, <2>1, <2>2, UpTo
  <2> QED
    BY <2>3 DEF S
<1>10. h = [n \in 0 .. N |-> h[n]]
  BY DEF h
<1>11. h \in [0 .. N -> D]
  BY <1>9, <1>10
<1> QED
  BY <1>6, <1>7, <1>8, <1>11 DEF N, AddBlockSteps

-------------------------------------------------------------------------------
(* The sequences of words, with what their proofs need.                    *)
Sentences == Seq(Words)
Pieces == Seq(Sentences)
NoWords == <<>>

LEMMA SentenceFacts ==
  ASSUME NEW a \in Sentences, NEW b \in Sentences, NEW c \in Sentences
  PROVE  /\ Len(a) \in Nat /\ a \o b \in Sentences /\ Len(a \o b) = Len(a) + Len(b)
         /\ (a \o b) \o c = a \o (b \o c)
         /\ NoWords \in Sentences /\ a \o NoWords = a /\ NoWords \o a = a /\ Len(NoWords) = 0
         /\ (a = NoWords <=> Len(a) = 0)
<1>1. (a \o b) \o c = a \o (b \o c)
  BY ConcatAssociative DEF Sentences
<1>2. a \o NoWords = a /\ NoWords \o a = a
  BY ConcatEmptySeq DEF Sentences, NoWords
<1>3. a \o b \in Sentences /\ Len(a \o b) = Len(a) + Len(b) /\ Len(a) \in Nat
  BY ConcatProperties DEF Sentences
<1>4. NoWords \in Sentences /\ Len(NoWords) = 0 /\ (a = NoWords <=> Len(a) = 0)
  BY DEF Sentences, NoWords
<1> QED
  BY <1>1, <1>2, <1>3, <1>4

LEMMA Joined == \A a, b, c \in Sentences : (a \o b) \o c = a \o (b \o c)
<1> SUFFICES ASSUME NEW a \in Sentences, NEW b \in Sentences, NEW c \in Sentences
             PROVE  (a \o b) \o c = a \o (b \o c)
  OBVIOUS
<1> QED
  BY ConcatAssociative DEF Sentences

LEMMA PieceFacts ==
  ASSUME NEW p \in Pieces, NEW s \in Sentences
  PROVE  /\ FlattenSeq(p) \in Sentences
         /\ Append(p, s) \in Pieces /\ FlattenSeq(Append(p, s)) = FlattenSeq(p) \o s /\ Append(p, s) # NoWords
         /\ <<s>> \in Pieces /\ FlattenSeq(<<s>>) = s /\ <<s>> # NoWords
         /\ NoWords \in Pieces /\ FlattenSeq(NoWords) = NoWords
<1>1. p \in Seq(Seq(Words)) /\ s \in Seq(Words)
  BY DEF Pieces, Sentences
<1>2. FlattenSeq(p) \in Seq(Words)
  BY <1>1, FlattenType
<1>3. Append(p, s) \in Seq(Seq(Words)) /\ FlattenSeq(Append(p, s)) = FlattenSeq(p) \o s
  BY <1>1, FlattenAppend
<1>4. FlattenSeq(<<s>>) = s
  BY <1>1, FlattenOne
<1>5. <<s>> \in Seq(Seq(Words)) /\ <<>> \in Seq(Seq(Words)) /\ <<s>> # <<>> /\ Append(p, s) # <<>>
  BY <1>1
<1> QED
  BY <1>2, <1>3, <1>4, <1>5, FlattenEmpty DEF Pieces, Sentences, NoWords

LEMMA Flattened ==
  /\ \A p \in Pieces : FlattenSeq(p) \in Sentences
  /\ FlattenSeq(NoWords) = NoWords /\ NoWords \in Pieces /\ NoWords \in Sentences /\ Len(NoWords) = 0
<1>1. NoWords \in Sentences /\ NoWords \in Pieces /\ Len(NoWords) = 0
  BY DEF Sentences, Pieces, NoWords
<1> QED
  BY <1>1, PieceFacts

LEMMA PiecesJoin ==
  ASSUME NEW p \in Pieces, NEW q \in Pieces
  PROVE  p \o q \in Pieces /\ FlattenSeq(p \o q) = FlattenSeq(p) \o FlattenSeq(q)
<1>1. p \in Seq(Seq(Words)) /\ q \in Seq(Seq(Words))
  BY DEF Pieces, Sentences
<1>2. FlattenSeq(p \o q) = FlattenSeq(p) \o FlattenSeq(q)
  BY <1>1, FlattenConcat
<1>3. p \o q \in Seq(Seq(Words))
  BY <1>1, ConcatProperties
<1> QED
  BY <1>2, <1>3 DEF Pieces, Sentences

(* Words are kept: each is there, before it only words that are before it  *)
(* in the text, and nothing but words of the text.                         *)
Keeps(kept, words) ==
  /\ \A i \in 1 .. Len(words) : \E p \in 1 .. Len(kept) :
       kept[p] = words[i] /\ \A q \in 1 .. p - 1 : \E j \in 1 .. i - 1 : kept[q] = words[j]
  /\ \A q \in 1 .. Len(kept) : \E j \in 1 .. Len(words) : kept[q] = words[j]

Among(a, b) == \A i \in 1 .. Len(a) : \E j \in 1 .. Len(b) : a[i] = b[j]

LEMMA KeepsNone == Keeps(NoWords, NoWords)
BY DEF Keeps, NoWords

LEMMA ConcatElements ==
  ASSUME NEW a \in Sentences, NEW b \in Sentences
  PROVE  /\ \A i \in 1 .. Len(a) : i \in 1 .. Len(a \o b) /\ (a \o b)[i] = a[i]
         /\ \A i \in 1 .. Len(b) : Len(a) + i \in 1 .. Len(a \o b) /\ (a \o b)[Len(a) + i] = b[i]
         /\ \A q \in 1 .. Len(a \o b) : q \in 1 .. Len(a) \/ \E i \in 1 .. Len(b) : q = Len(a) + i
         /\ Len(a) \in Nat /\ Len(b) \in Nat
<1>1. Len(a \o b) = Len(a) + Len(b) /\ Len(a) \in Nat /\ Len(b) \in Nat
  BY SentenceFacts
<1>2. \A i \in 1 .. Len(a) : (a \o b)[i] = a[i]
  BY <1>1 DEF Sentences
<1>3. \A i \in 1 .. Len(b) : (a \o b)[Len(a) + i] = b[i]
  BY <1>1 DEF Sentences
<1>4. ASSUME NEW q \in 1 .. Len(a \o b), q \notin 1 .. Len(a)
      PROVE  \E i \in 1 .. Len(b) : q = Len(a) + i
  <2>1. q - Len(a) \in 1 .. Len(b) /\ q = Len(a) + (q - Len(a))
    BY <1>1, <1>4
  <2> QED
    BY <2>1
<1> QED
  BY <1>1, <1>2, <1>3, <1>4

LEMMA KeepsMore ==
  ASSUME NEW k \in Sentences, NEW w \in Sentences, NEW v \in Sentences, Keeps(k, w)
  PROVE  Keeps(k \o v, w \o v)
<1>1. /\ \A i \in 1 .. Len(w) : \E p \in 1 .. Len(k) :
           k[p] = w[i] /\ \A q \in 1 .. p - 1 : \E j \in 1 .. i - 1 : k[q] = w[j]
      /\ \A q \in 1 .. Len(k) : \E j \in 1 .. Len(w) : k[q] = w[j]
  BY DEF Keeps
<1> DEFINE kv == k \o v
           wv == w \o v
<1>2. /\ \A i \in 1 .. Len(k) : i \in 1 .. Len(kv) /\ kv[i] = k[i]
      /\ \A i \in 1 .. Len(v) : Len(k) + i \in 1 .. Len(kv) /\ kv[Len(k) + i] = v[i]
      /\ \A q \in 1 .. Len(kv) : q \in 1 .. Len(k) \/ \E i \in 1 .. Len(v) : q = Len(k) + i
      /\ Len(k) \in Nat /\ Len(v) \in Nat
  BY ConcatElements
<1>3. /\ \A i \in 1 .. Len(w) : i \in 1 .. Len(wv) /\ wv[i] = w[i]
      /\ \A i \in 1 .. Len(v) : Len(w) + i \in 1 .. Len(wv) /\ wv[Len(w) + i] = v[i]
      /\ \A q \in 1 .. Len(wv) : q \in 1 .. Len(w) \/ \E i \in 1 .. Len(v) : q = Len(w) + i
      /\ Len(w) \in Nat
  BY ConcatElements
<1> HIDE DEF kv, wv
<1>4. ASSUME NEW i \in 1 .. Len(wv)
      PROVE  \E p \in 1 .. Len(kv) :
               kv[p] = wv[i] /\ \A q \in 1 .. p - 1 : \E j \in 1 .. i - 1 : kv[q] = wv[j]
  <2>1. CASE i \in 1 .. Len(w)
    <3>1. PICK p \in 1 .. Len(k) : k[p] = w[i] /\ \A q \in 1 .. p - 1 : \E j \in 1 .. i - 1 : k[q] = w[j]
      BY <1>1, <2>1
    <3>2. ASSUME NEW q \in 1 .. p - 1 PROVE \E j \in 1 .. i - 1 : kv[q] = wv[j]
      <4>1. PICK j \in 1 .. i - 1 : k[q] = w[j]
        BY <3>1
      <4>2. q \in 1 .. Len(k) /\ j \in 1 .. Len(w)
        BY <1>2, <1>3, <2>1
      <4> QED
        BY <1>2, <1>3, <4>1, <4>2
    <3>3. p \in 1 .. Len(kv) /\ kv[p] = wv[i]
      BY <1>2, <1>3, <2>1, <3>1
    <3> QED
      BY <3>2, <3>3
  <2>2. CASE i \notin 1 .. Len(w)
    <3>1. PICK m \in 1 .. Len(v) : i = Len(w) + m
      BY <1>3, <2>2
    <3> DEFINE p == Len(k) + m
    <3>2. p \in 1 .. Len(kv) /\ kv[p] = wv[i]
      BY <1>2, <1>3, <3>1
    <3>3. ASSUME NEW q \in 1 .. p - 1 PROVE \E j \in 1 .. i - 1 : kv[q] = wv[j]
      <4>1. CASE q \in 1 .. Len(k)
        <5>1. PICK j \in 1 .. Len(w) : k[q] = w[j]
          BY <1>1, <4>1
        <5>2. j \in 1 .. i - 1
          BY <1>3, <3>1
        <5> QED
          BY <1>2, <1>3, <4>1, <5>1, <5>2
      <4>2. CASE q \notin 1 .. Len(k)
        <5>1. q - Len(k) \in 1 .. Len(v) /\ q = Len(k) + (q - Len(k)) /\ q - Len(k) < m
          BY <1>2, <4>2
        <5> DEFINE n == q - Len(k)
        <5> HIDE DEF n
        <5>2. n \in 1 .. Len(v) /\ q = Len(k) + n /\ n < m
          BY <5>1 DEF n
        <5>3. kv[q] = wv[Len(w) + n] /\ Len(w) + n \in 1 .. i - 1
          BY <1>2, <1>3, <3>1, <5>2
        <5> QED
          BY <5>3
      <4> QED
        BY <4>1, <4>2
    <3> HIDE DEF p
    <3> QED
      BY <3>2, <3>3
  <2> QED
    BY <2>1, <2>2
<1>5. ASSUME NEW q \in 1 .. Len(kv) PROVE \E j \in 1 .. Len(wv) : kv[q] = wv[j]
  <2>1. CASE q \in 1 .. Len(k)
    BY <1>1, <1>2, <1>3, <2>1
  <2>2. CASE q \notin 1 .. Len(k)
    <3>1. PICK i \in 1 .. Len(v) : q = Len(k) + i
      BY <1>2, <2>2
    <3>2. kv[q] = v[i] /\ wv[Len(w) + i] = v[i] /\ Len(w) + i \in 1 .. Len(wv)
      BY <1>2, <1>3, <3>1
    <3> QED
      BY <3>2
  <2> QED
    BY <2>1, <2>2
<1> QED
  BY <1>4, <1>5 DEF Keeps, kv, wv

LEMMA KeepsAgain ==
  ASSUME NEW c \in Sentences, NEW t \in Sentences, NEW b \in Sentences, NEW w \in Sentences,
         Keeps(c \o b, w), Among(t, c)
  PROVE  Keeps(c \o (t \o b), w)
<1> DEFINE cb == c \o b
           tb == t \o b
           ctb == c \o tb
<1>0. tb \in Sentences /\ Len(tb) = Len(t) + Len(b)
  BY SentenceFacts
<1>1. /\ \A i \in 1 .. Len(w) : \E p \in 1 .. Len(cb) :
           cb[p] = w[i] /\ \A q \in 1 .. p - 1 : \E j \in 1 .. i - 1 : cb[q] = w[j]
      /\ \A q \in 1 .. Len(cb) : \E j \in 1 .. Len(w) : cb[q] = w[j]
      /\ \A i \in 1 .. Len(t) : \E j \in 1 .. Len(c) : t[i] = c[j]
  BY DEF Keeps, Among
<1>2. /\ \A i \in 1 .. Len(c) : i \in 1 .. Len(cb) /\ cb[i] = c[i]
      /\ \A i \in 1 .. Len(b) : Len(c) + i \in 1 .. Len(cb) /\ cb[Len(c) + i] = b[i]
      /\ \A q \in 1 .. Len(cb) : q \in 1 .. Len(c) \/ \E i \in 1 .. Len(b) : q = Len(c) + i
      /\ Len(c) \in Nat /\ Len(b) \in Nat
  BY ConcatElements
<1>3. /\ \A i \in 1 .. Len(t) : i \in 1 .. Len(tb) /\ tb[i] = t[i]
      /\ \A i \in 1 .. Len(b) : Len(t) + i \in 1 .. Len(tb) /\ tb[Len(t) + i] = b[i]
      /\ \A q \in 1 .. Len(tb) : q \in 1 .. Len(t) \/ \E i \in 1 .. Len(b) : q = Len(t) + i
      /\ Len(t) \in Nat
  BY ConcatElements
<1> HIDE DEF tb
<1>4. /\ \A i \in 1 .. Len(c) : i \in 1 .. Len(ctb) /\ ctb[i] = c[i]
      /\ \A i \in 1 .. Len(tb) : Len(c) + i \in 1 .. Len(ctb) /\ ctb[Len(c) + i] = tb[i]
      /\ \A q \in 1 .. Len(ctb) : q \in 1 .. Len(c) \/ \E i \in 1 .. Len(tb) : q = Len(c) + i
  BY <1>0, ConcatElements
<1> HIDE DEF cb, ctb
<1>5. ASSUME NEW q \in 1 .. Len(ctb), q \notin 1 .. Len(c)
      PROVE  \/ \E i \in 1 .. Len(t) : q = Len(c) + i /\ ctb[q] = t[i]
             \/ \E i \in 1 .. Len(b) : q = Len(c) + (Len(t) + i) /\ ctb[q] = b[i]
  <2>1. PICK i \in 1 .. Len(tb) : q = Len(c) + i /\ ctb[q] = tb[i]
    BY <1>4, <1>5
  <2>2. CASE i \in 1 .. Len(t)
    BY <1>3, <2>1, <2>2
  <2>3. CASE i \notin 1 .. Len(t)
    <3>1. PICK n \in 1 .. Len(b) : i = Len(t) + n
      BY <1>3, <2>3
    <3> QED
      BY <1>3, <2>1, <3>1
  <2> QED
    BY <2>2, <2>3
<1>6. ASSUME NEW i \in 1 .. Len(w)
      PROVE  \E p \in 1 .. Len(ctb) :
               ctb[p] = w[i] /\ \A q \in 1 .. p - 1 : \E j \in 1 .. i - 1 : ctb[q] = w[j]
  <2>1. PICK p \in 1 .. Len(cb) : cb[p] = w[i] /\ \A q \in 1 .. p - 1 : \E j \in 1 .. i - 1 : cb[q] = w[j]
    BY <1>1
  <2>2. CASE p \in 1 .. Len(c)
    <3>1. p \in 1 .. Len(ctb) /\ ctb[p] = w[i]
      BY <1>2, <1>4, <2>1, <2>2
    <3>2. \A q \in 1 .. p - 1 : q \in 1 .. Len(c) /\ ctb[q] = cb[q]
      BY <1>2, <1>4, <2>2
    <3> QED
      BY <2>1, <3>1, <3>2
  <2>3. CASE p \notin 1 .. Len(c)
    <3>1. PICK m \in 1 .. Len(b) : p = Len(c) + m
      BY <1>2, <2>3
    <3> DEFINE r == Len(c) + (Len(t) + m)
    <3>2. r \in 1 .. Len(ctb) /\ ctb[r] = w[i]
      <4>1. Len(t) + m \in 1 .. Len(tb) /\ tb[Len(t) + m] = b[m] /\ cb[p] = b[m]
        BY <1>2, <1>3, <3>1
      <4> QED
        BY <1>4, <2>1, <4>1
    <3>3. ASSUME NEW q \in 1 .. r - 1 PROVE \E j \in 1 .. i - 1 : ctb[q] = w[j]
      <4>1. \A x \in 1 .. Len(c) : \E j \in 1 .. i - 1 : c[x] = w[j]
        <5>1. \A x \in 1 .. Len(c) : x \in 1 .. p - 1 /\ cb[x] = c[x]
          BY <1>2, <3>1
        <5> QED
          BY <2>1, <5>1
      <4>2. CASE q \in 1 .. Len(c)
        BY <1>4, <4>1, <4>2
      <4>3. CASE q \notin 1 .. Len(c)
        <5>1. q \in 1 .. Len(ctb)
          BY <3>2
        <5>2. CASE \E x \in 1 .. Len(t) : q = Len(c) + x /\ ctb[q] = t[x]
          <6>1. PICK x \in 1 .. Len(t) : ctb[q] = t[x]
            BY <5>2
          <6>2. PICK y \in 1 .. Len(c) : t[x] = c[y]
            BY <1>1
          <6> QED
            BY <4>1, <6>1, <6>2
        <5>3. CASE \E x \in 1 .. Len(b) : q = Len(c) + (Len(t) + x) /\ ctb[q] = b[x]
          <6>1. PICK x \in 1 .. Len(b) : q = Len(c) + (Len(t) + x) /\ ctb[q] = b[x]
            BY <5>3
          <6>2. x < m /\ Len(c) + x \in 1 .. p - 1
            BY <1>2, <1>3, <3>1, <6>1
          <6>3. cb[Len(c) + x] = b[x]
            BY <1>2
          <6> QED
            BY <2>1, <6>1, <6>2, <6>3
        <5> QED
          BY <1>5, <4>3, <5>1, <5>2, <5>3
      <4> QED
        BY <4>2, <4>3
    <3> HIDE DEF r
    <3> QED
      BY <3>2, <3>3
  <2> QED
    BY <2>2, <2>3
<1>7. ASSUME NEW q \in 1 .. Len(ctb) PROVE \E j \in 1 .. Len(w) : ctb[q] = w[j]
  <2>1. \A x \in 1 .. Len(c) : \E j \in 1 .. Len(w) : c[x] = w[j]
    BY <1>1, <1>2
  <2>2. \A x \in 1 .. Len(b) : \E j \in 1 .. Len(w) : b[x] = w[j]
    BY <1>1, <1>2
  <2>3. CASE q \in 1 .. Len(c)
    BY <1>4, <2>1, <2>3
  <2>4. CASE q \notin 1 .. Len(c)
    <3>1. CASE \E x \in 1 .. Len(t) : q = Len(c) + x /\ ctb[q] = t[x]
      <4>1. PICK x \in 1 .. Len(t) : ctb[q] = t[x]
        BY <3>1
      <4>2. PICK y \in 1 .. Len(c) : t[x] = c[y]
        BY <1>1
      <4> QED
        BY <2>1, <4>1, <4>2
    <3>2. CASE \E x \in 1 .. Len(b) : q = Len(c) + (Len(t) + x) /\ ctb[q] = b[x]
      BY <2>2, <3>2
    <3> QED
      BY <1>5, <2>4, <3>1, <3>2
  <2> QED
    BY <2>3, <2>4
<1> QED
  BY <1>6, <1>7 DEF Keeps, ctb, tb

LEMMA AmongFacts ==
  ASSUME NEW a \in Sentences, NEW b \in Sentences, NEW c \in Sentences, Among(a, b)
  PROVE  Among(a, b \o c) /\ Among(a, c \o b)
<1>1. \A i \in 1 .. Len(b) : i \in 1 .. Len(b \o c) /\ (b \o c)[i] = b[i]
  BY ConcatElements
<1>2. \A i \in 1 .. Len(b) : Len(c) + i \in 1 .. Len(c \o b) /\ (c \o b)[Len(c) + i] = b[i]
  BY ConcatElements
<1> DEFINE bc == b \o c
           cb == c \o b
<1> HIDE DEF bc, cb
<1>3. \A i \in 1 .. Len(a) : \E j \in 1 .. Len(b) : a[i] = b[j]
  BY DEF Among
<1>4. \A i \in 1 .. Len(b) : i \in 1 .. Len(bc) /\ bc[i] = b[i]
  BY <1>1 DEF bc
<1>5. \A i \in 1 .. Len(b) : Len(c) + i \in 1 .. Len(cb) /\ cb[Len(c) + i] = b[i]
  BY <1>2 DEF cb
<1>6. Among(a, bc) /\ Among(a, cb)
  BY <1>3, <1>4, <1>5 DEF Among
<1> QED
  BY <1>6 DEF bc, cb

LEMMA LastOnes ==
  ASSUME NEW s \in Sentences, NEW m \in 1 .. Len(s) + 1
  PROVE  SubSeq(s, m, Len(s)) \in Sentences /\ Among(SubSeq(s, m, Len(s)), s)
<1> DEFINE k == Len(s) - m + 1
<1>1. Len(s) \in Nat /\ k \in Nat
  BY DEF Sentences
<1>2. SubSeq(s, m, Len(s)) \in Sentences
  BY <1>1 DEF Sentences
<1>3. Len(SubSeq(s, m, Len(s))) = k /\ \A i \in 1 .. k : SubSeq(s, m, Len(s))[i] = s[m + i - 1]
  BY <1>1 DEF Sentences
<1>4. \A i \in 1 .. k : m + i - 1 \in 1 .. Len(s)
  BY <1>1
<1> QED
  BY <1>2, <1>3, <1>4 DEF Among

LEMMA LastWordsFacts ==
  ASSUME NEW s \in Sentences, NEW n \in Nat
  PROVE  LastWords(s, n) \in Sentences /\ Among(LastWords(s, n), s)
<1> DEFINE k == IF n < Len(s) THEN n ELSE Len(s)
           m == Len(s) - k + 1
<1>1. m \in 1 .. Len(s) + 1
  <2>1. Len(s) \in Nat
    BY DEF Sentences
  <2>2. k \in Nat /\ k <= Len(s)
    BY <2>1
  <2> HIDE DEF k
  <2> QED
    BY <2>1, <2>2
<1>2. LastWords(s, n) = SubSeq(s, m, Len(s))
  BY DEF LastWords
<1> HIDE DEF m
<1> QED
  BY <1>1, <1>2, LastOnes

(* What words count as.                                                    *)
LEMMA SpanFacts ==
  ASSUME NEW s \in Sentences
  PROVE  Span(s) \in Nat /\ (s = NoWords => Span(s) = 0)
<1> DEFINE N == Len(s)
           ns == [i \in DOMAIN s |-> Chars[s[i]] + 1]
<1>1. N \in Nat /\ DOMAIN s = 1 .. N /\ \A i \in 1 .. N : s[i] \in Words
  BY DEF Sentences
<1>2. \A i \in 1 .. N : Chars[s[i]] + 1 \in Nat
  BY <1>1, KnowledgeAssumption
<1>3. ns \in Seq(Nat) /\ Len(ns) = N
  <2> DEFINE f(i) == Chars[s[i]] + 1
  <2>1. ns = [i \in 1 .. N |-> f(i)]
    BY <1>1
  <2>2. \A i \in 1 .. N : f(i) \in Nat
    BY <1>2
  <2> HIDE DEF f, ns, N
  <2> QED
    BY <1>1, <2>1, <2>2
<1> HIDE DEF ns, N
<1>4. PICK h \in [0 .. Len(ns) -> Nat] : PlusSteps(h, 0, ns)
  <2>1. \A d \in Nat, i \in 1 .. Len(ns) : Plus(d, ns[i]) \in Nat
    BY <1>3 DEF Plus
  <2> QED
    BY <1>3, <2>1, PlusFolds
<1>5. Span(s) = h[N] /\ h[0] = 0
  BY <1>3, <1>4 DEF Span, PlusSteps, ns
<1>6. s = NoWords => N = 0
  BY DEF N, NoWords
<1> QED
  BY <1>1, <1>3, <1>5, <1>6

LEMMA TokensFacts ==
  ASSUME NEW s \in Sentences
  PROVE  Tokens(s) \in Nat
<1>1. Span(s) \in Nat
  BY SpanFacts
<1> DEFINE n == Span(s)
<1> HIDE DEF n
<1>2. n \in Nat /\ (~(n < 5) => (n - 1) \div 4 \in Nat)
  BY <1>1 DEF n
<1> QED
  BY <1>2 DEF Tokens, n

LEMMA TokensOfEachFacts ==
  ASSUME NEW s \in Sentences
  PROVE  TokensOfEach(s) \in Nat
<1> DEFINE N == Len(s)
           ns == [i \in DOMAIN s |-> Tokens(<<s[i]>>)]
<1>1. N \in Nat /\ DOMAIN s = 1 .. N /\ \A i \in 1 .. N : <<s[i]>> \in Sentences
  BY DEF Sentences
<1>2. \A i \in 1 .. N : Tokens(<<s[i]>>) \in Nat
  BY <1>1, TokensFacts
<1>3. ns \in Seq(Nat) /\ Len(ns) = N
  <2> DEFINE f(i) == Tokens(<<s[i]>>)
  <2>1. ns = [i \in 1 .. N |-> f(i)]
    BY <1>1
  <2>2. \A i \in 1 .. N : f(i) \in Nat
    BY <1>2
  <2> HIDE DEF f, ns, N
  <2> QED
    BY <1>1, <2>1, <2>2
<1> HIDE DEF ns, N
<1>4. PICK h \in [0 .. Len(ns) -> Nat] : PlusSteps(h, 0, ns)
  <2>1. \A d \in Nat, i \in 1 .. Len(ns) : Plus(d, ns[i]) \in Nat
    BY <1>3 DEF Plus
  <2> QED
    BY <1>3, <2>1, PlusFolds
<1>5. TokensOfEach(s) = h[N]
  BY <1>3, <1>4 DEF TokensOfEach, PlusSteps, ns
<1> QED
  BY <1>1, <1>3, <1>5

LEMMA LastCharsFacts ==
  ASSUME NEW s \in Sentences, NEW n \in Nat
  PROVE  LastChars(s, n) \in Sentences /\ Among(LastChars(s, n), s)
<1> DEFINE N == Len(s)
           I == {i \in 1 .. N + 1 : Span(SubSeq(s, i, N)) <= n + 1}
           m == Min(I)
<1>1. N \in Nat /\ N + 1 \in 1 .. N + 1 /\ SubSeq(s, N + 1, N) = NoWords
  BY DEF Sentences, NoWords
<1>2. Span(NoWords) = 0
  BY Flattened, SpanFacts
<1>3. I \subseteq Nat /\ N + 1 \in I
  <2> HIDE DEF N
  <2>1. Span(SubSeq(s, N + 1, N)) <= n + 1
    <3>1. Span(SubSeq(s, N + 1, N)) = 0
      BY <1>1, <1>2, Zenon
    <3> QED
      BY <3>1
  <2>2. N + 1 \in I
    BY <1>1, <2>1
  <2>3. I \subseteq Nat
    BY <1>1
  <2> QED
    BY <2>2, <2>3
<1>4. m \in I
  <2> HIDE DEF I
  <2> QED
    BY <1>3, Smallest
<1>5. LastChars(s, n) = SubSeq(s, m, N)
  BY DEF LastChars
<1>6. m \in 1 .. N + 1
  BY <1>4
<1> HIDE DEF m, I
<1> QED
  BY <1>5, <1>6, LastOnes

-------------------------------------------------------------------------------
(* A cut in progress, whatever its parts are.  Words are clear of whole    *)
(* blocks if they are none of theirs, and chunks are apart if each is      *)
(* clear of them or is one.                                                *)
Cutting(P) == [chunks : Pieces, parts : P, tokens : Nat]
Clear(s, whole) == \A i \in 1 .. Len(s) : \A x \in whole : \A j \in 1 .. Len(x) : s[i] # x[j]
Apart(chunks, whole) == \A i \in 1 .. Len(chunks) : Clear(chunks[i], whole) \/ chunks[i] \in whole

LEMMA Sizes == ChunkSize \in Nat /\ Overlap \in Nat /\ 4 * Overlap \in Nat
BY KnowledgeAssumption

LEMMA ClearNone == ASSUME NEW whole PROVE Clear(NoWords, whole) /\ Apart(NoWords, whole)
BY Flattened DEF Clear, Apart

LEMMA ClearBoth ==
  ASSUME NEW a \in Sentences, NEW b \in Sentences, NEW whole, Clear(a, whole), Clear(b, whole)
  PROVE  Clear(a \o b, whole)
<1> DEFINE ab == a \o b
<1>1. /\ \A i \in 1 .. Len(a) : i \in 1 .. Len(ab) /\ ab[i] = a[i]
      /\ \A i \in 1 .. Len(b) : Len(a) + i \in 1 .. Len(ab) /\ ab[Len(a) + i] = b[i]
      /\ \A q \in 1 .. Len(ab) : q \in 1 .. Len(a) \/ \E i \in 1 .. Len(b) : q = Len(a) + i
  BY ConcatElements
<1> HIDE DEF ab
<1>2. ASSUME NEW q \in 1 .. Len(ab), NEW x \in whole, NEW j \in 1 .. Len(x) PROVE ab[q] # x[j]
  <2>1. CASE q \in 1 .. Len(a)
    BY <1>1, <2>1 DEF Clear
  <2>2. CASE q \notin 1 .. Len(a)
    <3>1. PICK i \in 1 .. Len(b) : q = Len(a) + i
      BY <1>1, <2>2
    <3> QED
      BY <1>1, <3>1 DEF Clear
  <2> QED
    BY <2>1, <2>2
<1> QED
  BY <1>2 DEF Clear, ab

LEMMA ClearAmong ==
  ASSUME NEW a, NEW b, NEW whole, Among(a, b), Clear(b, whole)
  PROVE  Clear(a, whole)
BY DEF Among, Clear

LEMMA ApartMore ==
  ASSUME NEW chunks \in Pieces, NEW whole, Apart(chunks, whole), NEW s \in Sentences, Clear(s, whole) \/ s \in whole
  PROVE  Apart(Append(chunks, s), whole)
<1> DEFINE more == Append(chunks, s)
<1>1. /\ Len(chunks) \in Nat /\ Len(more) = Len(chunks) + 1 /\ more[Len(chunks) + 1] = s
      /\ \A i \in 1 .. Len(chunks) : more[i] = chunks[i]
  BY DEF Pieces
<1> HIDE DEF more
<1>2. ASSUME NEW i \in 1 .. Len(more) PROVE Clear(more[i], whole) \/ more[i] \in whole
  <2>1. CASE i = Len(chunks) + 1
    BY <1>1, <2>1
  <2>2. CASE i # Len(chunks) + 1
    <3>1. i \in 1 .. Len(chunks)
      BY <1>1, <2>2
    <3> QED
      BY <1>1, <3>1 DEF Apart
  <2> QED
    BY <2>1, <2>2
<1> QED
  BY <1>2 DEF Apart, more

LEMMA EmitFacts ==
  ASSUME NEW P, NEW cut \in Cutting(P), NEW parts \in Pieces, NEW whole, Apart(cut.chunks, whole),
         Clear(FlattenSeq(parts), whole) \/ FlattenSeq(parts) \in whole
  PROVE  /\ Emit(cut, parts) \in Cutting(P)
         /\ Emit(cut, parts).parts = cut.parts /\ Emit(cut, parts).tokens = cut.tokens
         /\ FlattenSeq(Emit(cut, parts).chunks) = FlattenSeq(cut.chunks) \o FlattenSeq(parts)
         /\ Apart(Emit(cut, parts).chunks, whole)
<1>1. cut = [chunks |-> cut.chunks, parts |-> cut.parts, tokens |-> cut.tokens]
      /\ cut.chunks \in Pieces /\ cut.parts \in P /\ cut.tokens \in Nat
  BY DEF Cutting
<1> DEFINE s == FlattenSeq(parts)
<1>2. s \in Sentences /\ FlattenSeq(cut.chunks) \in Sentences
  BY <1>1, Flattened
<1>3. Append(cut.chunks, s) \in Pieces /\ FlattenSeq(Append(cut.chunks, s)) = FlattenSeq(cut.chunks) \o s
  BY <1>1, <1>2, PieceFacts
<1>4. s = NoWords => FlattenSeq(cut.chunks) \o s = FlattenSeq(cut.chunks)
  BY <1>2, SentenceFacts
<1>5. Apart(Append(cut.chunks, s), whole)
  BY <1>1, <1>2, ApartMore
<1> HIDE DEF s
<1>6. CASE s = <<>>
  <2>1. Emit(cut, parts) = cut
    BY <1>6 DEF Emit, s
  <2> QED
    BY <1>4, <1>6, <2>1 DEF NoWords, s
<1>7. CASE s # <<>>
  <2>1. Emit(cut, parts) = [chunks |-> Append(cut.chunks, s), parts |-> cut.parts, tokens |-> cut.tokens]
    BY <1>1, <1>7 DEF Emit, s
  <2>2. Emit(cut, parts) \in Cutting(P)
    BY <1>1, <1>3, <2>1 DEF Cutting
  <2> QED
    BY <1>3, <1>5, <2>1, <2>2 DEF s
<1> QED
  BY <1>6, <1>7

(* The words of a cut in the order they were put, and what is known of a   *)
(* cut whose words are those of w.                                         *)
KeptWords(cut) == FlattenSeq(cut.chunks) \o FlattenSeq(cut.parts)

CutInv(cut, w, whole) ==
  /\ cut \in Cutting(Pieces)
  /\ Keeps(KeptWords(cut), w)
  /\ Apart(cut.chunks, whole)
  /\ Clear(FlattenSeq(cut.parts), whole)

LEMMA KeptFacts ==
  ASSUME NEW cut \in Cutting(Pieces)
  PROVE  /\ cut = [chunks |-> cut.chunks, parts |-> cut.parts, tokens |-> cut.tokens]
         /\ cut.chunks \in Pieces /\ cut.parts \in Pieces /\ cut.tokens \in Nat
         /\ FlattenSeq(cut.chunks) \in Sentences /\ FlattenSeq(cut.parts) \in Sentences /\ KeptWords(cut) \in Sentences
         /\ cut.parts = NoWords => KeptWords(cut) = FlattenSeq(cut.chunks)
<1>1. cut = [chunks |-> cut.chunks, parts |-> cut.parts, tokens |-> cut.tokens]
      /\ cut.chunks \in Pieces /\ cut.parts \in Pieces /\ cut.tokens \in Nat
  BY DEF Cutting
<1>2. FlattenSeq(cut.chunks) \in Sentences /\ FlattenSeq(cut.parts) \in Sentences /\ FlattenSeq(NoWords) = NoWords
  BY <1>1, Flattened
<1>3. KeptWords(cut) \in Sentences
  BY <1>2, SentenceFacts DEF KeptWords
<1>4. FlattenSeq(cut.chunks) \o NoWords = FlattenSeq(cut.chunks)
  BY <1>2, SentenceFacts
<1> QED
  BY <1>1, <1>2, <1>3, <1>4 DEF KeptWords

LEMMA Restart ==
  ASSUME NEW e, e = [chunks |-> e.chunks, parts |-> e.parts, tokens |-> e.tokens], NEW p, NEW k
  PROVE  [e EXCEPT !.parts = p, !.tokens = k] = [chunks |-> e.chunks, parts |-> p, tokens |-> k]
<1> DEFINE r == [e EXCEPT !.parts = p, !.tokens = k]
<1>1. r = [e EXCEPT !.parts = p, !.tokens = k]
  OBVIOUS
<1> HIDE DEF r
<1>2. r = [chunks |-> e.chunks, parts |-> p, tokens |-> k]
  BY <1>1
<1> QED
  BY <1>2 DEF r

(* The parts have become a chunk, and a few words of them begin the next.  *)
Flushed(next, cut, whole) ==
  /\ next \in Cutting(Pieces)
  /\ FlattenSeq(next.chunks) = KeptWords(cut)
  /\ Apart(next.chunks, whole)
  /\ Clear(FlattenSeq(next.parts), whole)
  /\ Among(FlattenSeq(next.parts), FlattenSeq(next.chunks))

LEMMA FlushFacts ==
  ASSUME NEW cut, NEW w, NEW whole, CutInv(cut, w, whole), cut.parts # NoWords,
         NEW rest \in Pieces, Among(FlattenSeq(rest), Last(cut.parts)), NEW k \in Nat
  PROVE  Flushed([Emit(cut, cut.parts) EXCEPT !.parts = rest, !.tokens = k], cut, whole)
<1> DEFINE e == Emit(cut, cut.parts)
           next == [e EXCEPT !.parts = rest, !.tokens = k]
           r == FlattenSeq(rest)
<1>1. /\ cut \in Cutting(Pieces) /\ Apart(cut.chunks, whole) /\ Clear(FlattenSeq(cut.parts), whole)
  BY DEF CutInv
<1>2. /\ cut.chunks \in Pieces /\ cut.parts \in Pieces
      /\ FlattenSeq(cut.chunks) \in Sentences /\ FlattenSeq(cut.parts) \in Sentences
  BY <1>1, KeptFacts
<1>3. r \in Sentences
  BY Flattened
<1>4. e \in Cutting(Pieces) /\ FlattenSeq(e.chunks) = KeptWords(cut) /\ Apart(e.chunks, whole)
  BY <1>1, <1>2, EmitFacts DEF KeptWords
<1>5. e = [chunks |-> e.chunks, parts |-> e.parts, tokens |-> e.tokens] /\ e.chunks \in Pieces
  BY <1>4, KeptFacts
<1>6. Last(cut.parts) \in Sentences
  BY <1>2 DEF Pieces, Last, NoWords
<1>7. Among(Last(cut.parts), FlattenSeq(cut.parts))
  <2> DEFINE n == Len(cut.parts)
             front == SubSeq(cut.parts, 1, n - 1)
  <2>1. front \in Pieces /\ cut.parts = Append(front, Last(cut.parts))
    BY <1>2 DEF Pieces, Last, NoWords
  <2> HIDE DEF front, n
  <2>2. FlattenSeq(cut.parts) = FlattenSeq(front) \o Last(cut.parts) /\ FlattenSeq(front) \in Sentences
    BY <1>6, <2>1, PieceFacts
  <2>3. Among(Last(cut.parts), Last(cut.parts))
    BY DEF Among
  <2> QED
    BY <1>6, <2>2, <2>3, AmongFacts
<1> HIDE DEF e, r
<1>8. Among(r, FlattenSeq(cut.parts))
  BY <1>7 DEF Among, r
<1>9. Among(r, KeptWords(cut))
  BY <1>2, <1>3, <1>8, AmongFacts DEF KeptWords
<1>10. Clear(r, whole)
  BY <1>1, <1>8, ClearAmong
<1>11. next = [chunks |-> e.chunks, parts |-> rest, tokens |-> k]
  BY <1>5, Restart
<1> HIDE DEF next
<1>12. next \in Cutting(Pieces)
  BY <1>5, <1>11 DEF Cutting
<1>13. Flushed(next, cut, whole)
  BY <1>4, <1>9, <1>10, <1>11, <1>12 DEF Flushed, r
<1> QED
  BY <1>13 DEF next, e

LEMMA OverflowFacts ==
  ASSUME NEW cut, NEW w, NEW whole, CutInv(cut, w, whole)
  PROVE  Flushed(Overflow(cut), cut, whole)
<1> DEFINE tail == LastWords(Last(cut.parts), Overlap)
           rest == IF tail = NoWords THEN NoWords ELSE <<tail>>
           k == IF tail = NoWords THEN 0 ELSE Tokens(tail)
<1>1. cut \in Cutting(Pieces) /\ Apart(cut.chunks, whole)
  BY DEF CutInv
<1>2. cut.parts \in Pieces /\ (cut.parts = NoWords => KeptWords(cut) = FlattenSeq(cut.chunks))
  BY <1>1, KeptFacts
<1>3. CASE cut.parts = NoWords
  <2>1. Overflow(cut) = cut
    BY <1>3 DEF Overflow, NoWords
  <2>2. Among(NoWords, FlattenSeq(cut.chunks))
    BY Flattened DEF Among
  <2> QED
    BY <1>1, <1>2, <1>3, <2>1, <2>2, Flattened, ClearNone DEF Flushed
<1>4. CASE cut.parts # NoWords
  <2>1. Last(cut.parts) \in Sentences
    BY <1>2, <1>4 DEF Pieces, Last, NoWords
  <2>2. tail \in Sentences /\ Among(tail, Last(cut.parts))
    BY <2>1, Sizes, LastWordsFacts
  <2>3. Overflow(cut) = [Emit(cut, cut.parts) EXCEPT !.parts = rest, !.tokens = k]
    BY <1>4 DEF Overflow, NoWords
  <2> HIDE DEF tail
  <2>4. rest \in Pieces /\ FlattenSeq(rest) = tail /\ k \in Nat
    <3>1. <<tail>> \in Pieces /\ FlattenSeq(<<tail>>) = tail /\ Tokens(tail) \in Nat
      BY <1>2, <2>2, PieceFacts, TokensFacts
    <3> QED
      BY <3>1, Flattened
  <2> HIDE DEF rest, k
  <2>5. Among(FlattenSeq(rest), Last(cut.parts))
    BY <2>2, <2>4
  <2>6. Flushed([Emit(cut, cut.parts) EXCEPT !.parts = rest, !.tokens = k], cut, whole)
    BY <1>4, <2>4, <2>5, FlushFacts
  <2> QED
    BY <2>3, <2>6, Zenon
<1> QED
  BY <1>3, <1>4

LEMMA OverflowSentencesFacts ==
  ASSUME NEW b, NEW w, NEW whole, CutInv(b, w, whole), b.parts # NoWords
  PROVE  Flushed(OverflowSentences(b), b, whole)
<1> DEFINE last == Last(b.parts)
           tail == LastChars(last, 4 * Overlap)
           rest == IF Overlap = 0 THEN <<>> ELSE <<tail>>
           k == IF Overlap = 0 THEN 0 ELSE Min({Tokens(last), Overlap})
<1>1. b.parts \in Pieces
  BY KeptFacts DEF CutInv
<1>2. last \in Sentences
  BY <1>1 DEF Pieces, Last, NoWords
<1> HIDE DEF last
<1>3. tail \in Sentences /\ Among(tail, last)
  BY <1>2, Sizes, LastCharsFacts
<1>4. OverflowSentences(b) = [Emit(b, b.parts) EXCEPT !.parts = rest, !.tokens = k]
  BY DEF OverflowSentences, last
<1> HIDE DEF tail
<1>5. Min({Tokens(last), Overlap}) \in Nat
  <2> DEFINE S == {Tokens(last), Overlap}
  <2>1. S \subseteq Nat /\ S # {}
    BY <1>2, Sizes, TokensFacts
  <2> HIDE DEF S
  <2>2. Min(S) \in Nat
    BY <2>1, Smallest
  <2> QED
    BY <2>2 DEF S
<1>6. rest \in Pieces /\ Among(FlattenSeq(rest), last) /\ k \in Nat
  <2>1. <<tail>> \in Pieces /\ FlattenSeq(<<tail>>) = tail
    BY <1>1, <1>3, PieceFacts
  <2>2. NoWords \in Pieces /\ FlattenSeq(NoWords) = NoWords /\ Among(NoWords, last)
    BY Flattened DEF Among
  <2> QED
    BY <1>3, <1>5, <2>1, <2>2 DEF NoWords
<1> HIDE DEF rest, k
<1>7. Flushed([Emit(b, b.parts) EXCEPT !.parts = rest, !.tokens = k], b, whole)
  BY <1>6, FlushFacts DEF last
<1> QED
  BY <1>4, <1>7, Zenon

(* A long sentence, cut between its words.                                 *)
WordInv(acc, v, whole, t) ==
  /\ acc \in Cutting(Sentences)
  /\ Keeps(FlattenSeq(acc.chunks) \o acc.parts, v)
  /\ Apart(acc.chunks, whole)
  /\ Clear(acc.parts, whole)
  /\ Among(t, FlattenSeq(acc.chunks))

LEMMA WordFacts ==
  ASSUME NEW acc \in Cutting(Sentences)
  PROVE  /\ acc = [chunks |-> acc.chunks, parts |-> acc.parts, tokens |-> acc.tokens]
         /\ acc.chunks \in Pieces /\ acc.parts \in Sentences /\ acc.tokens \in Nat
         /\ FlattenSeq(acc.chunks) \in Sentences /\ FlattenSeq(acc.chunks) \o acc.parts \in Sentences
<1>1. acc = [chunks |-> acc.chunks, parts |-> acc.parts, tokens |-> acc.tokens]
      /\ acc.chunks \in Pieces /\ acc.parts \in Sentences /\ acc.tokens \in Nat
  BY DEF Cutting
<1>2. FlattenSeq(acc.chunks) \in Sentences
  BY <1>1, Flattened
<1> QED
  BY <1>1, <1>2, SentenceFacts

LEMMA WordAppended ==
  ASSUME NEW s \in Sentences, NEW w \in Words
  PROVE  /\ <<w>> \in Sentences /\ Len(<<w>>) = 1
         /\ Append(s, w) = s \o <<w>> /\ Append(s, w) \in Sentences /\ Len(Append(s, w)) = Len(s) + 1
<1>1. <<w>> \in Sentences /\ Len(<<w>>) = 1 /\ Append(s, w) \in Sentences /\ Len(Append(s, w)) = Len(s) + 1
  BY DEF Sentences
<1>2. Append(s, w) = s \o <<w>>
  BY AppendIsConcat DEF Sentences
<1> QED
  BY <1>1, <1>2

LEMMA CutWordStep ==
  ASSUME NEW acc, NEW v \in Sentences, NEW whole, NEW t \in Sentences, WordInv(acc, v, whole, t), NEW w \in Words,
         Clear(<<w>>, whole)
  PROVE  WordInv(CutWord(acc, w), v \o <<w>>, whole, t)
<1> DEFINE c == FlattenSeq(acc.chunks)
           p == acc.parts
           o == <<w>>
           n == Tokens(o)
<1>1. acc \in Cutting(Sentences) /\ Keeps(c \o p, v) /\ Apart(acc.chunks, whole) /\ Clear(p, whole) /\ Among(t, c)
  BY DEF WordInv
<1>2. /\ acc = [chunks |-> acc.chunks, parts |-> p, tokens |-> acc.tokens]
      /\ acc.chunks \in Pieces /\ p \in Sentences /\ acc.tokens \in Nat
      /\ c \in Sentences /\ c \o p \in Sentences
  BY <1>1, WordFacts
<1>3. o \in Sentences /\ n \in Nat
  BY <1>2, WordAppended, TokensFacts
<1>4. Keeps((c \o p) \o o, v \o o)
  <2> HIDE DEF c, p, o
  <2> QED
    BY <1>1, <1>2, <1>3, KeepsMore
<1>5. CASE acc.tokens + n > ChunkSize /\ p # <<>>
  <2> DEFINE tail == LastWords(p, Overlap)
             e == Emit(acc, <<p>>)
             next == Append(tail, w)
             k == TokensOfEach(tail) + n
  <2>1. tail \in Sentences /\ Among(tail, p)
    BY <1>2, Sizes, LastWordsFacts
  <2>2. <<p>> \in Pieces /\ FlattenSeq(<<p>>) = p
    BY <1>2, PieceFacts
  <2>3. e \in Cutting(Sentences) /\ FlattenSeq(e.chunks) = c \o p /\ Apart(e.chunks, whole)
    BY <1>1, <2>2, EmitFacts
  <2>4. e = [chunks |-> e.chunks, parts |-> e.parts, tokens |-> e.tokens] /\ e.chunks \in Pieces
    BY <2>3, WordFacts
  <2> HIDE DEF tail, n
  <2>5. next = tail \o o /\ next \in Sentences
    BY <2>1, WordAppended
  <2>6. k \in Nat
    BY <1>3, <2>1, TokensOfEachFacts
  <2>7. CutWord(acc, w) = [chunks |-> e.chunks, parts |-> next, tokens |-> k]
    <3>1. CutWord(acc, w) = [e EXCEPT !.parts = next, !.tokens = k]
      BY <1>5 DEF CutWord, tail, n
    <3> HIDE DEF e, next, k
    <3> QED
      BY <2>4, <3>1
  <2> HIDE DEF e, next, k, c, p, o
  <2>8. Among(tail, c \o p) /\ Among(t, c \o p)
    BY <1>1, <1>2, <2>1, AmongFacts
  <2>9. Keeps((c \o p) \o (tail \o o), v \o o)
    <3>1. v \o o \in Sentences
      BY <1>3, SentenceFacts
    <3> QED
      BY <1>2, <1>3, <1>4, <2>1, <2>8, <3>1, KeepsAgain
  <2>10. Clear(tail \o o, whole)
    <3>1. Clear(tail, whole) /\ Clear(o, whole)
      BY <1>1, <2>1, ClearAmong DEF o
    <3> QED
      BY <1>3, <2>1, <3>1, ClearBoth
  <2>11. CutWord(acc, w) \in Cutting(Sentences)
    BY <2>4, <2>5, <2>6, <2>7 DEF Cutting
  <2>12. WordInv(CutWord(acc, w), v \o o, whole, t)
    <3> DEFINE r == CutWord(acc, w)
    <3>1. r.chunks = e.chunks /\ r.parts = tail \o o
      BY <2>5, <2>7
    <3> HIDE DEF r
    <3>2. Keeps(FlattenSeq(r.chunks) \o r.parts, v \o o)
      BY <2>3, <2>9, <3>1
    <3>3. Apart(r.chunks, whole) /\ Clear(r.parts, whole) /\ Among(t, FlattenSeq(r.chunks))
      BY <2>3, <2>8, <2>10, <3>1
    <3>4. WordInv(r, v \o o, whole, t)
      BY <2>11, <3>2, <3>3 DEF WordInv, r
    <3> QED
      BY <3>4 DEF r
  <2> QED
    BY <2>12 DEF o
<1>6. CASE ~(acc.tokens + n > ChunkSize /\ p # <<>>)
  <2> DEFINE next == Append(p, w)
             k == acc.tokens + n
  <2> HIDE DEF n
  <2>1. next = p \o o /\ next \in Sentences
    <3> HIDE DEF p
    <3> QED
      BY <1>2, WordAppended
  <2>2. k \in Nat
    BY <1>2, <1>3
  <2>3. CutWord(acc, w) = [chunks |-> acc.chunks, parts |-> next, tokens |-> k]
    <3>1. CutWord(acc, w) = [acc EXCEPT !.parts = next, !.tokens = k]
      BY <1>6 DEF CutWord, n
    <3> HIDE DEF next, k
    <3> QED
      BY <1>2, <3>1
  <2> HIDE DEF next, k, c, p, o
  <2>4. (c \o p) \o o = c \o (p \o o)
    BY <1>2, <1>3, Joined
  <2>5. Clear(p \o o, whole)
    <3>1. Clear(o, whole)
      BY DEF o
    <3> QED
      BY <1>1, <1>2, <1>3, <3>1, ClearBoth
  <2>6. CutWord(acc, w) \in Cutting(Sentences)
    BY <1>2, <2>1, <2>2, <2>3 DEF Cutting
  <2>7. WordInv(CutWord(acc, w), v \o o, whole, t)
    BY <1>1, <1>2, <1>4, <2>1, <2>3, <2>4, <2>5, <2>6 DEF WordInv, c
  <2> QED
    BY <2>7 DEF o
<1> QED
  BY <1>5, <1>6

FirstWords(s, n) == SubSeq(s, 1, n)

LEMMA FirstWordsFacts ==
  ASSUME NEW s \in Sentences
  PROVE  /\ Len(s) \in Nat /\ FirstWords(s, 0) = NoWords /\ FirstWords(s, Len(s)) = s
         /\ \A n \in 0 .. Len(s) : FirstWords(s, n) \in Sentences
         /\ \A n \in 1 .. Len(s) : s[n] \in Words /\ FirstWords(s, n) = FirstWords(s, n - 1) \o <<s[n]>>
<1>1. /\ Len(s) \in Nat /\ FirstWords(s, 0) = NoWords /\ FirstWords(s, Len(s)) = s
      /\ \A n \in 0 .. Len(s) : FirstWords(s, n) \in Sentences
  BY DEF Sentences, NoWords, FirstWords
<1>2. ASSUME NEW n \in 1 .. Len(s)
      PROVE  s[n] \in Words /\ FirstWords(s, n) = FirstWords(s, n - 1) \o <<s[n]>>
  <2> DEFINE a == SubSeq(s, 1, n)
             b == SubSeq(s, 1, n - 1)
             o == <<s[n]>>
  <2>1. s[n] \in Words
    BY DEF Sentences
  <2>2. a \in Sentences /\ Len(a) = n /\ \A i \in 1 .. n : a[i] = s[i]
    BY DEF Sentences
  <2>3. b \in Sentences /\ Len(b) = n - 1 /\ \A i \in 1 .. n - 1 : b[i] = s[i]
    BY DEF Sentences
  <2>4. o \in Sentences /\ Len(o) = 1 /\ o[1] = s[n]
    BY <2>1 DEF Sentences
  <2> HIDE DEF a, b, o
  <2>5. b \o o \in Sentences /\ Len(b \o o) = Len(b) + Len(o)
    BY <2>3, <2>4, SentenceFacts
  <2>6. /\ \A i \in 1 .. Len(b) : (b \o o)[i] = b[i]
        /\ \A i \in 1 .. Len(o) : (b \o o)[Len(b) + i] = o[i]
    BY <2>3, <2>4, ConcatElements
  <2> DEFINE bo == b \o o
  <2> HIDE DEF bo
  <2>7. bo \in Sentences /\ Len(bo) = n /\ \A i \in 1 .. n : bo[i] = a[i]
    <3>1. /\ bo \in Sentences /\ Len(bo) = n
          /\ \A i \in 1 .. n - 1 : bo[i] = b[i]
          /\ bo[(n - 1) + 1] = o[1]
      BY <2>3, <2>4, <2>5, <2>6 DEF bo
    <3>2. bo[n] = s[n]
      BY <2>4, <3>1
    <3> QED
      BY <2>2, <2>3, <3>1, <3>2
  <2>8. a = bo
    BY <2>2, <2>7, SeqEqual DEF Sentences
  <2> QED
    BY <2>1, <2>8 DEF a, b, o, bo, FirstWords
<1> QED
  BY <1>1, <1>2

(* A cut of the sentences of a block, behind the overlap t.                *)
BlockInv(b, v, whole, t) == CutInv(b, v, whole) /\ Among(t, FlattenSeq(b.chunks))

LEMMA CutWordsStep ==
  ASSUME NEW b, NEW v \in Sentences, NEW whole, NEW t \in Sentences, BlockInv(b, v, whole, t), NEW s \in Sentences,
         Clear(s, whole)
  PROVE  BlockInv(CutWords(b, s), v \o s, whole, t)
<1> DEFINE D == {acc \in Cutting(Sentences) : \E u \in Sentences : WordInv(acc, u, whole, t)}
           e == Emit(b, b.parts)
           base == [e EXCEPT !.parts = <<>>, !.tokens = 0]
           put(n) == v \o FirstWords(s, n)
<1>1. /\ b \in Cutting(Pieces) /\ Apart(b.chunks, whole) /\ Keeps(KeptWords(b), v)
      /\ Clear(FlattenSeq(b.parts), whole)
      /\ Among(t, FlattenSeq(b.chunks))
  BY DEF CutInv, BlockInv
<1>2. /\ b.chunks \in Pieces /\ b.parts \in Pieces /\ b.tokens \in Nat /\ KeptWords(b) \in Sentences
      /\ FlattenSeq(b.chunks) \in Sentences /\ FlattenSeq(b.parts) \in Sentences
  BY <1>1, KeptFacts
<1>3. \A i \in 1 .. Len(s) : Clear(<<s[i]>>, whole)
  BY DEF Clear
<1>4. e \in Cutting(Pieces) /\ FlattenSeq(e.chunks) = KeptWords(b) /\ Apart(e.chunks, whole)
  BY <1>1, <1>2, EmitFacts DEF KeptWords
<1>5. e = [chunks |-> e.chunks, parts |-> e.parts, tokens |-> e.tokens] /\ e.chunks \in Pieces
  BY <1>4, KeptFacts
<1>6. base = [chunks |-> e.chunks, parts |-> NoWords, tokens |-> 0]
  <2>1. base = [e EXCEPT !.parts = NoWords, !.tokens = 0]
    BY DEF NoWords
  <2> HIDE DEF e, base
  <2> QED
    BY <1>5, <2>1
<1> HIDE DEF base, e
<1>7. WordInv(base, v, whole, t)
  <2>1. base \in Cutting(Sentences)
    BY <1>5, <1>6, Flattened DEF Cutting
  <2>2. FlattenSeq(base.chunks) \o base.parts = KeptWords(b)
    BY <1>2, <1>4, <1>6, SentenceFacts
  <2>3. Among(t, KeptWords(b))
    BY <1>1, <1>2, AmongFacts DEF KeptWords
  <2>4. Clear(base.parts, whole)
    BY <1>6, ClearNone
  <2> QED
    BY <1>1, <1>4, <1>6, <2>1, <2>2, <2>3, <2>4 DEF WordInv
<1>8. /\ Len(s) \in Nat /\ FirstWords(s, 0) = NoWords /\ FirstWords(s, Len(s)) = s
      /\ \A n \in 0 .. Len(s) : FirstWords(s, n) \in Sentences
      /\ \A n \in 1 .. Len(s) : s[n] \in Words /\ FirstWords(s, n) = FirstWords(s, n - 1) \o <<s[n]>>
  BY FirstWordsFacts
<1>9. \A n \in 0 .. Len(s) : put(n) \in Sentences
  BY <1>8, SentenceFacts
<1>10. \A n \in 1 .. Len(s) : put(n) = put(n - 1) \o <<s[n]>>
  <2> SUFFICES ASSUME NEW n \in 1 .. Len(s) PROVE put(n) = put(n - 1) \o <<s[n]>>
    OBVIOUS
  <2> DEFINE p == FirstWords(s, n - 1)
             o == <<s[n]>>
  <2>1. p \in Sentences /\ o \in Sentences
    <3>1. n - 1 \in 0 .. Len(s)
      BY <1>8
    <3> QED
      BY <1>8, <3>1, WordAppended
  <2>2. FirstWords(s, n) = p \o o
    BY <1>8
  <2> HIDE DEF p, o
  <2>3. v \o (p \o o) = (v \o p) \o o
    BY <2>1, Joined
  <2> QED
    BY <2>2, <2>3 DEF p, o
<1>11. put(0) = v /\ put(Len(s)) = v \o s
  BY <1>8, SentenceFacts
<1> HIDE DEF put
<1>12. \A d \in D, i \in 1 .. Len(s) : CutWord(d, s[i]) \in D
  <2> SUFFICES ASSUME NEW d \in D, NEW i \in 1 .. Len(s) PROVE CutWord(d, s[i]) \in D
    OBVIOUS
  <2>1. PICK u \in Sentences : WordInv(d, u, whole, t)
    OBVIOUS
  <2> DEFINE u2 == u \o <<s[i]>>
             next == CutWord(d, s[i])
  <2>2. s[i] \in Words
    BY <1>8
  <2>3. WordInv(next, u2, whole, t)
    BY <1>3, <2>1, <2>2, CutWordStep
  <2>4. u2 \in Sentences
    BY <2>2, WordAppended
  <2>5. next \in Cutting(Sentences)
    BY <2>3 DEF WordInv
  <2> HIDE DEF u2, next
  <2>6. next \in D
    BY <2>3, <2>4, <2>5
  <2> QED
    BY <2>6 DEF next
<1>13. base \in D
  BY <1>7 DEF WordInv
<1> HIDE DEF D
<1>14. PICK h \in [0 .. Len(s) -> D] : CutWordSteps(h, base, s)
  BY <1>12, <1>13, CutWordFolds DEF Sentences
<1>15. /\ h[0] = base
       /\ \A n \in 1 .. Len(s) : h[n] = CutWord(h[n - 1], s[n])
       /\ h[Len(s)] = FoldLeft(CutWord, base, s)
  BY <1>14 DEF CutWordSteps
<1> DEFINE S == {n \in 0 .. Len(s) : WordInv(h[n], put(n), whole, t)}
<1>16. 0 \in S
  BY <1>7, <1>8, <1>11, <1>15
<1>17. ASSUME NEW n \in 1 .. Len(s), n - 1 \in S PROVE n \in S
  <2>1. n - 1 \in 0 .. Len(s) /\ n \in 0 .. Len(s) /\ WordInv(h[n - 1], put(n - 1), whole, t)
    BY <1>8, <1>17
  <2>2. WordInv(CutWord(h[n - 1], s[n]), put(n - 1) \o <<s[n]>>, whole, t)
    BY <1>3, <1>8, <1>9, <2>1, CutWordStep
  <2> QED
    BY <1>10, <1>15, <2>1, <2>2
<1>18. \A n \in 0 .. Len(s) : n \in S
  <2> HIDE DEF S
  <2> QED
    BY <1>8, <1>16, <1>17, UpTo
<1> DEFINE acc == FoldLeft(CutWord, base, s)
<1>19. WordInv(acc, v \o s, whole, t)
  <2>1. Len(s) \in 0 .. Len(s)
    BY <1>8
  <2>2. WordInv(h[Len(s)], put(Len(s)), whole, t)
    BY <1>18, <2>1
  <2> QED
    BY <1>11, <1>15, <2>2
<1>20. CutWords(b, s) = [acc EXCEPT !.parts = <<acc.parts>>]
  BY DEF CutWords, base, e
<1> HIDE DEF acc
<1>21. /\ acc \in Cutting(Sentences) /\ Keeps(FlattenSeq(acc.chunks) \o acc.parts, v \o s)
       /\ Apart(acc.chunks, whole) /\ Clear(acc.parts, whole)
       /\ Among(t, FlattenSeq(acc.chunks))
  BY <1>19 DEF WordInv
<1>22. /\ acc = [chunks |-> acc.chunks, parts |-> acc.parts, tokens |-> acc.tokens]
       /\ acc.chunks \in Pieces /\ acc.parts \in Sentences /\ acc.tokens \in Nat
  BY <1>21, WordFacts
<1>23. <<acc.parts>> \in Pieces /\ FlattenSeq(<<acc.parts>>) = acc.parts /\ <<acc.parts>> # NoWords
  BY <1>22, PieceFacts
<1> DEFINE r == [chunks |-> acc.chunks, parts |-> <<acc.parts>>, tokens |-> acc.tokens]
<1>24. CutWords(b, s) = r
  BY <1>20, <1>22
<1>25. r \in Cutting(Pieces)
  BY <1>22, <1>23 DEF Cutting
<1>26. KeptWords(r) = FlattenSeq(acc.chunks) \o acc.parts
  BY <1>23 DEF KeptWords
<1>27. CutInv(r, v \o s, whole)
  BY <1>21, <1>23, <1>25, <1>26 DEF CutInv
<1> QED
  BY <1>21, <1>24, <1>27 DEF BlockInv

(* A part more, behind the parts or behind the overlap.                    *)
AddPart(cut, s, k) == [cut EXCEPT !.parts = Append(@, s), !.tokens = @ + k]

LEMMA PartFacts ==
  ASSUME NEW cut \in Cutting(Pieces), NEW s \in Sentences, NEW k \in Nat
  PROVE  LET r == AddPart(cut, s, k) IN
           /\ r \in Cutting(Pieces) /\ r.chunks = cut.chunks /\ r.tokens = cut.tokens + k /\ r.parts # NoWords
           /\ FlattenSeq(r.parts) = FlattenSeq(cut.parts) \o s
           /\ KeptWords(r) = KeptWords(cut) \o s
           /\ KeptWords(r) = FlattenSeq(cut.chunks) \o (FlattenSeq(cut.parts) \o s)
<1> DEFINE c == FlattenSeq(cut.chunks)
           p == FlattenSeq(cut.parts)
           more == Append(cut.parts, s)
           r == [chunks |-> cut.chunks, parts |-> more, tokens |-> cut.tokens + k]
<1>1. /\ cut = [chunks |-> cut.chunks, parts |-> cut.parts, tokens |-> cut.tokens]
      /\ cut.chunks \in Pieces /\ cut.parts \in Pieces /\ cut.tokens \in Nat
      /\ c \in Sentences /\ p \in Sentences
  BY KeptFacts
<1>2. more \in Pieces /\ FlattenSeq(more) = p \o s /\ more # NoWords
  BY <1>1, PieceFacts
<1> HIDE DEF more
<1>3. r \in Cutting(Pieces)
  BY <1>1, <1>2 DEF Cutting
<1>4. AddPart(cut, s, k) = r
  <2>1. AddPart(cut, s, k) = [cut EXCEPT !.parts = more, !.tokens = cut.tokens + k]
    BY DEF AddPart, more
  <2> QED
    BY <1>1, <2>1
<1>5. KeptWords(r) = c \o (p \o s)
  BY <1>2 DEF KeptWords
<1> HIDE DEF c, p
<1>6. (c \o p) \o s = c \o (p \o s)
  BY <1>1, Joined
<1>7. /\ r \in Cutting(Pieces) /\ r.chunks = cut.chunks /\ r.tokens = cut.tokens + k /\ r.parts # NoWords
      /\ FlattenSeq(r.parts) = p \o s
  BY <1>2, <1>3
<1>8. KeptWords(cut) = c \o p
  BY DEF KeptWords, c, p
<1> HIDE DEF r
<1>9. KeptWords(r) = KeptWords(cut) \o s
  BY <1>5, <1>6, <1>8
<1> QED
  BY <1>4, <1>5, <1>7, <1>9 DEF c, p

LEMMA PartFits ==
  ASSUME NEW cut, NEW w \in Sentences, NEW whole, CutInv(cut, w, whole),
         NEW s \in Sentences, NEW k \in Nat, Clear(s, whole)
  PROVE  CutInv(AddPart(cut, s, k), w \o s, whole)
<1> DEFINE r == AddPart(cut, s, k)
<1>1. /\ cut \in Cutting(Pieces) /\ Keeps(KeptWords(cut), w) /\ Apart(cut.chunks, whole)
      /\ Clear(FlattenSeq(cut.parts), whole)
  BY DEF CutInv
<1>2. /\ r \in Cutting(Pieces) /\ r.chunks = cut.chunks
      /\ FlattenSeq(r.parts) = FlattenSeq(cut.parts) \o s
      /\ KeptWords(r) = KeptWords(cut) \o s
  BY <1>1, PartFacts
<1>3. KeptWords(cut) \in Sentences /\ FlattenSeq(cut.parts) \in Sentences
  BY <1>1, KeptFacts
<1> HIDE DEF r
<1>4. Keeps(KeptWords(r), w \o s)
  BY <1>1, <1>2, <1>3, KeepsMore
<1>5. Clear(FlattenSeq(r.parts), whole)
  BY <1>1, <1>2, <1>3, ClearBoth
<1>6. CutInv(r, w \o s, whole)
  BY <1>1, <1>2, <1>4, <1>5 DEF CutInv
<1> QED
  BY <1>6 DEF r

LEMMA PartOverflows ==
  ASSUME NEW cut, NEW w \in Sentences, NEW whole, CutInv(cut, w, whole), NEW next, Flushed(next, cut, whole),
         NEW s \in Sentences, NEW k \in Nat, Clear(s, whole)
  PROVE  CutInv(AddPart(next, s, k), w \o s, whole)
<1> DEFINE t == FlattenSeq(next.parts)
           r == AddPart(next, s, k)
<1>1. cut \in Cutting(Pieces) /\ Keeps(KeptWords(cut), w) /\ KeptWords(cut) \in Sentences
  BY KeptFacts DEF CutInv
<1>2. /\ next \in Cutting(Pieces) /\ FlattenSeq(next.chunks) = KeptWords(cut) /\ Apart(next.chunks, whole)
      /\ Clear(t, whole) /\ Among(t, KeptWords(cut))
  BY DEF Flushed
<1>3. /\ r \in Cutting(Pieces) /\ r.chunks = next.chunks /\ FlattenSeq(r.parts) = t \o s
      /\ KeptWords(r) = KeptWords(cut) \o (t \o s)
  <2>1. /\ r \in Cutting(Pieces) /\ r.chunks = next.chunks /\ FlattenSeq(r.parts) = t \o s
        /\ KeptWords(r) = FlattenSeq(next.chunks) \o (t \o s)
    BY <1>2, PartFacts
  <2> HIDE DEF r, t
  <2> QED
    BY <1>2, <2>1
<1>4. t \in Sentences /\ w \o s \in Sentences
  BY <1>2, KeptFacts, SentenceFacts
<1> HIDE DEF r, t
<1>5. Keeps(KeptWords(r), w \o s)
  <2>1. Keeps(KeptWords(cut) \o s, w \o s)
    BY <1>1, KeepsMore
  <2>2. Keeps(KeptWords(cut) \o (t \o s), w \o s)
    BY <1>1, <1>2, <1>4, <2>1, KeepsAgain
  <2> QED
    BY <1>3, <2>2
<1>6. Clear(FlattenSeq(r.parts), whole)
  BY <1>2, <1>3, <1>4, ClearBoth
<1>7. CutInv(r, w \o s, whole)
  BY <1>2, <1>3, <1>5, <1>6 DEF CutInv
<1> QED
  BY <1>7 DEF r

LEMMA CutSentenceStep ==
  ASSUME NEW b, NEW v \in Sentences, NEW whole, NEW t \in Sentences, BlockInv(b, v, whole, t), NEW s \in Sentences,
         Clear(s, whole)
  PROVE  BlockInv(CutSentence(b, s), v \o s, whole, t)
<1> DEFINE k == Tokens(s)
           full == b.tokens + k > ChunkSize /\ b.parts # <<>>
<1>1. k \in Nat
  BY TokensFacts
<1>2. CutInv(b, v, whole) /\ Among(t, FlattenSeq(b.chunks))
  BY DEF BlockInv
<1>3. b \in Cutting(Pieces) /\ FlattenSeq(b.chunks) \in Sentences /\ FlattenSeq(b.parts) \in Sentences
  BY <1>2, KeptFacts DEF CutInv
<1>4. CutSentence(b, s) = IF k > ChunkSize THEN CutWords(b, s)
                          ELSE IF full THEN AddPart(OverflowSentences(b), s, k) ELSE AddPart(b, s, k)
  BY DEF CutSentence, AddPart
<1> HIDE DEF k
<1>5. CASE k > ChunkSize
  BY <1>4, <1>5, CutWordsStep
<1>6. CASE ~(k > ChunkSize) /\ full
  <2> DEFINE next == OverflowSentences(b)
             r == AddPart(next, s, k)
  <2>1. CutSentence(b, s) = r
    BY <1>4, <1>6
  <2>2. Flushed(next, b, whole)
    BY <1>2, <1>6, OverflowSentencesFacts DEF NoWords
  <2> HIDE DEF next
  <2>3. CutInv(r, v \o s, whole)
    BY <1>1, <1>2, <2>2, PartOverflows
  <2>4. next \in Cutting(Pieces) /\ FlattenSeq(next.chunks) = KeptWords(b)
    BY <2>2 DEF Flushed
  <2>5. r.chunks = next.chunks
    BY <1>1, <2>4, PartFacts
  <2>6. Among(t, KeptWords(b))
    BY <1>2, <1>3, AmongFacts DEF KeptWords
  <2> HIDE DEF r
  <2> QED
    BY <2>1, <2>3, <2>4, <2>5, <2>6 DEF BlockInv
<1>7. CASE ~(k > ChunkSize) /\ ~full
  <2> DEFINE r == AddPart(b, s, k)
  <2>1. CutSentence(b, s) = r
    BY <1>4, <1>7
  <2>2. CutInv(r, v \o s, whole)
    BY <1>1, <1>2, PartFits
  <2>3. r.chunks = b.chunks
    BY <1>1, <1>3, PartFacts
  <2> HIDE DEF r
  <2> QED
    BY <1>2, <2>1, <2>2, <2>3 DEF BlockInv
<1> QED
  BY <1>5, <1>6, <1>7

(* The words of pieces, one piece after the other.                         *)
LEMMA PiecesJoins ==
  ASSUME NEW p \in Pieces
  PROVE  \E f \in [0 .. Len(p) -> Sentences] : Joins(f, p) /\ FlattenSeq(p) = f[Len(p)]
BY FlattenJoins DEF Pieces, Sentences

(* Where the words of the pieces are among them all: behind the places     *)
(* taken by the pieces before.                                             *)
LEMMA PiecesAt ==
  ASSUME NEW p \in Pieces
  PROVE  \E f \in [0 .. Len(p) -> Nat] :
           /\ \A i \in 1 .. Len(p) : \A x \in 1 .. Len(p[i]) :
                /\ f[i - 1] + x \in 1 .. Len(FlattenSeq(p)) /\ FlattenSeq(p)[f[i - 1] + x] = p[i][x]
                /\ f[i - 1] + x <= f[i]
           /\ \A i, j \in 0 .. Len(p) : i <= j => f[i] <= f[j]
<1> DEFINE N == Len(p)
<1>1. N \in Nat /\ \A i \in 1 .. N : p[i] \in Sentences
  BY DEF Pieces
<1>2. PICK h \in [0 .. N -> Sentences] : Joins(h, p) /\ FlattenSeq(p) = h[N]
  BY PiecesJoins
<1> HIDE DEF N
<1> DEFINE f == [n \in 0 .. N |-> Len(h[n])]
           Extends(n, m) == Len(h[n]) <= Len(h[m]) /\ \A x \in 1 .. Len(h[n]) : h[m][x] = h[n][x]
<1>3. \A n \in 0 .. N : h[n] \in Sentences /\ Len(h[n]) \in Nat
  BY DEF Sentences
<1>4. ASSUME NEW n \in 1 .. N
      PROVE  /\ n - 1 \in 0 .. N /\ n \in 0 .. N /\ Len(h[n]) = Len(h[n - 1]) + Len(p[n]) /\ Len(p[n]) \in Nat
             /\ Extends(n - 1, n)
             /\ \A x \in 1 .. Len(p[n]) : h[n][Len(h[n - 1]) + x] = p[n][x]
  <2> DEFINE a == h[n - 1]
             b == p[n]
  <2>1. n - 1 \in 0 .. N /\ n \in 0 .. N
    BY <1>1
  <2>2. a \in Sentences /\ b \in Sentences
    BY <1>1, <1>3, <2>1
  <2>3. h[n] = a \o b
    BY <1>2 DEF Joins, N
  <2> HIDE DEF a, b
  <2>4. Len(h[n]) = Len(a) + Len(b) /\ Len(a) \in Nat /\ Len(b) \in Nat
    BY <2>2, <2>3, SentenceFacts
  <2>5. /\ \A x \in 1 .. Len(a) : h[n][x] = a[x]
        /\ \A x \in 1 .. Len(b) : h[n][Len(a) + x] = b[x]
    BY <2>2, <2>3, ConcatElements
  <2>6. Len(a) <= Len(h[n])
    BY <2>4
  <2>7. Extends(n - 1, n)
    BY <2>5, <2>6 DEF a
  <2> HIDE DEF Extends
  <2> QED
    BY <2>1, <2>4, <2>5, <2>7 DEF a, b
<1> DEFINE S == {m \in 0 .. N : \A n \in 0 .. m : Extends(n, m)}
<1>5. 0 \in S
  BY <1>1, <1>3
<1>6. ASSUME NEW m \in 1 .. N, m - 1 \in S PROVE m \in S
  <2>1. m \in 0 .. N /\ m - 1 \in 0 .. N /\ Extends(m - 1, m) /\ \A n \in 0 .. m - 1 : Extends(n, m - 1)
    BY <1>4, <1>6
  <2>2. ASSUME NEW n \in 0 .. m PROVE Extends(n, m)
    <3>1. n \in 0 .. N
      BY <1>1
    <3>2. CASE n = m
      BY <1>3, <2>1, <3>2
    <3>3. CASE n # m
      <4>1. n \in 0 .. m - 1
        BY <1>1, <3>3
      <4>2. Extends(n, m - 1)
        BY <2>1, <4>1
      <4>3. Len(h[n]) \in Nat /\ Len(h[m - 1]) \in Nat /\ Len(h[m]) \in Nat
        BY <1>3, <2>1, <3>1
      <4>4. Len(h[n]) <= Len(h[m]) /\ \A x \in 1 .. Len(h[n]) : x \in 1 .. Len(h[m - 1])
        BY <2>1, <4>2, <4>3
      <4> QED
        BY <2>1, <4>2, <4>4
    <3> QED
      BY <3>2, <3>3
  <2> HIDE DEF Extends
  <2> QED
    BY <2>1, <2>2
<1>7. \A m \in 0 .. N : m \in S
  <2> HIDE DEF S
  <2> QED
    BY <1>1, <1>5, <1>6, UpTo
<1>8. \A n, m \in 0 .. N : n <= m => Extends(n, m)
  <2> SUFFICES ASSUME NEW n \in 0 .. N, NEW m \in 0 .. N, n <= m PROVE Extends(n, m)
    OBVIOUS
  <2>1. n \in 0 .. m /\ m \in S
    BY <1>1, <1>7
  <2> HIDE DEF Extends
  <2> QED
    BY <2>1
<1>9. f \in [0 .. N -> Nat] /\ \A n \in 0 .. N : f[n] = Len(h[n])
  BY <1>3
<1> HIDE DEF f
<1>10. ASSUME NEW i \in 1 .. N, NEW x \in 1 .. Len(p[i])
       PROVE  /\ f[i - 1] + x \in 1 .. Len(h[N]) /\ h[N][f[i - 1] + x] = p[i][x]
              /\ f[i - 1] + x <= f[i]
  <2>1. /\ i - 1 \in 0 .. N /\ i \in 0 .. N /\ Len(h[i]) = Len(h[i - 1]) + Len(p[i]) /\ Len(p[i]) \in Nat
        /\ h[i][Len(h[i - 1]) + x] = p[i][x]
    BY <1>4
  <2>2. N \in 0 .. N /\ Extends(i, N)
    <3>1. N \in 0 .. N /\ i <= N
      BY <1>1
    <3> HIDE DEF Extends
    <3> QED
      BY <1>8, <2>1, <3>1
  <2>3. Len(h[i - 1]) \in Nat /\ Len(h[i]) \in Nat /\ Len(h[N]) \in Nat
    BY <1>3, <2>1, <2>2
  <2>4. Len(h[i - 1]) + x \in 1 .. Len(h[i])
    <3>1. \A a, b \in Nat : \A y \in 1 .. b : a + y \in 1 .. a + b
      OBVIOUS
    <3> HIDE DEF Extends, S
    <3> QED
      BY <2>1, <2>3, <3>1
  <2>5. h[N][Len(h[i - 1]) + x] = p[i][x] /\ Len(h[i]) <= Len(h[N])
    BY <2>1, <2>2, <2>4
  <2>6. f[i - 1] = Len(h[i - 1]) /\ f[i] = Len(h[i])
    BY <1>9, <2>1
  <2>7. Len(h[i - 1]) + x \in 1 .. Len(h[N])
    BY <2>3, <2>4, <2>5
  <2>8. Len(h[i - 1]) + x <= Len(h[i])
    BY <2>4
  <2> HIDE DEF Extends
  <2> QED
    BY <2>5, <2>6, <2>7, <2>8
<1>11. \A i, j \in 0 .. N : i <= j => f[i] <= f[j]
  BY <1>8, <1>9
<1> HIDE DEF Extends, S
<1> DEFINE s == FlattenSeq(p)
<1>12. \A i \in 1 .. N : \A x \in 1 .. Len(p[i]) :
         f[i - 1] + x \in 1 .. Len(s) /\ s[f[i - 1] + x] = p[i][x] /\ f[i - 1] + x <= f[i]
  BY <1>2, <1>10
<1> HIDE DEF s
<1> QED
  BY <1>9, <1>11, <1>12 DEF N, s

LEMMA PieceAmong ==
  ASSUME NEW p \in Pieces, NEW i \in 1 .. Len(p)
  PROVE  Among(p[i], FlattenSeq(p))
<1>1. PICK f \in [0 .. Len(p) -> Nat] :
        \A n \in 1 .. Len(p) : \A x \in 1 .. Len(p[n]) :
          f[n - 1] + x \in 1 .. Len(FlattenSeq(p)) /\ FlattenSeq(p)[f[n - 1] + x] = p[n][x]
  BY PiecesAt
<1> QED
  BY <1>1 DEF Among

(* Of different words, no two pieces have one in common.                   *)
LEMMA PiecesApart ==
  ASSUME NEW p \in Pieces, IsInjective(FlattenSeq(p)), NEW i \in 1 .. Len(p), NEW j \in 1 .. Len(p), i # j,
         NEW x \in 1 .. Len(p[i]), NEW y \in 1 .. Len(p[j])
  PROVE  p[i][x] # p[j][y]
<1> DEFINE s == FlattenSeq(p)
<1>1. PICK f \in [0 .. Len(p) -> Nat] :
        /\ \A n \in 1 .. Len(p) : \A z \in 1 .. Len(p[n]) :
             f[n - 1] + z \in 1 .. Len(s) /\ s[f[n - 1] + z] = p[n][z] /\ f[n - 1] + z <= f[n]
        /\ \A n, m \in 0 .. Len(p) : n <= m => f[n] <= f[m]
  BY PiecesAt
<1>2. s \in Sentences /\ Len(p) \in Nat
  BY Flattened DEF Pieces
<1>3. \A a, b \in 1 .. Len(s) : s[a] = s[b] => a = b
  BY <1>2 DEF IsInjective, Sentences
<1> HIDE DEF s
<1> DEFINE a == f[i - 1] + x
           b == f[j - 1] + y
<1>4. /\ a \in 1 .. Len(s) /\ s[a] = p[i][x] /\ a <= f[i] /\ a > f[i - 1]
      /\ b \in 1 .. Len(s) /\ s[b] = p[j][y] /\ b <= f[j] /\ b > f[j - 1]
      /\ {i - 1, i, j - 1, j} \subseteq 0 .. Len(p)
  <2>1. {i - 1, i, j - 1, j} \subseteq 0 .. Len(p)
    BY <1>2
  <2>2. f[i - 1] \in Nat /\ f[j - 1] \in Nat /\ x \in Nat /\ y \in Nat /\ x > 0 /\ y > 0
    <3>1. p[i] \in Sentences /\ p[j] \in Sentences
      BY DEF Pieces
    <3>2. Len(p[i]) \in Nat /\ Len(p[j]) \in Nat
      BY <3>1, SentenceFacts
    <3>3. x \in Nat /\ y \in Nat /\ x > 0 /\ y > 0
      BY <3>2
    <3>4. i - 1 \in 0 .. Len(p) /\ j - 1 \in 0 .. Len(p)
      BY <2>1
    <3>5. f[i - 1] \in Nat /\ f[j - 1] \in Nat
      BY <3>4
    <3> QED
      BY <3>3, <3>5
  <2>3. /\ a \in 1 .. Len(s) /\ s[a] = p[i][x] /\ a <= f[i]
        /\ b \in 1 .. Len(s) /\ s[b] = p[j][y] /\ b <= f[j]
    BY <1>1
  <2>4. a > f[i - 1] /\ b > f[j - 1]
    BY <2>2
  <2> HIDE DEF a, b
  <2> QED
    BY <2>1, <2>3, <2>4
<1>5. f[i] \in Nat /\ f[j] \in Nat /\ f[i - 1] \in Nat /\ f[j - 1] \in Nat
  BY <1>4
<1>6. a # b
  <2>1. CASE i < j
    <3>1. i <= j - 1
      BY <1>2, <2>1
    <3>2. f[i] <= f[j - 1]
      BY <1>1, <1>4, <3>1
    <3> HIDE DEF a, b
    <3> QED
      BY <1>2, <1>4, <1>5, <3>2
  <2>2. CASE j < i
    <3>1. j <= i - 1
      BY <1>2, <2>2
    <3>2. f[j] <= f[i - 1]
      BY <1>1, <1>4, <3>1
    <3> HIDE DEF a, b
    <3> QED
      BY <1>2, <1>4, <1>5, <3>2
  <2> QED
    BY <1>2, <2>1, <2>2
<1> HIDE DEF a, b
<1> QED
  BY <1>3, <1>4, <1>6

LEMMA CutBlockStep ==
  ASSUME NEW c \in Cutting(Pieces), NEW w \in Sentences, NEW whole, Keeps(FlattenSeq(c.chunks), w),
         Apart(c.chunks, whole), Clear(FlattenSeq(c.parts), whole), Among(FlattenSeq(c.parts), FlattenSeq(c.chunks)),
         NEW ss \in Pieces, Clear(FlattenSeq(ss), whole)
  PROVE  CutInv(CutBlock(c, ss), w \o FlattenSeq(ss), whole)
<1> DEFINE t == FlattenSeq(c.parts)
           N == Len(ss)
           D == {d \in Cutting(Pieces) : \E u \in Sentences : BlockInv(d, u, whole, t)}
           base == [c EXCEPT !.parts = <<>>, !.tokens = 0]
<1>1. /\ c = [chunks |-> c.chunks, parts |-> c.parts, tokens |-> c.tokens]
      /\ c.chunks \in Pieces /\ c.parts \in Pieces /\ c.tokens \in Nat
      /\ FlattenSeq(c.chunks) \in Sentences /\ t \in Sentences
  BY KeptFacts
<1>2. base = [chunks |-> c.chunks, parts |-> NoWords, tokens |-> 0]
  <2>1. base = [c EXCEPT !.parts = NoWords, !.tokens = 0]
    BY DEF NoWords
  <2> HIDE DEF base
  <2> QED
    BY <1>1, <2>1
<1> HIDE DEF base
<1>3. BlockInv(base, w, whole, t)
  <2>1. base \in Cutting(Pieces)
    BY <1>1, <1>2, Flattened DEF Cutting
  <2>2. KeptWords(base) = FlattenSeq(c.chunks)
    BY <1>2, <2>1, KeptFacts
  <2>3. Clear(FlattenSeq(base.parts), whole)
    BY <1>2, Flattened, ClearNone
  <2>4. CutInv(base, w, whole)
    BY <1>2, <2>1, <2>2, <2>3 DEF CutInv
  <2> QED
    BY <1>2, <2>4 DEF BlockInv
<1>4. N \in Nat /\ \A i \in 1 .. N : ss[i] \in Sentences /\ Clear(ss[i], whole)
  <2>1. N \in Nat /\ \A i \in 1 .. N : ss[i] \in Sentences
    BY DEF Pieces
  <2>2. \A i \in 1 .. N : Among(ss[i], FlattenSeq(ss))
    BY PieceAmong
  <2> QED
    BY <2>1, <2>2, ClearAmong
<1>5. PICK f \in [0 .. N -> Sentences] : Joins(f, ss) /\ FlattenSeq(ss) = f[N]
  BY PiecesJoins
<1> DEFINE put(n) == w \o f[n]
<1>6. \A n \in 0 .. N : f[n] \in Sentences /\ put(n) \in Sentences
  <2>1. \A n \in 0 .. N : f[n] \in Sentences
    OBVIOUS
  <2> QED
    BY <2>1, SentenceFacts
<1>7. put(0) = w
  <2>1. f[0] = NoWords
    BY <1>5 DEF Joins, NoWords
  <2> QED
    BY <2>1, SentenceFacts
<1>8. \A n \in 1 .. N : put(n) = put(n - 1) \o ss[n]
  <2> SUFFICES ASSUME NEW n \in 1 .. N PROVE put(n) = put(n - 1) \o ss[n]
    OBVIOUS
  <2> DEFINE p == f[n - 1]
             s == ss[n]
  <2>1. p \in Sentences /\ s \in Sentences
    <3>1. n - 1 \in 0 .. N
      BY <1>4
    <3> QED
      BY <1>4, <1>6, <3>1
  <2>2. f[n] = p \o s
    BY <1>5 DEF Joins
  <2> HIDE DEF p, s
  <2>3. w \o (p \o s) = (w \o p) \o s
    BY <2>1, Joined
  <2> QED
    BY <2>2, <2>3 DEF p, s
<1> HIDE DEF put
<1>9. \A d \in D, i \in 1 .. Len(ss) : CutSentence(d, ss[i]) \in D
  <2> SUFFICES ASSUME NEW d \in D, NEW i \in 1 .. Len(ss) PROVE CutSentence(d, ss[i]) \in D
    OBVIOUS
  <2>1. PICK u \in Sentences : BlockInv(d, u, whole, t)
    OBVIOUS
  <2> DEFINE u2 == u \o ss[i]
             next == CutSentence(d, ss[i])
  <2>2. ss[i] \in Sentences /\ Clear(ss[i], whole)
    BY <1>4
  <2>3. BlockInv(next, u2, whole, t)
    BY <1>1, <2>1, <2>2, CutSentenceStep
  <2>4. u2 \in Sentences
    BY <2>2, SentenceFacts
  <2>5. next \in Cutting(Pieces)
    BY <2>3 DEF BlockInv, CutInv
  <2> HIDE DEF u2, next
  <2>6. next \in D
    BY <2>3, <2>4, <2>5
  <2> QED
    BY <2>6 DEF next
<1>10. base \in D
  BY <1>3 DEF BlockInv, CutInv
<1> HIDE DEF D
<1>11. PICK h \in [0 .. Len(ss) -> D] : CutSentenceSteps(h, base, ss)
  BY <1>9, <1>10, CutSentenceFolds DEF Pieces
<1>12. /\ h[0] = base
       /\ \A n \in 1 .. N : h[n] = CutSentence(h[n - 1], ss[n])
       /\ h[N] = FoldLeft(CutSentence, base, ss)
  BY <1>11 DEF CutSentenceSteps
<1> HIDE DEF N
<1> DEFINE S == {n \in 0 .. N : BlockInv(h[n], put(n), whole, t)}
<1>13. 0 \in S
  BY <1>3, <1>4, <1>7, <1>12
<1>14. ASSUME NEW n \in 1 .. N, n - 1 \in S PROVE n \in S
  <2>1. n - 1 \in 0 .. N /\ n \in 0 .. N /\ BlockInv(h[n - 1], put(n - 1), whole, t)
    BY <1>4, <1>14
  <2>2. BlockInv(CutSentence(h[n - 1], ss[n]), put(n - 1) \o ss[n], whole, t)
    <3> HIDE DEF t
    <3> QED
      BY <1>1, <1>4, <1>6, <2>1, CutSentenceStep
  <2> QED
    BY <1>8, <1>12, <2>1, <2>2
<1>15. \A n \in 0 .. N : n \in S
  <2> HIDE DEF S
  <2> QED
    BY <1>4, <1>13, <1>14, UpTo
<1> DEFINE b == FoldLeft(CutSentence, base, ss)
           v == w \o FlattenSeq(ss)
<1>16. BlockInv(b, v, whole, t)
  <2>1. N \in 0 .. N
    BY <1>4
  <2>2. BlockInv(h[N], put(N), whole, t)
    BY <1>15, <2>1
  <2> QED
    BY <1>5, <1>12, <2>2 DEF put
<1>17. CutBlock(c, ss) = IF b.parts = NoWords THEN [c EXCEPT !.chunks = b.chunks]
                         ELSE [b EXCEPT !.parts = c.parts \o @]
  BY DEF CutBlock, base, NoWords
<1>18. v \in Sentences
  BY <1>5, <1>6, SentenceFacts, Flattened
<1> HIDE DEF b, v
<1>19. /\ b \in Cutting(Pieces) /\ Keeps(KeptWords(b), v) /\ Apart(b.chunks, whole)
       /\ Clear(FlattenSeq(b.parts), whole)
       /\ Among(t, FlattenSeq(b.chunks))
  BY <1>16 DEF BlockInv, CutInv
<1>20. /\ b = [chunks |-> b.chunks, parts |-> b.parts, tokens |-> b.tokens]
       /\ b.chunks \in Pieces /\ b.parts \in Pieces /\ b.tokens \in Nat
       /\ FlattenSeq(b.chunks) \in Sentences /\ FlattenSeq(b.parts) \in Sentences
       /\ b.parts = NoWords => KeptWords(b) = FlattenSeq(b.chunks)
  BY <1>19, KeptFacts
<1> DEFINE k == FlattenSeq(b.chunks)
           q == FlattenSeq(b.parts)
<1>21. CASE b.parts = NoWords
  <2> DEFINE r == [chunks |-> b.chunks, parts |-> c.parts, tokens |-> c.tokens]
  <2>1. CutBlock(c, ss) = r
    BY <1>1, <1>17, <1>21
  <2>2. r \in Cutting(Pieces)
    BY <1>1, <1>20 DEF Cutting
  <2>3. KeptWords(r) = k \o t
    BY DEF KeptWords
  <2>4. Keeps(k \o t, v)
    <3> HIDE DEF k, t
    <3>1. k \o NoWords = k /\ t \o NoWords = t
      BY <1>1, <1>20, SentenceFacts DEF k
    <3>2. Keeps(k \o NoWords, v) /\ Among(t, k) /\ NoWords \in Sentences
      BY <1>19, <1>20, <1>21, <3>1, Flattened DEF k
    <3>3. k \in Sentences
      BY <1>20 DEF k
    <3>4. Keeps(k \o (t \o NoWords), v)
      BY <1>1, <1>18, <3>2, <3>3, KeepsAgain
    <3> QED
      BY <3>1, <3>4
  <2>5. CutInv(r, v, whole)
    BY <1>19, <2>2, <2>3, <2>4 DEF CutInv
  <2> QED
    BY <2>1, <2>5 DEF v
<1>22. CASE b.parts # NoWords
  <2> DEFINE both == c.parts \o b.parts
             r == [chunks |-> b.chunks, parts |-> both, tokens |-> b.tokens]
  <2>1. CutBlock(c, ss) = r
    BY <1>17, <1>20, <1>22
  <2>2. both \in Pieces /\ FlattenSeq(both) = t \o q
    BY <1>1, <1>20, PiecesJoin
  <2> HIDE DEF both
  <2>3. r \in Cutting(Pieces)
    BY <1>20, <2>2 DEF Cutting
  <2>4. KeptWords(r) = k \o (t \o q)
    BY <2>2 DEF KeptWords
  <2>5. Clear(FlattenSeq(r.parts), whole)
    BY <1>1, <1>19, <1>20, <2>2, ClearBoth
  <2> HIDE DEF k, t, q
  <2>6. Keeps(k \o (t \o q), v)
    <3>1. Keeps(k \o q, v) /\ Among(t, k)
      BY <1>19 DEF KeptWords, k, q
    <3>2. k \in Sentences /\ q \in Sentences
      BY <1>20 DEF k, q
    <3> QED
      BY <1>1, <1>18, <3>1, <3>2, KeepsAgain
  <2>7. CutInv(r, v, whole)
    BY <1>19, <2>3, <2>4, <2>5, <2>6 DEF CutInv
  <2> QED
    BY <2>1, <2>7 DEF v
<1> QED
  BY <1>21, <1>22

-------------------------------------------------------------------------------
(* Blocks, and their words.                                                *)
TextBlock == [kind : LineKinds, sentences : Pieces]
Whole == {"h1", "h2", "table"}
BlockWords(bs) == [i \in DOMAIN bs |-> FlattenSeq(bs[i].sentences)]

LEMMA OwnFacts ==
  ASSUME NEW cut, NEW w \in Sentences, NEW whole, CutInv(cut, w, whole), NEW s \in Sentences, s \in whole
  PROVE  CutInv(Own(cut, s), w \o s, whole)
<1> DEFINE e == Emit(cut, cut.parts)
           n == [e EXCEPT !.parts = <<>>, !.tokens = 0]
           r == Emit(n, <<s>>)
<1>1. /\ cut \in Cutting(Pieces) /\ Keeps(KeptWords(cut), w) /\ Apart(cut.chunks, whole)
      /\ Clear(FlattenSeq(cut.parts), whole)
  BY DEF CutInv
<1>2. /\ cut.parts \in Pieces /\ KeptWords(cut) \in Sentences
      /\ FlattenSeq(cut.parts) \in Sentences
  BY <1>1, KeptFacts
<1>3. e \in Cutting(Pieces) /\ FlattenSeq(e.chunks) = KeptWords(cut) /\ Apart(e.chunks, whole)
  BY <1>1, <1>2, EmitFacts DEF KeptWords
<1>4. e = [chunks |-> e.chunks, parts |-> e.parts, tokens |-> e.tokens] /\ e.chunks \in Pieces
  BY <1>3, KeptFacts
<1>5. n = [chunks |-> e.chunks, parts |-> NoWords, tokens |-> 0]
  <2>1. n = [e EXCEPT !.parts = NoWords, !.tokens = 0]
    BY DEF NoWords
  <2> HIDE DEF e, n
  <2> QED
    BY <1>4, <2>1
<1>6. Own(cut, s) = r
  BY DEF Own
<1> HIDE DEF n, e
<1>7. n \in Cutting(Pieces) /\ n.parts = NoWords /\ n.tokens = 0
      /\ FlattenSeq(n.chunks) = KeptWords(cut) /\ Apart(n.chunks, whole)
  BY <1>3, <1>4, <1>5, Flattened DEF Cutting
<1>8. <<s>> \in Pieces /\ FlattenSeq(<<s>>) = s
  <2>1. NoWords \in Pieces
    BY Flattened
  <2> QED
    BY <2>1, PieceFacts
<1>9. /\ r \in Cutting(Pieces) /\ r.parts = NoWords /\ r.tokens = 0
       /\ FlattenSeq(r.chunks) = KeptWords(cut) \o s /\ Apart(r.chunks, whole)
  BY <1>7, <1>8, EmitFacts
<1> HIDE DEF r
<1>10. KeptWords(r) = KeptWords(cut) \o s
  BY <1>9, KeptFacts
<1>11. Keeps(KeptWords(r), w \o s)
  BY <1>1, <1>2, <1>10, KeepsMore
<1>12. Clear(FlattenSeq(r.parts), whole)
  BY <1>9, Flattened, ClearNone
<1>13. CutInv(r, w \o s, whole)
  BY <1>9, <1>11, <1>12 DEF CutInv
<1> QED
  BY <1>6, <1>13

LEMMA AddBlockStep ==
  ASSUME NEW cut, NEW w \in Sentences, NEW whole, CutInv(cut, w, whole), NEW block \in TextBlock,
         IF block.kind \in Whole THEN FlattenSeq(block.sentences) \in whole
         ELSE Clear(FlattenSeq(block.sentences), whole)
  PROVE  CutInv(AddBlock(cut, block), w \o FlattenSeq(block.sentences), whole)
<1> DEFINE s == FlattenSeq(block.sentences)
           k == Tokens(s)
           next == Overflow(cut)
<1>1. block.sentences \in Pieces /\ s \in Sentences
  <2>1. block.sentences \in Pieces
    BY DEF TextBlock
  <2> QED
    BY <2>1, Flattened
<1>2. k \in Nat
  <2> HIDE DEF s
  <2> QED
    BY <1>1, TokensFacts
<1>3. Keeps(KeptWords(cut), w) /\ Flushed(next, cut, whole) /\ (block.kind \notin Whole => Clear(s, whole))
  BY OverflowFacts DEF CutInv
<1>4. AddBlock(cut, block) =
        IF block.kind \in Whole THEN Own(cut, s)
        ELSE IF cut.tokens + k <= ChunkSize THEN AddPart(cut, s, k)
        ELSE IF k <= ChunkSize THEN AddPart(next, s, k)
        ELSE CutBlock(next, block.sentences)
  BY DEF AddBlock, AddPart, Whole
<1>5. CASE block.kind \in Whole
  <2>1. AddBlock(cut, block) = Own(cut, s)
    BY <1>4, <1>5
  <2>2. s \in whole
    BY <1>5
  <2> HIDE DEF s
  <2>3. CutInv(Own(cut, s), w \o s, whole)
    BY <1>1, <2>2, OwnFacts
  <2> QED
    BY <2>1, <2>3 DEF s
<1>6. CASE block.kind \notin Whole /\ cut.tokens + k <= ChunkSize
  <2>1. AddBlock(cut, block) = AddPart(cut, s, k)
    BY <1>4, <1>6
  <2> HIDE DEF s, k
  <2>2. CutInv(AddPart(cut, s, k), w \o s, whole)
    BY <1>1, <1>2, <1>3, <1>6, PartFits
  <2> QED
    BY <2>1, <2>2 DEF s, k
<1>7. CASE block.kind \notin Whole /\ ~(cut.tokens + k <= ChunkSize) /\ k <= ChunkSize
  <2>1. AddBlock(cut, block) = AddPart(next, s, k)
    BY <1>4, <1>7
  <2> HIDE DEF s, k, next
  <2>2. CutInv(AddPart(next, s, k), w \o s, whole)
    BY <1>1, <1>2, <1>3, <1>7, PartOverflows
  <2> QED
    BY <2>1, <2>2 DEF s, k
<1>8. CASE block.kind \notin Whole /\ ~(cut.tokens + k <= ChunkSize) /\ ~(k <= ChunkSize)
  <2>1. AddBlock(cut, block) = CutBlock(next, block.sentences)
    BY <1>4, <1>8
  <2> HIDE DEF next
  <2>2. /\ next \in Cutting(Pieces) /\ FlattenSeq(next.chunks) = KeptWords(cut) /\ Apart(next.chunks, whole)
        /\ Clear(FlattenSeq(next.parts), whole) /\ Among(FlattenSeq(next.parts), FlattenSeq(next.chunks))
    BY <1>3 DEF Flushed
  <2>3. Keeps(FlattenSeq(next.chunks), w)
    BY <1>3, <2>2
  <2>4. CutInv(CutBlock(next, block.sentences), w \o s, whole)
    BY <1>1, <1>3, <1>8, <2>2, <2>3, CutBlockStep
  <2> QED
    BY <2>1, <2>4
<1> QED
  BY <1>5, <1>6, <1>7, <1>8

LEMMA BlockWordsFacts ==
  ASSUME NEW bs \in Seq(TextBlock)
  PROVE  /\ Len(bs) \in Nat /\ DOMAIN bs = 1 .. Len(bs) /\ \A i \in 1 .. Len(bs) : bs[i] \in TextBlock
         /\ BlockWords(bs) \in Pieces /\ Len(BlockWords(bs)) = Len(bs)
         /\ \A i \in 1 .. Len(bs) : BlockWords(bs)[i] = FlattenSeq(bs[i].sentences)
<1>1. Len(bs) \in Nat /\ DOMAIN bs = 1 .. Len(bs) /\ \A i \in 1 .. Len(bs) : bs[i] \in TextBlock
  OBVIOUS
<1> DEFINE f(i) == FlattenSeq(bs[i].sentences)
<1>2. \A i \in 1 .. Len(bs) : f(i) \in Sentences
  <2>1. \A i \in 1 .. Len(bs) : bs[i].sentences \in Pieces
    BY <1>1 DEF TextBlock
  <2> QED
    BY <2>1, Flattened
<1>3. BlockWords(bs) = [i \in 1 .. Len(bs) |-> f(i)]
  BY <1>1 DEF BlockWords
<1> HIDE DEF f
<1> DEFINE N == Len(bs)
           r == [i \in 1 .. N |-> f(i)]
<1> HIDE DEF N
<1>4. r \in Seq(Sentences) /\ Len(r) = N /\ \A i \in 1 .. N : r[i] = f(i)
  BY <1>1, <1>2 DEF N
<1> QED
  BY <1>1, <1>3, <1>4 DEF f, N, Pieces

(* The chunks of a text keep the words of its blocks.                      *)
WholeOf(bs) == {FlattenSeq(b.sentences) : b \in {x \in ToSet(bs) : x.kind \in Whole}}

(* In a text of different words, no other block has a word of theirs.      *)
LEMMA BlocksApart ==
  ASSUME NEW bs \in Seq(TextBlock), IsInjective(FlattenSeq(BlockWords(bs))),
         NEW i \in 1 .. Len(bs), bs[i].kind \notin Whole
  PROVE  Clear(FlattenSeq(bs[i].sentences), WholeOf(bs))
<1> DEFINE ws == BlockWords(bs)
<1>1. /\ DOMAIN bs = 1 .. Len(bs) /\ ws \in Pieces /\ Len(ws) = Len(bs)
      /\ \A n \in 1 .. Len(bs) : ws[n] = FlattenSeq(bs[n].sentences)
  BY BlockWordsFacts
<1> HIDE DEF ws
<1>2. ASSUME NEW n \in 1 .. Len(ws[i]), NEW x \in WholeOf(bs), NEW m \in 1 .. Len(x) PROVE ws[i][n] # x[m]
  <2>1. PICK j \in 1 .. Len(bs) : bs[j].kind \in Whole /\ x = ws[j]
    BY <1>1 DEF WholeOf, ToSet
  <2>2. i # j
    BY <2>1
  <2> QED
    BY <1>1, <2>1, <2>2, PiecesApart DEF ws
<1> QED
  BY <1>1, <1>2 DEF Clear

LEMMA ChunksKeepBlocks ==
  ASSUME NEW text, ExtractBlocks(text) \in Seq(TextBlock),
         \A i \in 1 .. Len(ExtractBlocks(text)) :
           ExtractBlocks(text)[i].kind \notin Whole =>
             Clear(FlattenSeq(ExtractBlocks(text)[i].sentences), WholeOf(ExtractBlocks(text)))
  PROVE  /\ ChunkText(text) \in Pieces
         /\ Keeps(FlattenSeq(ChunkText(text)), FlattenSeq(BlockWords(ExtractBlocks(text))))
         /\ Apart(ChunkText(text), WholeOf(ExtractBlocks(text)))
<1> DEFINE bs == ExtractBlocks(text)
           N == Len(bs)
           ws == BlockWords(bs)
           whole == WholeOf(bs)
           D == {d \in Cutting(Pieces) : \E u \in Sentences : CutInv(d, u, whole)}
           base == Cut
<1>1. /\ N \in Nat /\ DOMAIN bs = 1 .. N /\ \A i \in 1 .. N : bs[i] \in TextBlock
      /\ ws \in Pieces /\ Len(ws) = N /\ \A i \in 1 .. N : ws[i] = FlattenSeq(bs[i].sentences)
  BY BlockWordsFacts
<1>2. \A i \in 1 .. N : IF bs[i].kind \in Whole THEN FlattenSeq(bs[i].sentences) \in whole
                        ELSE Clear(FlattenSeq(bs[i].sentences), whole)
  <2>1. \A i \in 1 .. N : bs[i].kind \notin Whole => Clear(FlattenSeq(bs[i].sentences), whole)
    OBVIOUS
  <2> HIDE DEF bs
  <2>2. \A i \in 1 .. N : bs[i].kind \in Whole => FlattenSeq(bs[i].sentences) \in whole
    BY <1>1 DEF WholeOf, ToSet
  <2> QED
    BY <2>1, <2>2
<1>3. CutInv(base, NoWords, whole)
  <2>1. base = [chunks |-> NoWords, parts |-> NoWords, tokens |-> 0]
    BY DEF Cut, NoWords
  <2> HIDE DEF base
  <2>2. base \in Cutting(Pieces)
    BY <2>1, Flattened DEF Cutting
  <2>3. KeptWords(base) = NoWords
    BY <2>1, <2>2, KeptFacts, Flattened
  <2>4. Apart(NoWords, whole)
    BY ClearNone
  <2>5. Clear(FlattenSeq(base.parts), whole)
    BY <2>1, Flattened, ClearNone
  <2> QED
    BY <2>1, <2>2, <2>3, <2>4, <2>5, KeepsNone DEF CutInv
<1>4. bs \in Seq(TextBlock)
  OBVIOUS
<1> HIDE DEF bs, ws, whole
<1>5. PICK f \in [0 .. N -> Sentences] : Joins(f, ws) /\ FlattenSeq(ws) = f[N]
  BY <1>1, PiecesJoins
<1>6. f[0] = NoWords /\ \A n \in 1 .. N : f[n] = f[n - 1] \o FlattenSeq(bs[n].sentences)
  BY <1>1, <1>5 DEF Joins, NoWords
<1>7. \A n \in 0 .. N : f[n] \in Sentences
  OBVIOUS
<1>8. \A d \in D, i \in 1 .. Len(bs) : AddBlock(d, bs[i]) \in D
  <2> SUFFICES ASSUME NEW d \in D, NEW i \in 1 .. N PROVE AddBlock(d, bs[i]) \in D
    OBVIOUS
  <2>1. PICK u \in Sentences : CutInv(d, u, whole)
    OBVIOUS
  <2> DEFINE u2 == u \o FlattenSeq(bs[i].sentences)
             next == AddBlock(d, bs[i])
  <2>2. FlattenSeq(bs[i].sentences) \in Sentences
    <3>1. bs[i].sentences \in Pieces
      BY <1>1 DEF TextBlock
    <3> QED
      BY <3>1, Flattened
  <2>3. CutInv(next, u2, whole)
    BY <1>1, <1>2, <2>1, AddBlockStep
  <2>4. u2 \in Sentences
    BY <2>2, SentenceFacts
  <2>5. next \in Cutting(Pieces)
    BY <2>3 DEF CutInv
  <2> HIDE DEF u2, next
  <2>6. next \in D
    BY <2>3, <2>4, <2>5
  <2> QED
    BY <2>6 DEF next
<1>9. base \in D
  <2> HIDE DEF base
  <2> QED
    BY <1>3, Flattened DEF CutInv
<1> HIDE DEF D, base
<1>10. PICK h \in [0 .. Len(bs) -> D] : AddBlockSteps(h, base, bs)
  BY <1>4, <1>8, <1>9, AddBlockFolds
<1>11. /\ h[0] = base
       /\ \A n \in 1 .. N : h[n] = AddBlock(h[n - 1], bs[n])
       /\ h[N] = FoldLeft(AddBlock, base, bs)
  BY <1>10 DEF AddBlockSteps
<1> HIDE DEF N
<1> DEFINE S == {n \in 0 .. N : CutInv(h[n], f[n], whole)}
<1>12. 0 \in S
  BY <1>1, <1>3, <1>6, <1>11
<1>13. ASSUME NEW n \in 1 .. N, n - 1 \in S PROVE n \in S
  <2>1. n - 1 \in 0 .. N /\ n \in 0 .. N /\ CutInv(h[n - 1], f[n - 1], whole)
    BY <1>1, <1>13
  <2>2. CutInv(AddBlock(h[n - 1], bs[n]), f[n - 1] \o FlattenSeq(bs[n].sentences), whole)
    BY <1>1, <1>2, <1>7, <2>1, AddBlockStep
  <2> QED
    BY <1>6, <1>11, <2>1, <2>2
<1>14. \A n \in 0 .. N : n \in S
  <2> HIDE DEF S
  <2> QED
    BY <1>1, <1>12, <1>13, UpTo
<1> DEFINE cut == FoldLeft(AddBlock, base, bs)
<1>15. CutInv(cut, FlattenSeq(ws), whole)
  <2>1. N \in 0 .. N
    BY <1>1
  <2>2. CutInv(h[N], f[N], whole)
    BY <1>14, <2>1
  <2> QED
    BY <1>5, <1>11, <2>2
<1>16. ChunkText(text) = Emit(cut, cut.parts).chunks
  BY DEF ChunkText, base, bs
<1> HIDE DEF cut
<1>17. /\ cut \in Cutting(Pieces) /\ Keeps(KeptWords(cut), FlattenSeq(ws)) /\ Apart(cut.chunks, whole)
       /\ Clear(FlattenSeq(cut.parts), whole)
  BY <1>15 DEF CutInv
<1>18. cut.parts \in Pieces
  BY <1>17, KeptFacts
<1> DEFINE e == Emit(cut, cut.parts)
<1>19. e \in Cutting(Pieces) /\ FlattenSeq(e.chunks) = KeptWords(cut) /\ Apart(e.chunks, whole)
  BY <1>17, <1>18, EmitFacts DEF KeptWords
<1> HIDE DEF e
<1>20. e.chunks \in Pieces
  BY <1>19, KeptFacts
<1> QED
  BY <1>16, <1>17, <1>19, <1>20 DEF e, bs, ws, whole

-------------------------------------------------------------------------------

-------------------------------------------------------------------------------
(* The blocks of a text hold the words of its lines.                       *)
LEMMA LineIsBlock == Line = TextBlock
BY DEF Line, TextBlock, Pieces, Sentences

LEMMA BlockAppended ==
  ASSUME NEW bs \in Seq(TextBlock), NEW b \in TextBlock
  PROVE  /\ Append(bs, b) \in Seq(TextBlock) /\ Append(bs, b) # <<>>
         /\ FlattenSeq(BlockWords(Append(bs, b))) = FlattenSeq(BlockWords(bs)) \o FlattenSeq(b.sentences)
<1> DEFINE more == Append(bs, b)
           N == Len(bs)
           ws == BlockWords(bs)
           s == FlattenSeq(b.sentences)
           ms == BlockWords(more)
<1>1. /\ more \in Seq(TextBlock) /\ more # <<>> /\ N \in Nat /\ Len(more) = N + 1 /\ more[N + 1] = b
      /\ \A i \in 1 .. N : more[i] = bs[i]
  OBVIOUS
<1> HIDE DEF more
<1>2. ws \in Pieces /\ Len(ws) = N /\ \A i \in 1 .. N : ws[i] = FlattenSeq(bs[i].sentences)
  BY BlockWordsFacts
<1>3. ms \in Pieces /\ Len(ms) = N + 1 /\ \A i \in 1 .. N + 1 : ms[i] = FlattenSeq(more[i].sentences)
  BY <1>1, BlockWordsFacts
<1>4. s \in Sentences
  <2>1. b.sentences \in Pieces
    BY DEF TextBlock
  <2> QED
    BY <2>1, Flattened
<1> HIDE DEF ws, ms
<1>5. \A i \in 1 .. N : ms[i] = ws[i]
  BY <1>1, <1>2, <1>3
<1>6. ms[N + 1] = s
  BY <1>1, <1>3
<1> HIDE DEF s, N
<1>7. ms = Append(ws, s)
  <2> DEFINE a == Append(ws, s)
  <2>1. a \in Seq(Sentences) /\ Len(a) = N + 1 /\ a[N + 1] = s /\ \A i \in 1 .. N : a[i] = ws[i]
    BY <1>1, <1>2, <1>4 DEF Pieces
  <2> HIDE DEF a
  <2>2. \A i \in 1 .. N + 1 : ms[i] = a[i]
    <3> SUFFICES ASSUME NEW i \in 1 .. N + 1 PROVE ms[i] = a[i]
      OBVIOUS
    <3>1. i \in 1 .. N \/ i = N + 1
      BY <1>1
    <3> QED
      BY <1>5, <1>6, <2>1, <3>1
  <2>3. ms \in Seq(Sentences) /\ Len(ms) = Len(a) /\ \A i \in 1 .. Len(ms) : ms[i] = a[i]
    BY <1>3, <2>1, <2>2 DEF Pieces
  <2>4. ms = a
    BY <2>1, <2>3, SeqEqual
  <2> QED
    BY <2>4 DEF a
<1>8. FlattenSeq(Append(ws, s)) = FlattenSeq(ws) \o s
  BY <1>2, <1>4, PieceFacts
<1> QED
  BY <1>1, <1>7, <1>8 DEF more, ws, ms, s

Replaces(front, s, x) == s = Append(front, s[Len(s)]) /\ [s EXCEPT ![Len(s)] = x] = Append(front, x)

LEMMA LastReplaced ==
  ASSUME NEW X, NEW s \in Seq(X), s # <<>>, NEW x \in X
  PROVE  \E front \in Seq(X) : Replaces(front, s, x)
<1> DEFINE N == Len(s)
           front == [i \in 1 .. N - 1 |-> s[i]]
           a == Append(front, s[N])
           b == Append(front, x)
           new == [s EXCEPT ![N] = x]
<1>1. N \in Nat /\ N > 0 /\ \A i \in 1 .. N : s[i] \in X
  OBVIOUS
<1>2. front \in Seq(X) /\ Len(front) = N - 1 /\ \A i \in 1 .. N - 1 : front[i] = s[i]
  OBVIOUS
<1>3. new \in Seq(X) /\ Len(new) = N /\ new[N] = x /\ \A i \in 1 .. N - 1 : new[i] = s[i]
  OBVIOUS
<1> HIDE DEF front, new
<1>4. a \in Seq(X) /\ Len(a) = N /\ a[N] = s[N] /\ \A i \in 1 .. N - 1 : a[i] = front[i]
  BY <1>1, <1>2
<1>5. b \in Seq(X) /\ Len(b) = N /\ b[N] = x /\ \A i \in 1 .. N - 1 : b[i] = front[i]
  BY <1>1, <1>2
<1> HIDE DEF a, b, N
<1>6. \A i \in 1 .. N : i \in 1 .. N - 1 \/ i = N
  BY <1>1
<1>7. s = a
  <2>1. Len(s) = Len(a) /\ \A i \in 1 .. Len(s) : s[i] = a[i]
    BY <1>2, <1>4, <1>6 DEF N
  <2> QED
    BY <1>4, <2>1, SeqEqual
<1>8. new = b
  <2>1. Len(new) = Len(b) /\ \A i \in 1 .. Len(new) : new[i] = b[i]
    BY <1>2, <1>3, <1>5, <1>6
  <2> QED
    BY <1>3, <1>5, <2>1, SeqEqual
<1> QED
  BY <1>2, <1>7, <1>8 DEF a, b, new, N, Replaces

Extended(acc, n, ls) == [acc EXCEPT !.blocks[n].sentences = @ \o ls]
With(bs, n, b) == [bs EXCEPT ![n] = b]

Longer(b, ls) == [kind |-> b.kind, sentences |-> b.sentences \o ls]

LEMMA Deeper ==
  ASSUME NEW acc, NEW n, NEW ls, acc = [blocks |-> acc.blocks, open |-> acc.open],
         acc.blocks[n] = [kind |-> acc.blocks[n].kind, sentences |-> acc.blocks[n].sentences]
  PROVE  Extended(acc, n, ls) = [blocks |-> With(acc.blocks, n, Longer(acc.blocks[n], ls)), open |-> acc.open]
<1> DEFINE bs == acc.blocks
           last == [bs[n] EXCEPT !.sentences = @ \o ls]
           more == [bs EXCEPT ![n] = last]
<1>1. last = Longer(bs[n], ls)
  <2>1. \A b, x : b = [kind |-> b.kind, sentences |-> b.sentences] =>
                  [b EXCEPT !.sentences = x] = [kind |-> b.kind, sentences |-> x]
    OBVIOUS
  <2> DEFINE b == bs[n]
  <2>2. b = [kind |-> b.kind, sentences |-> b.sentences]
    OBVIOUS
  <2> HIDE DEF b
  <2>3. [b EXCEPT !.sentences = @ \o ls] = Longer(b, ls)
    <3> DEFINE x == b.sentences \o ls
    <3>1. [b EXCEPT !.sentences = @ \o ls] = [b EXCEPT !.sentences = x]
      OBVIOUS
    <3> HIDE DEF x
    <3>2. [b EXCEPT !.sentences = x] = [kind |-> b.kind, sentences |-> x]
      BY <2>1, <2>2
    <3> QED
      BY <3>1, <3>2 DEF Longer, x
  <2> QED
    BY <2>3 DEF b
<1>2. Extended(acc, n, ls) = [acc EXCEPT !.blocks = more]
  BY DEF Extended
<1>3. \A x : [acc EXCEPT !.blocks = x] = [blocks |-> x, open |-> acc.open]
  OBVIOUS
<1> HIDE DEF last, bs
<1>4. [acc EXCEPT !.blocks = more] = [blocks |-> more, open |-> acc.open]
  BY <1>3
<1> QED
  BY <1>1, <1>2, <1>4 DEF With, bs

LEMMA BlockExtended ==
  ASSUME NEW bs \in Seq(TextBlock), bs # <<>>, NEW ls \in Pieces,
         NEW last, last = [kind |-> bs[Len(bs)].kind, sentences |-> bs[Len(bs)].sentences \o ls]
  PROVE  /\ [bs EXCEPT ![Len(bs)] = last] \in Seq(TextBlock) /\ [bs EXCEPT ![Len(bs)] = last] # <<>>
         /\ FlattenSeq(BlockWords([bs EXCEPT ![Len(bs)] = last])) = FlattenSeq(BlockWords(bs)) \o FlattenSeq(ls)
<1> DEFINE N == Len(bs)
           old == bs[N]
           new == [bs EXCEPT ![N] = last]
<1>1. N \in Nat \ {0} /\ \A i \in 1 .. N : bs[i] \in TextBlock
  OBVIOUS
<1>2. old \in TextBlock
  BY <1>1
<1>3. old.sentences \in Pieces /\ old.kind \in LineKinds
  BY <1>2 DEF TextBlock
<1>4. old.sentences \o ls \in Pieces /\ FlattenSeq(old.sentences \o ls) = FlattenSeq(old.sentences) \o FlattenSeq(ls)
  BY <1>3, PiecesJoin
<1>5. last \in TextBlock /\ last.sentences = old.sentences \o ls
  BY <1>3, <1>4 DEF TextBlock
<1>6. PICK front \in Seq(TextBlock) : bs = Append(front, old) /\ new = Append(front, last)
  <2>1. \E front \in Seq(TextBlock) : Replaces(front, bs, last)
    BY <1>5, LastReplaced
  <2> QED
    BY <2>1 DEF Replaces
<1> DEFINE f == FlattenSeq(BlockWords(front))
           o == FlattenSeq(old.sentences)
           l == FlattenSeq(ls)
<1>7. new \in Seq(TextBlock) /\ new # <<>>
  BY <1>5, <1>6, BlockAppended
<1> HIDE DEF old, new
<1>8. FlattenSeq(BlockWords(bs)) = f \o o
  BY <1>2, <1>6, BlockAppended
<1>9. FlattenSeq(BlockWords(new)) = f \o FlattenSeq(last.sentences)
  BY <1>5, <1>6, BlockAppended
<1>10. FlattenSeq(BlockWords(new)) = f \o (o \o l)
  BY <1>4, <1>5, <1>9
<1>11. f \in Sentences /\ o \in Sentences /\ l \in Sentences
  <2>1. BlockWords(front) \in Pieces
    BY BlockWordsFacts
  <2> QED
    BY <1>3, <2>1, Flattened
<1> HIDE DEF f, o, l
<1>12. (f \o o) \o l = f \o (o \o l)
  BY <1>11, Joined
<1> QED
  BY <1>7, <1>8, <1>10, <1>12 DEF new, l

LineWords(line) == IF line.kind = "page" THEN NoWords ELSE FlattenSeq(line.sentences)

Accs == {acc \in [blocks : Seq(TextBlock), open : LineKinds \cup {"none"}] : acc.open # "none" => acc.blocks # <<>>}

LEMMA AddLineStep ==
  ASSUME NEW acc \in Accs, NEW line \in TextBlock
  PROVE  /\ AddLine(acc, line) \in Accs
         /\ FlattenSeq(BlockWords(AddLine(acc, line).blocks)) = FlattenSeq(BlockWords(acc.blocks)) \o LineWords(line)
<1> DEFINE kind == IF line.kind = "blank" /\ acc.open = "table" THEN "table"
                   ELSE IF line.kind = "indented" /\ acc.open = "list" THEN "list"
                   ELSE IF line.kind \in {"blank", "indented"} THEN "paragraph" ELSE line.kind
           bs == acc.blocks
           n == Len(bs)
           last == [kind |-> bs[n].kind, sentences |-> bs[n].sentences \o line.sentences]
           joins == kind = acc.open /\ kind \in {"table", "list", "paragraph"}
<1>1. /\ acc = [blocks |-> bs, open |-> acc.open] /\ bs \in Seq(TextBlock) /\ acc.open \in LineKinds \cup {"none"}
      /\ acc.open # "none" => bs # <<>>
  BY DEF Accs
<1>2. line.kind \in LineKinds /\ line.sentences \in Pieces
  BY DEF TextBlock
<1>3. kind \in LineKinds /\ (kind = "page" <=> line.kind = "page") /\ kind # "none"
  BY <1>2 DEF LineKinds
<1>4. AddLine(acc, line) =
        IF kind = "page" THEN [acc EXCEPT !.open = "none"]
        ELSE IF joins THEN Extended(acc, n, line.sentences)
        ELSE [blocks |-> Append(bs, [kind |-> kind, sentences |-> line.sentences]), open |-> kind]
  BY DEF AddLine, Extended
<1>5. CASE kind = "page"
  <2>1. AddLine(acc, line) = [blocks |-> bs, open |-> "none"]
    BY <1>1, <1>4, <1>5
  <2>2. FlattenSeq(BlockWords(bs)) \in Sentences
    BY <1>1, BlockWordsFacts, Flattened
  <2>3. FlattenSeq(BlockWords(bs)) \o LineWords(line) = FlattenSeq(BlockWords(bs))
    BY <1>3, <1>5, <2>2, SentenceFacts DEF LineWords
  <2> QED
    BY <1>1, <2>1, <2>3 DEF Accs
<1>6. CASE kind # "page" /\ joins
  <2>1. bs # <<>>
    BY <1>1, <1>3, <1>6
  <2>2. n \in 1 .. n /\ bs[n] \in TextBlock
    BY <1>1, <2>1
  <2>3. bs[n] = [kind |-> bs[n].kind, sentences |-> bs[n].sentences]
    BY <2>2 DEF TextBlock
  <2> DEFINE more == [bs EXCEPT ![n] = last]
  <2>4. AddLine(acc, line) = [blocks |-> more, open |-> acc.open]
    <3>1. AddLine(acc, line) = Extended(acc, n, line.sentences)
      BY <1>4, <1>6
    <3>2. Extended(acc, n, line.sentences) = [blocks |-> With(bs, n, Longer(bs[n], line.sentences)), open |-> acc.open]
      BY <1>1, <2>3, Deeper
    <3> QED
      BY <3>1, <3>2 DEF With, Longer
  <2>5. /\ more \in Seq(TextBlock) /\ more # <<>>
        /\ FlattenSeq(BlockWords(more)) = FlattenSeq(BlockWords(bs)) \o FlattenSeq(line.sentences)
    BY <1>1, <1>2, <2>1, BlockExtended
  <2> HIDE DEF more
  <2>6. LineWords(line) = FlattenSeq(line.sentences)
    BY <1>3, <1>6 DEF LineWords
  <2> QED
    BY <1>1, <2>4, <2>5, <2>6 DEF Accs
<1>7. CASE kind # "page" /\ ~joins
  <2> DEFINE b == [kind |-> kind, sentences |-> line.sentences]
             more == Append(bs, b)
  <2>1. AddLine(acc, line) = [blocks |-> more, open |-> kind]
    BY <1>4, <1>7
  <2>2. b \in TextBlock
    <3> HIDE DEF kind
    <3> QED
      BY <1>2, <1>3 DEF TextBlock
  <2>3. b.sentences = line.sentences
    OBVIOUS
  <2> HIDE DEF b
  <2>4. /\ more \in Seq(TextBlock) /\ more # <<>>
        /\ FlattenSeq(BlockWords(more)) = FlattenSeq(BlockWords(bs)) \o FlattenSeq(line.sentences)
    BY <1>1, <2>2, <2>3, BlockAppended
  <2>5. LineWords(line) = FlattenSeq(line.sentences)
    BY <1>3, <1>7 DEF LineWords
  <2> HIDE DEF more, kind
  <2> QED
    BY <1>3, <2>1, <2>4, <2>5 DEF Accs
<1> QED
  BY <1>5, <1>6, <1>7

LEMMA LinesFacts ==
  ASSUME NEW text \in Seq(Line)
  PROVE  LET all == FoldLeft(AddLine, [blocks |-> <<>>, open |-> "none"], text).blocks IN
           all \in Seq(TextBlock) /\ FlattenSeq(BlockWords(all)) = WordsOf(text)
<1> DEFINE N == Len(text)
           base == [blocks |-> <<>>, open |-> "none"]
           lw == [i \in DOMAIN text |-> LineWords(text[i])]
<1>1. text \in Seq(TextBlock)
  BY LineIsBlock
<1>2. N \in Nat /\ DOMAIN text = 1 .. N /\ \A i \in 1 .. N : text[i] \in TextBlock
  BY <1>1
<1>3. \A i \in 1 .. N : LineWords(text[i]) \in Sentences
  <2>1. \A i \in 1 .. N : text[i].sentences \in Pieces
    BY <1>2 DEF TextBlock
  <2> QED
    BY <2>1, Flattened DEF LineWords
<1>4. lw \in Pieces /\ Len(lw) = N /\ \A i \in 1 .. N : lw[i] = LineWords(text[i])
  <2>1. lw = [i \in 1 .. N |-> LineWords(text[i])]
    BY <1>2
  <2> HIDE DEF lw, N
  <2> QED
    BY <1>2, <1>3, <2>1 DEF Pieces
<1>5. WordsOf(text) = FlattenSeq(lw)
  BY DEF WordsOf, LineWords, NoWords
<1> HIDE DEF lw
<1>6. PICK f \in [0 .. N -> Sentences] : Joins(f, lw) /\ FlattenSeq(lw) = f[N]
  BY <1>4, PiecesJoins
<1>7. f[0] = NoWords /\ \A n \in 1 .. N : f[n] = f[n - 1] \o LineWords(text[n])
  BY <1>4, <1>6 DEF Joins, NoWords
<1>8. base \in Accs /\ FlattenSeq(BlockWords(base.blocks)) = NoWords
  <2>1. base \in Accs
    BY DEF Accs
  <2>2. BlockWords(<<>>) = NoWords
    BY DEF BlockWords, NoWords
  <2> QED
    BY <2>1, <2>2, Flattened
<1> HIDE DEF base
<1>9. \A d \in Accs, i \in 1 .. Len(text) : AddLine(d, text[i]) \in Accs
  BY <1>2, AddLineStep
<1>10. PICK h \in [0 .. Len(text) -> Accs] : AddLineSteps(h, base, text)
  BY <1>8, <1>9, AddLineFolds
<1>11. /\ h[0] = base
       /\ \A n \in 1 .. N : h[n] = AddLine(h[n - 1], text[n])
       /\ h[N] = FoldLeft(AddLine, base, text)
  BY <1>10 DEF AddLineSteps
<1> HIDE DEF N
<1>12. \A n \in 0 .. N : h[n] \in Accs
  BY DEF N
<1> DEFINE S == {n \in 0 .. N : FlattenSeq(BlockWords(h[n].blocks)) = f[n]}
<1>13. 0 \in S
  BY <1>2, <1>7, <1>8, <1>11
<1>14. ASSUME NEW n \in 1 .. N, n - 1 \in S PROVE n \in S
  <2>1. n - 1 \in 0 .. N /\ n \in 0 .. N /\ FlattenSeq(BlockWords(h[n - 1].blocks)) = f[n - 1]
    BY <1>2, <1>14
  <2>2. FlattenSeq(BlockWords(AddLine(h[n - 1], text[n]).blocks)) = f[n - 1] \o LineWords(text[n])
    BY <1>2, <1>12, <2>1, AddLineStep
  <2> QED
    BY <1>7, <1>11, <2>1, <2>2
<1>15. \A n \in 0 .. N : n \in S
  <2> HIDE DEF S
  <2> QED
    BY <1>2, <1>13, <1>14, UpTo
<1>16. FlattenSeq(BlockWords(h[N].blocks)) = f[N] /\ h[N] \in Accs
  <2>1. N \in 0 .. N
    BY <1>2
  <2> QED
    BY <1>12, <1>15, <2>1
<1>17. h[N].blocks \in Seq(TextBlock)
  BY <1>16 DEF Accs
<1> QED
  BY <1>5, <1>6, <1>11, <1>16, <1>17 DEF base

LEMMA ExtractFacts ==
  ASSUME NEW text \in Seq(Line)
  PROVE  /\ ExtractBlocks(text) \in Seq(TextBlock)
         /\ WordsOf(text) # NoWords => FlattenSeq(BlockWords(ExtractBlocks(text))) = WordsOf(text)
         /\ \/ FlattenSeq(BlockWords(ExtractBlocks(text))) = WordsOf(text)
            \/ \A i \in 1 .. Len(ExtractBlocks(text)) : ExtractBlocks(text)[i].kind \notin Whole
<1> DEFINE all == FoldLeft(AddLine, [blocks |-> <<>>, open |-> "none"], text).blocks
           N == Len(all)
           ones == [i \in DOMAIN all |-> IF FlattenSeq(all[i].sentences) = <<>> THEN <<>> ELSE <<all[i]>>]
           blocks == FlattenSeq(ones)
           ws == BlockWords(all)
           rest == FlattenSeq([i \in DOMAIN text |-> text[i].sentences])
           only == <<[kind |-> "paragraph", sentences |-> rest]>>
<1>1. all \in Seq(TextBlock) /\ FlattenSeq(ws) = WordsOf(text)
  BY LinesFacts
<1>2. ExtractBlocks(text) = IF blocks # <<>> \/ text = <<>> THEN blocks ELSE only
  BY DEF ExtractBlocks
<1> HIDE DEF all, only
<1>3. /\ N \in Nat /\ DOMAIN all = 1 .. N /\ \A i \in 1 .. N : all[i] \in TextBlock
      /\ ws \in Pieces /\ Len(ws) = N /\ \A i \in 1 .. N : ws[i] = FlattenSeq(all[i].sentences)
  BY <1>1, BlockWordsFacts
<1>4. ones \in Seq(Seq(TextBlock)) /\ Len(ones) = N
      /\ \A i \in 1 .. N : ones[i] = IF ws[i] = NoWords THEN <<>> ELSE <<all[i]>>
  <2> DEFINE f(i) == IF ws[i] = NoWords THEN <<>> ELSE <<all[i]>>
  <2>1. ones = [i \in 1 .. N |-> f(i)]
    BY <1>3 DEF NoWords
  <2>2. \A i \in 1 .. N : f(i) \in Seq(TextBlock)
    <3>1. \A b \in TextBlock : <<b>> \in Seq(TextBlock)
      OBVIOUS
    <3> QED
      BY <1>3, <3>1
  <2> HIDE DEF f, ones, N
  <2>3. ones \in Seq(Seq(TextBlock)) /\ Len(ones) = N /\ \A i \in 1 .. N : ones[i] = f(i)
    BY <1>3, <2>1, <2>2
  <2> QED
    BY <2>3 DEF f
<1> HIDE DEF ones, ws
<1>5. PICK f \in [0 .. N -> Seq(TextBlock)] : Joins(f, ones) /\ blocks = f[N]
  <2>1. \E f \in [0 .. Len(ones) -> Seq(TextBlock)] : Joins(f, ones) /\ FlattenSeq(ones) = f[Len(ones)]
    BY <1>4, FlattenJoins
  <2> HIDE DEF N
  <2> QED
    BY <1>4, <2>1
<1>6. PICK g \in [0 .. N -> Sentences] : Joins(g, ws) /\ FlattenSeq(ws) = g[N]
  BY <1>3, PiecesJoins
<1> HIDE DEF N
<1> DEFINE S == {n \in 0 .. N : FlattenSeq(BlockWords(f[n])) = g[n]}
<1>7. BlockWords(<<>>) = NoWords /\ FlattenSeq(BlockWords(<<>>)) = NoWords
  <2>1. BlockWords(<<>>) = NoWords
    BY DEF BlockWords, NoWords
  <2> QED
    BY <2>1, Flattened
<1>8. 0 \in S
  BY <1>3, <1>5, <1>6, <1>7 DEF Joins, NoWords
<1>9. ASSUME NEW n \in 1 .. N, n - 1 \in S PROVE n \in S
  <2> DEFINE bs == f[n - 1]
             v == g[n - 1]
  <2>1. n - 1 \in 0 .. N /\ n \in 0 .. N /\ bs \in Seq(TextBlock) /\ v \in Sentences /\ FlattenSeq(BlockWords(bs)) = v
    <3>1. n - 1 \in 0 .. N /\ n \in 0 .. N
      BY <1>3
    <3> QED
      BY <1>9, <3>1
  <2>2. f[n] = bs \o ones[n] /\ g[n] = v \o ws[n]
    BY <1>3, <1>4, <1>5, <1>6 DEF Joins
  <2> HIDE DEF bs, v
  <2>3. CASE ws[n] = NoWords
    <3>1. bs \o <<>> = bs /\ v \o NoWords = v
      BY <2>1, ConcatEmptySeq DEF NoWords, Sentences
    <3>2. f[n] = bs /\ g[n] = v
      BY <1>4, <2>2, <2>3, <3>1
    <3> QED
      BY <2>1, <3>2
  <2>4. CASE ws[n] # NoWords
    <3>1. all[n] \in TextBlock
      BY <1>3
    <3>2. f[n] = Append(bs, all[n])
      <4>1. Append(bs, all[n]) = bs \o <<all[n]>>
        BY <2>1, <3>1, AppendIsConcat
      <4> QED
        BY <1>4, <2>2, <2>4, <4>1
    <3>3. FlattenSeq(BlockWords(Append(bs, all[n]))) = v \o FlattenSeq(all[n].sentences)
      BY <2>1, <3>1, BlockAppended
    <3>4. FlattenSeq(BlockWords(f[n])) = g[n]
      BY <1>3, <2>2, <3>2, <3>3
    <3> QED
      BY <2>1, <3>4
  <2> QED
    BY <2>3, <2>4
<1>10. \A n \in 0 .. N : n \in S
  <2> HIDE DEF S
  <2> QED
    BY <1>3, <1>8, <1>9, UpTo
<1>11. blocks \in Seq(TextBlock) /\ FlattenSeq(BlockWords(blocks)) = WordsOf(text)
  <2>1. N \in 0 .. N
    BY <1>3
  <2>2. f[N] \in Seq(TextBlock) /\ FlattenSeq(BlockWords(f[N])) = g[N]
    BY <1>10, <2>1
  <2> QED
    BY <1>1, <1>5, <1>6, <2>2
<1> HIDE DEF blocks
<1>12. CASE blocks # <<>> \/ text = <<>>
  BY <1>2, <1>11, <1>12
<1>13. CASE ~(blocks # <<>> \/ text = <<>>)
  <2>1. WordsOf(text) = NoWords
    BY <1>7, <1>11, <1>13
  <2>2. text \in Seq(TextBlock)
    BY LineIsBlock
  <2>3. rest \in Pieces
    <3> DEFINE ls == [i \in DOMAIN text |-> text[i].sentences]
    <3>1. Len(text) \in Nat /\ DOMAIN text = 1 .. Len(text) /\ \A i \in 1 .. Len(text) : text[i].sentences \in Pieces
      <4>1. Len(text) \in Nat /\ DOMAIN text = 1 .. Len(text) /\ \A i \in 1 .. Len(text) : text[i] \in TextBlock
        BY <2>2
      <4> QED
        BY <4>1 DEF TextBlock
    <3>2. ls \in Seq(Pieces)
      <4>1. ls = [i \in 1 .. Len(text) |-> text[i].sentences]
        BY <3>1
      <4> HIDE DEF ls
      <4> QED
        BY <3>1, <4>1
    <3>3. ls \in Seq(Seq(Sentences))
      BY <3>2 DEF Pieces
    <3> HIDE DEF ls
    <3>4. FlattenSeq(ls) \in Seq(Sentences)
      BY <3>3, FlattenType
    <3> QED
      BY <3>4 DEF Pieces, ls
  <2> HIDE DEF rest
  <2>4. only \in Seq(TextBlock)
    <3>1. [kind |-> "paragraph", sentences |-> rest] \in TextBlock
      BY <2>3 DEF TextBlock, LineKinds
    <3>2. \A b \in TextBlock : <<b>> \in Seq(TextBlock)
      OBVIOUS
    <3> QED
      BY <3>1, <3>2 DEF only
  <2>5. \A i \in 1 .. Len(only) : only[i].kind \notin Whole
    BY DEF only, Whole
  <2> QED
    BY <1>2, <1>13, <2>1, <2>4, <2>5
<1> QED
  BY <1>12, <1>13

(* The place where a sequence first has a value.                           *)
FirstAt(s, x) == SelectInSeq(s, LAMBDA y : y = x)

LEMMA FirstAtFacts ==
  ASSUME NEW s, Len(s) \in Nat, NEW x, NEW p \in 1 .. Len(s), s[p] = x
  PROVE  /\ FirstAt(s, x) \in 1 .. p /\ s[FirstAt(s, x)] = x
         /\ (\A q \in 1 .. p - 1 : s[q] # x) => FirstAt(s, x) = p
<1> DEFINE I == {i \in 1 .. Len(s) : s[i] = x}
<1>1. I \subseteq Nat /\ p \in I
  OBVIOUS
<1>2. FirstAt(s, x) = Min(I)
  BY <1>1 DEF FirstAt, SelectInSeq
<1>3. Min(I) \in I /\ \A y \in I : Min(I) <= y
  <2> HIDE DEF I
  <2> QED
    BY <1>1, Smallest
<1> DEFINE m == Min(I)
<1> HIDE DEF m
<1>4. m \in 1 .. Len(s) /\ s[m] = x /\ m <= p
  BY <1>1, <1>3 DEF m
<1>5. (\A q \in 1 .. p - 1 : s[q] # x) => m = p
  BY <1>4
<1>6. FirstAt(s, x) = m
  BY <1>2 DEF m
<1> QED
  BY <1>4, <1>5, <1>6

(* What is kept of words that are all different is kept in their order.    *)
LEMMA KeptInOrder ==
  ASSUME NEW k \in Sentences, NEW w \in Sentences, IsInjective(w), Keeps(k, w)
  PROVE  \A i, j \in 1 .. Len(w) : FirstAt(k, w[i]) > 0 /\ (i < j => FirstAt(k, w[i]) < FirstAt(k, w[j]))
<1>1. Len(k) \in Nat /\ Len(w) \in Nat /\ DOMAIN w = 1 .. Len(w)
  BY DEF Sentences
<1>2. \A i, j \in 1 .. Len(w) : w[i] = w[j] => i = j
  BY <1>1 DEF IsInjective
<1>3. ASSUME NEW i \in 1 .. Len(w)
      PROVE  /\ FirstAt(k, w[i]) \in 1 .. Len(k) /\ k[FirstAt(k, w[i])] = w[i]
             /\ \A q \in 1 .. FirstAt(k, w[i]) - 1 : \E j \in 1 .. i - 1 : k[q] = w[j]
  <2>1. PICK p \in 1 .. Len(k) : k[p] = w[i] /\ \A q \in 1 .. p - 1 : \E j \in 1 .. i - 1 : k[q] = w[j]
    BY DEF Keeps
  <2>2. \A q \in 1 .. p - 1 : k[q] # w[i]
    <3> SUFFICES ASSUME NEW q \in 1 .. p - 1, k[q] = w[i] PROVE FALSE
      OBVIOUS
    <3>1. PICK j \in 1 .. i - 1 : k[q] = w[j]
      BY <2>1
    <3>2. j \in 1 .. Len(w) /\ j # i
      BY <1>1
    <3> QED
      BY <1>2, <3>1, <3>2
  <2>3. FirstAt(k, w[i]) = p
    BY <1>1, <2>1, <2>2, FirstAtFacts
  <2> QED
    BY <2>1, <2>3
<1>4. ASSUME NEW i \in 1 .. Len(w), NEW j \in 1 .. Len(w), i < j
      PROVE  FirstAt(k, w[i]) < FirstAt(k, w[j])
  <2> DEFINE p == FirstAt(k, w[i])
             r == FirstAt(k, w[j])
  <2>1. /\ p \in 1 .. Len(k) /\ k[p] = w[i] /\ \A q \in 1 .. p - 1 : \E n \in 1 .. i - 1 : k[q] = w[n]
        /\ r \in 1 .. Len(k) /\ k[r] = w[j]
    BY <1>3
  <2> HIDE DEF p, r
  <2> SUFFICES ASSUME ~(p < r) PROVE FALSE
    BY DEF p, r
  <2>2. CASE p = r
    BY <1>2, <1>4, <2>1, <2>2
  <2>3. CASE r \in 1 .. p - 1
    <3>1. PICK n \in 1 .. i - 1 : k[r] = w[n]
      BY <2>1, <2>3
    <3>2. n \in 1 .. Len(w) /\ n # j
      BY <1>1, <1>4
    <3> QED
      BY <1>2, <2>1, <3>1, <3>2
  <2> QED
    BY <1>1, <2>1, <2>2, <2>3
<1>5. \A i \in 1 .. Len(w) : FirstAt(k, w[i]) > 0
  BY <1>1, <1>3
<1> QED
  BY <1>4, <1>5

(* The chunks of any text that may be uploaded.                            *)
LEMMA ChunksKeepText ==
  ASSUME NEW text \in Texts
  PROVE  /\ ChunkText(text) \in Pieces
         /\ \A i, j \in DOMAIN WordsOf(text) :
              LET First(w) == FirstAt(FlattenSeq(ChunkText(text)), w) IN
                /\ First(WordsOf(text)[i]) > 0
                /\ i < j => First(WordsOf(text)[i]) < First(WordsOf(text)[j])
         /\ \A i \in DOMAIN ChunkText(text) :
              \/ ChunkText(text)[i] \in WholeOf(ExtractBlocks(text))
              \/ \A s \in WholeOf(ExtractBlocks(text)) : ToSet(ChunkText(text)[i]) \cap ToSet(s) = {}
<1>1. text \in Seq(Line) /\ IsInjective(WordsOf(text))
  BY KnowledgeAssumption
<1> DEFINE bs == ExtractBlocks(text)
           w == WordsOf(text)
           c == ChunkText(text)
           k == FlattenSeq(c)
<1>2. /\ bs \in Seq(TextBlock) /\ (w # NoWords => FlattenSeq(BlockWords(bs)) = w)
      /\ FlattenSeq(BlockWords(bs)) = w \/ \A i \in 1 .. Len(bs) : bs[i].kind \notin Whole
  BY <1>1, ExtractFacts
<1>3. c \in Pieces /\ Keeps(k, FlattenSeq(BlockWords(bs))) /\ Apart(c, WholeOf(bs))
  <2>1. \A i \in 1 .. Len(bs) : bs[i].kind \notin Whole => Clear(FlattenSeq(bs[i].sentences), WholeOf(bs))
    <3> HIDE DEF bs, w
    <3>1. CASE FlattenSeq(BlockWords(bs)) = w
      BY <1>1, <1>2, <3>1, BlocksApart DEF w
    <3>2. CASE \A i \in 1 .. Len(bs) : bs[i].kind \notin Whole
      <4>1. WholeOf(bs) = {}
        BY <1>2, <3>2 DEF WholeOf, ToSet
      <4> QED
        BY <4>1 DEF Clear
    <3> QED
      BY <1>2, <3>1, <3>2
  <2> QED
    BY <1>2, <2>1, ChunksKeepBlocks
<1>4. w \in Sentences
  <2>1. w = FlattenSeq(BlockWords(FoldLeft(AddLine, [blocks |-> <<>>, open |-> "none"], text).blocks))
        /\ FoldLeft(AddLine, [blocks |-> <<>>, open |-> "none"], text).blocks \in Seq(TextBlock)
    BY <1>1, LinesFacts
  <2> QED
    BY <2>1, BlockWordsFacts, Flattened
<1>5. k \in Sentences
  BY <1>3, Flattened
<1>6. DOMAIN w = 1 .. Len(w) /\ DOMAIN c = 1 .. Len(c)
  <2>1. DOMAIN w = 1 .. Len(w)
    BY <1>4 DEF Sentences
  <2>2. DOMAIN c = 1 .. Len(c)
    BY <1>3 DEF Pieces
  <2> QED
    BY <2>1, <2>2
<1> HIDE DEF w, c, k, bs
<1>7. \A i, j \in DOMAIN w : FirstAt(k, w[i]) > 0 /\ (i < j => FirstAt(k, w[i]) < FirstAt(k, w[j]))
  <2>1. CASE w = NoWords
    BY <2>1 DEF NoWords
  <2>2. CASE w # NoWords
    <3>1. IsInjective(w) /\ Keeps(k, w)
      BY <1>1, <1>2, <1>3, <2>2 DEF w
    <3> QED
      BY <1>4, <1>5, <1>6, <3>1, KeptInOrder
  <2> QED
    BY <2>1, <2>2
<1>8. ASSUME NEW i \in DOMAIN c, c[i] \notin WholeOf(bs), NEW s \in WholeOf(bs)
      PROVE  ToSet(c[i]) \cap ToSet(s) = {}
  <2>1. i \in 1 .. Len(c) /\ c[i] \in Sentences
    BY <1>3, <1>6 DEF Pieces
  <2>2. s \in Sentences
    <3>1. PICK n \in DOMAIN bs : s = FlattenSeq(bs[n].sentences)
      BY DEF WholeOf, ToSet
    <3> QED
      BY <1>2, <3>1, BlockWordsFacts, Flattened DEF TextBlock
  <2>3. DOMAIN c[i] = 1 .. Len(c[i]) /\ DOMAIN s = 1 .. Len(s)
    BY <2>1, <2>2 DEF Sentences
  <2>4. Clear(c[i], WholeOf(bs))
    BY <1>3, <1>8, <2>1 DEF Apart
  <2> QED
    BY <2>3, <2>4 DEF Clear, ToSet
<1> QED
  BY <1>3, <1>7, <1>8 DEF w, c, k, bs

-------------------------------------------------------------------------------
(* Knowledge.                                                              *)

KnowledgeSpec == KnowledgeInit /\ [][KnowledgeNext]_kvars

(* The rows of chunks, and of a document; a document is only active with   *)
(* an original and with chunks of one run.                                 *)
Rows(chunks) == chunks = [i \in DOMAIN chunks |-> [words |-> chunks[i].words, run |-> chunks[i].run]]

OneRun(chunks) == \A i, j \in DOMAIN chunks : chunks[i].run = chunks[j].run

DocumentInv(d, doc, stored) ==
  /\ doc = [text |-> doc.text, active |-> doc.active, chunks |-> doc.chunks]
  /\ doc.active \in BOOLEAN
  /\ Rows(doc.chunks)
  /\ doc.active => d \in stored /\ doc.chunks # <<>> /\ OneRun(doc.chunks)

(* A request is about one document, whose original is there before it is   *)
(* committed.                                                              *)
RequestInv(x, stored) ==
  \/ x = Idle
  \/ /\ x = [pc |-> x.pc, id |-> x.id, doc |-> x.doc, text |-> x.text, done |-> x.done, fts |-> x.fts,
             hits |-> x.hits, before |-> x.before]
     /\ x.doc \in Ids
     /\ x.pc = "commit" => x.doc \in stored

KnowledgeInv ==
  /\ plot \in DOMAIN Plots /\ calls \in Nat
  /\ DOMAIN docs = Ids /\ docs = [d \in Ids |-> docs[d]]
  /\ DOMAIN call = Clients /\ call = [c \in Clients |-> call[c]]
  /\ \A d \in Ids : DocumentInv(d, docs[d], originals)
  /\ \A c \in Clients : RequestInv(call[c], originals)

LEMMA KnowledgeStarts == KnowledgeInit => KnowledgeInv
<1> SUFFICES ASSUME KnowledgeInit PROVE KnowledgeInv
  OBVIOUS
<1>1. docs = [d \in Ids |-> NoDocument] /\ call = [c \in Clients |-> Idle] /\ calls = 0 /\ plot \in DOMAIN Plots
  BY DEF KnowledgeInit
<1>2. Rows(<<>>)
  <2>1. DOMAIN <<>> = {}
    OBVIOUS
  <2> QED
    BY <2>1 DEF Rows
<1>3. \A d \in Ids : DocumentInv(d, NoDocument, originals)
  BY <1>2 DEF DocumentInv, NoDocument
<1>4. \A c \in Clients : RequestInv(Idle, originals)
  BY DEF RequestInv
<1> QED
  BY <1>1, <1>3, <1>4 DEF KnowledgeInv

(* A request goes on or ends, and the documents stay as they are.          *)
LEMMA OnlyCall ==
  ASSUME KnowledgeInv, NEW c \in Clients, NEW x, call' = [call EXCEPT ![c] = x],
         UNCHANGED <<plot, docs>>, calls' \in Nat, originals \subseteq originals', RequestInv(x, originals')
  PROVE  KnowledgeInv'
<1>1. call'[c] = x /\ \A b \in Clients : b # c => call'[b] = call[b]
  BY DEF KnowledgeInv
<1>2. DOMAIN call' = Clients /\ call' = [b \in Clients |-> call'[b]]
  BY DEF KnowledgeInv
<1>3. \A d \in Ids : DocumentInv(d, docs'[d], originals')
  BY DEF KnowledgeInv, DocumentInv
<1>4. \A b \in Clients : RequestInv(call'[b], originals')
  BY <1>1 DEF KnowledgeInv, RequestInv
<1> QED
  BY <1>2, <1>3, <1>4 DEF KnowledgeInv

LEMMA EndInv ==
  ASSUME KnowledgeInv, NEW c \in Clients, End(c), UNCHANGED <<plot, docs, calls>>, originals \subseteq originals'
  PROVE  KnowledgeInv'
<1>1. RequestInv(Idle, originals')
  BY DEF RequestInv
<1>2. calls' \in Nat
  BY DEF KnowledgeInv
<1> QED
  BY <1>1, <1>2, OnlyCall DEF End

LEMMA GoesInv ==
  ASSUME KnowledgeInv, NEW c \in Clients, call[c] # Idle, NEW pc, Goes(c, pc), UNCHANGED <<plot, docs, calls>>,
         originals \subseteq originals', pc = "commit" => call[c].doc \in originals'
  PROVE  KnowledgeInv'
<1> DEFINE x == [call[c] EXCEPT !.pc = pc]
<1>1. RequestInv(call[c], originals)
  BY DEF KnowledgeInv
<1>2. /\ x.pc = pc /\ x.doc = call[c].doc /\ call[c].doc \in Ids
      /\ x = [pc |-> x.pc, id |-> x.id, doc |-> x.doc, text |-> x.text, done |-> x.done, fts |-> x.fts,
              hits |-> x.hits, before |-> x.before]
  BY <1>1 DEF RequestInv
<1>3. call' = [call EXCEPT ![c] = x]
  BY DEF Goes
<1> HIDE DEF x
<1>4. RequestInv(x, originals')
  BY <1>2 DEF RequestInv
<1>5. calls' \in Nat
  BY DEF KnowledgeInv
<1> QED
  BY <1>3, <1>4, <1>5, OnlyCall

LEMMA CallStep ==
  ASSUME KnowledgeInv, NEW c \in Clients, Call(c)
  PROVE  KnowledgeInv'
<1> DEFINE Request(d, text) ==
             [pc |-> Plots[plot].ops[calls'], id |-> calls', doc |-> d, text |-> text, done |-> {}, fts |-> <<>>,
              hits |-> <<>>, before |-> {n \in Ids \ Active : docs[n] # NoDocument}]
<1>1. /\ calls < Len(Plots[plot].ops) /\ calls' = calls + 1
      /\ UNCHANGED <<plot, docs, originals>>
  BY DEF Call
<1>2. Len(Plots[plot].ops) \in Nat /\ Len(Plots[plot].ops) <= MaxCalls /\ MaxCalls \in Nat
  BY KnowledgeAssumption DEF KnowledgeInv
<1>3. Plots[plot].ops[calls'] \in Ops
  <2>1. Plots[plot].ops \in Seq(Ops)
    BY KnowledgeAssumption DEF KnowledgeInv
  <2>2. calls' \in 1 .. Len(Plots[plot].ops)
    BY <1>1, <1>2 DEF KnowledgeInv
  <2> QED
    BY <2>1, <2>2
<1>4. calls' \in Nat /\ calls' \in Ids
  BY <1>1, <1>2 DEF KnowledgeInv, Ids
<1>5. PICK d \in Ids : \E text : call' = [call EXCEPT ![c] = Request(d, text)]
  <2>1. CASE Plots[plot].ops[calls'] = "create"
    <3>1. \E r \in {Request(calls', text) : text \in Plots[plot].texts} : call' = [call EXCEPT ![c] = r]
      BY <2>1 DEF Call
    <3> QED
      BY <1>4, <3>1
  <2>2. CASE Plots[plot].ops[calls'] = "search"
    <3>1. \E r \in {Request(calls', <<>>)} : call' = [call EXCEPT ![c] = r]
      BY <2>2 DEF Call
    <3> QED
      BY <1>4, <3>1
  <2>3. CASE Plots[plot].ops[calls'] \notin {"create", "search"}
    <3>1. \E r \in {Request(d, <<>>) : d \in {n \in Ids : docs[n] # NoDocument}} : call' = [call EXCEPT ![c] = r]
      BY <2>3 DEF Call
    <3> QED
      BY <3>1
  <2> QED
    BY <2>1, <2>2, <2>3
<1>6. PICK text : call' = [call EXCEPT ![c] = Request(d, text)]
  BY <1>5
<1>7. RequestInv(Request(d, text), originals')
  <2>1. Plots[plot].ops[calls'] # "commit"
    BY <1>3 DEF Ops
  <2> DEFINE x == Request(d, text)
  <2>2. /\ x.pc # "commit" /\ x.doc \in Ids
        /\ x = [pc |-> x.pc, id |-> x.id, doc |-> x.doc, text |-> x.text, done |-> x.done, fts |-> x.fts,
                hits |-> x.hits, before |-> x.before]
    BY <2>1
  <2> QED
    BY <1>1, <2>2 DEF RequestInv
<1> QED
  BY <1>1, <1>4, <1>6, <1>7, OnlyCall

LEMMA EmbedsStep ==
  ASSUME KnowledgeInv, NEW c \in Clients, call[c] # Idle, NEW pc, pc # "commit", Embeds(c, pc),
         UNCHANGED <<plot, docs, originals, calls>>
  PROVE  KnowledgeInv'
<1>1. originals \subseteq originals' /\ UNCHANGED <<plot, docs, calls>>
  OBVIOUS
<1>2. CASE Goes(c, pc)
  BY <1>1, <1>2, GoesInv
<1>3. CASE End(c)
  BY <1>1, <1>3, EndInv
<1> QED
  BY <1>2, <1>3 DEF Embeds

LEMMA FailStep ==
  ASSUME KnowledgeInv, NEW c \in Clients, Fail(c) \/ Answer(c)
  PROVE  KnowledgeInv'
BY EndInv DEF Fail, Answer

LEMMA CreateStep ==
  ASSUME KnowledgeInv, NEW c \in Clients, Extract(c) \/ Deduplicate(c) \/ Store(c)
  PROVE  KnowledgeInv'
<1>1. call[c] # Idle
  BY DEF Extract, Deduplicate, Store, Idle
<1>2. CASE Extract(c)
  <2>1. UNCHANGED <<plot, docs, originals, calls>> /\ (End(c) \/ Embeds(c, "deduplicate"))
    BY <1>2 DEF Extract
  <2> QED
    BY <1>1, <2>1, EndInv, EmbedsStep
<1>3. CASE Deduplicate(c)
  <2>1. UNCHANGED <<plot, docs, originals, calls>> /\ (End(c) \/ Goes(c, "store"))
    BY <1>3 DEF Deduplicate
  <2> QED
    BY <1>1, <2>1, EndInv, GoesInv
<1>4. CASE Store(c)
  <2>1. /\ originals' = originals \cup {call[c].doc} /\ (Goes(c, "commit") \/ End(c))
        /\ UNCHANGED <<plot, docs, calls>>
    BY <1>4 DEF Store
  <2>2. originals \subseteq originals' /\ call[c].doc \in originals'
    BY <2>1
  <2> QED
    BY <1>1, <2>1, <2>2, EndInv, GoesInv
<1> QED
  BY <1>2, <1>3, <1>4

(* One document changes, and the request ends.                             *)
LEMMA OneDocument ==
  ASSUME KnowledgeInv, NEW c \in Clients, NEW d \in Ids, NEW doc, End(c), UNCHANGED <<plot, originals, calls>>,
         DocumentInv(d, doc, originals), docs' = [docs EXCEPT ![d] = doc]
  PROVE  KnowledgeInv'
<1>1. docs'[d] = doc /\ \A n \in Ids : n # d => docs'[n] = docs[n]
  BY DEF KnowledgeInv
<1>2. DOMAIN docs' = Ids /\ docs' = [n \in Ids |-> docs'[n]]
  BY DEF KnowledgeInv
<1>3. \A n \in Ids : DocumentInv(n, docs'[n], originals')
  BY <1>1 DEF KnowledgeInv
<1>4. call' = [call EXCEPT ![c] = Idle]
  BY DEF End
<1>5. DOMAIN call' = Clients /\ call' = [b \in Clients |-> call'[b]]
  BY <1>4 DEF KnowledgeInv
<1>6. \A b \in Clients : RequestInv(call'[b], originals')
  BY <1>4 DEF KnowledgeInv, RequestInv
<1> QED
  BY <1>2, <1>3, <1>5, <1>6 DEF KnowledgeInv

LEMMA CommitDocumentStep ==
  ASSUME KnowledgeInv, NEW c \in Clients, CommitDocument(c)
  PROVE  KnowledgeInv'
<1> DEFINE chunks == ChunkText(call[c].text)
           rows == [i \in DOMAIN chunks |-> [words |-> chunks[i], run |-> call[c].id]]
           doc == [text |-> call[c].text, active |-> rows # <<>>, chunks |-> rows]
           d == call[c].doc
<1>1. d \in Ids /\ d \in originals
  <2>1. RequestInv(call[c], originals) /\ call[c].pc = "commit"
    BY DEF KnowledgeInv, CommitDocument
  <2> QED
    BY <2>1 DEF RequestInv, Idle
<1>2. docs' = [docs EXCEPT ![d] = doc] /\ End(c) /\ UNCHANGED <<plot, originals, calls>>
  BY DEF CommitDocument
<1> HIDE DEF chunks
<1>3. Rows(rows) /\ OneRun(rows)
  BY DEF Rows, OneRun
<1> HIDE DEF rows
<1>4. doc.active = (rows # <<>>) /\ doc.chunks = rows /\ doc.active \in BOOLEAN
      /\ doc = [text |-> doc.text, active |-> doc.active, chunks |-> doc.chunks]
  OBVIOUS
<1> HIDE DEF doc, d
<1>5. DocumentInv(d, doc, originals)
  BY <1>1, <1>3, <1>4 DEF DocumentInv
<1> QED
  BY <1>1, <1>2, <1>5, OneDocument

LEMMA RemoveStep ==
  ASSUME KnowledgeInv, NEW c \in Clients, RemoveDocument(c)
  PROVE  KnowledgeInv'
<1> DEFINE d == call[c].doc
<1>1. d \in Ids
  <2>1. RequestInv(call[c], originals) /\ call[c].pc # "idle"
    BY DEF KnowledgeInv, RemoveDocument
  <2> QED
    BY <2>1 DEF RequestInv, Idle
<1>2. End(c) /\ UNCHANGED <<plot, originals, calls>>
  BY DEF RemoveDocument
<1>3. DocumentInv(d, docs[d], originals)
  BY <1>1 DEF KnowledgeInv
<1>4. CASE docs' = docs
  <2>1. originals \subseteq originals' /\ UNCHANGED <<plot, docs, calls>>
    BY <1>2, <1>4
  <2> QED
    BY <1>2, <2>1, EndInv
<1>5. CASE docs' = [docs EXCEPT ![d] = NoDocument]
  <2>1. Rows(<<>>)
    <3>1. DOMAIN <<>> = {}
      OBVIOUS
    <3> QED
      BY <3>1 DEF Rows
  <2>2. DocumentInv(d, NoDocument, originals)
    BY <2>1 DEF DocumentInv, NoDocument
  <2> QED
    BY <1>1, <1>2, <1>5, <2>2, OneDocument
<1>6. CASE docs' = [docs EXCEPT ![d].active = FALSE]
  <2> DEFINE doc == [docs[d] EXCEPT !.active = FALSE]
  <2>1. docs' = [docs EXCEPT ![d] = doc]
    BY <1>6
  <2>2. doc.active = FALSE /\ doc.chunks = docs[d].chunks
        /\ doc = [text |-> doc.text, active |-> doc.active, chunks |-> doc.chunks]
    <3> HIDE DEF d
    <3>1. PICK text, active, chunks : docs[d] = [text |-> text, active |-> active, chunks |-> chunks]
      BY <1>3 DEF DocumentInv
    <3>2. \A b : [docs[d] EXCEPT !.active = b] = [text |-> text, active |-> b, chunks |-> chunks]
      BY <3>1
    <3>3. doc = [text |-> text, active |-> FALSE, chunks |-> chunks]
      BY <3>2
    <3>4. docs[d].chunks = chunks
      BY <3>1
    <3> HIDE DEF doc
    <3> QED
      BY <3>3, <3>4
  <2> HIDE DEF doc, d
  <2>3. DocumentInv(d, doc, originals)
    BY <1>3, <2>2 DEF DocumentInv
  <2> QED
    BY <1>1, <1>2, <2>1, <2>3, OneDocument
<1> QED
  BY <1>4, <1>5, <1>6 DEF RemoveDocument

LEMMA ReindexStep ==
  ASSUME KnowledgeInv, NEW c \in Clients, ReadChunks(c) \/ Update(c)
  PROVE  KnowledgeInv'
<1>1. call[c] # Idle
  BY DEF ReadChunks, Update, Idle
<1>2. CASE ReadChunks(c)
  <2>1. UNCHANGED <<plot, docs, originals, calls>> /\ (End(c) \/ Embeds(c, "update"))
    BY <1>2 DEF ReadChunks
  <2> QED
    BY <1>1, <2>1, EndInv, EmbedsStep
<1>3. CASE Update(c)
  <2>1. UNCHANGED <<plot, docs, originals, calls>>
    BY <1>3 DEF Update
  <2>2. CASE End(c)
    BY <2>1, <2>2, EndInv
  <2>3. CASE call' = [call EXCEPT ![c].done = call[c].done \cup {Min(Rest(c))}]
    <3> DEFINE x == [call[c] EXCEPT !.done = call[c].done \cup {Min(Rest(c))}]
    <3>1. call' = [call EXCEPT ![c] = x]
      BY <2>3
    <3>2. RequestInv(call[c], originals)
      BY DEF KnowledgeInv
    <3>3. /\ x.pc = call[c].pc /\ x.doc = call[c].doc /\ call[c].doc \in Ids
          /\ x = [pc |-> x.pc, id |-> x.id, doc |-> x.doc, text |-> x.text, done |-> x.done, fts |-> x.fts,
                  hits |-> x.hits, before |-> x.before]
      BY <1>1, <3>2 DEF RequestInv
    <3> HIDE DEF x
    <3>4. RequestInv(x, originals')
      BY <1>1, <2>1, <3>2, <3>3 DEF RequestInv
    <3>5. calls' \in Nat
      BY <2>1 DEF KnowledgeInv
    <3> QED
      BY <2>1, <3>1, <3>4, <3>5, OnlyCall
  <2>4. call' = [call EXCEPT ![c].done = call[c].done \cup {Min(Rest(c))}] \/ End(c)
    BY <1>3 DEF Update, KnowledgeInv
  <2> QED
    BY <2>2, <2>3, <2>4
<1> QED
  BY <1>2, <1>3

(* All rows of the document are of the run of the request.                 *)
LEMMA CommitChunksStep ==
  ASSUME KnowledgeInv, NEW c \in Clients, CommitChunks(c)
  PROVE  KnowledgeInv'
<1> DEFINE d == call[c].doc
           old == docs[d].chunks
           new == [i \in DOMAIN old |-> IF i \in call[c].done THEN [old[i] EXCEPT !.run = call[c].id] ELSE old[i]]
           doc == [docs[d] EXCEPT !.chunks = new]
<1>1. d \in Ids
  <2>1. RequestInv(call[c], originals) /\ call[c].pc # "idle"
    BY DEF KnowledgeInv, CommitChunks
  <2> QED
    BY <2>1 DEF RequestInv, Idle
<1>2. End(c) /\ UNCHANGED <<plot, originals, calls>> /\ DOMAIN old \subseteq call[c].done
  BY DEF CommitChunks, Rest
<1>3. docs' = [docs EXCEPT ![d] = doc]
  BY <1>1 DEF CommitChunks, KnowledgeInv
<1>4. DocumentInv(d, docs[d], originals)
  BY <1>1 DEF KnowledgeInv
<1>5. doc.active = docs[d].active /\ doc.chunks = new
      /\ doc = [text |-> doc.text, active |-> doc.active, chunks |-> doc.chunks]
  <2>1. PICK t, a, k : docs[d] = [text |-> t, active |-> a, chunks |-> k]
    BY <1>4, Zenon DEF DocumentInv
  <2> HIDE DEF d, new
  <2>2. doc = [text |-> t, active |-> a, chunks |-> new] /\ docs[d].active = a
    BY <2>1
  <2> HIDE DEF doc
  <2> QED
    BY <2>2
<1>6. Rows(old)
  BY <1>4 DEF DocumentInv
<1>7. new = [i \in DOMAIN old |-> [words |-> old[i].words, run |-> call[c].id]]
  <2>1. ASSUME NEW i \in DOMAIN old
        PROVE  [old[i] EXCEPT !.run = call[c].id] = [words |-> old[i].words, run |-> call[c].id]
    <3>1. old[i] = [words |-> old[i].words, run |-> old[i].run]
      BY <1>6 DEF Rows
    <3> HIDE DEF old
    <3> QED
      BY <3>1
  <2> HIDE DEF old
  <2> QED
    BY <1>2, <2>1
<1> HIDE DEF d, old, new, doc
<1>8. Rows(new) /\ OneRun(new)
  BY <1>7 DEF Rows, OneRun
<1>9. old # <<>> => new # <<>>
  <2>1. old = [i \in DOMAIN old |-> [words |-> old[i].words, run |-> old[i].run]]
    BY <1>6 DEF Rows
  <2>2. DOMAIN new = DOMAIN old
    BY <1>7
  <2>3. DOMAIN <<>> = {}
    OBVIOUS
  <2>4. DOMAIN old = {} => old = <<>>
    BY <2>1
  <2> QED
    BY <2>2, <2>3, <2>4
<1>10. DocumentInv(d, doc, originals)
  BY <1>4, <1>5, <1>8, <1>9 DEF DocumentInv, old
<1> QED
  BY <1>1, <1>2, <1>3, <1>10, OneDocument

LEMMA SearchStep ==
  ASSUME KnowledgeInv, NEW c \in Clients, Expand(c) \/ FullText(c) \/ Vector(c)
  PROVE  KnowledgeInv'
<1>1. call[c] # Idle /\ UNCHANGED <<plot, docs, originals, calls>>
  BY DEF Expand, FullText, Vector, Idle
<1>2. RequestInv(call[c], originals)
  BY DEF KnowledgeInv
<1>3. calls' \in Nat
  BY <1>1 DEF KnowledgeInv
<1>4. CASE Expand(c)
  BY <1>1, <1>4, EmbedsStep DEF Expand
<1>5. ASSUME NEW fts, NEW hits, NEW pc \in {"vector", "answer"},
             call' = [call EXCEPT ![c] = [call[c] EXCEPT !.fts = fts, !.hits = hits, !.pc = pc]]
      PROVE  KnowledgeInv'
  <2> DEFINE x == [call[c] EXCEPT !.fts = fts, !.hits = hits, !.pc = pc]
  <2>1. /\ x.pc = pc /\ x.doc \in Ids
        /\ x = [pc |-> x.pc, id |-> x.id, doc |-> x.doc, text |-> x.text, done |-> x.done, fts |-> x.fts,
                hits |-> x.hits, before |-> x.before]
    <3>1. PICK p, id, doc, text, done, f, h, before :
            /\ call[c] = [pc |-> p, id |-> id, doc |-> doc, text |-> text, done |-> done, fts |-> f, hits |-> h,
                          before |-> before]
            /\ call[c].doc \in Ids
      BY <1>1, <1>2 DEF RequestInv
    <3> DEFINE y == [call[c] EXCEPT !.fts = fts]
               z == [y EXCEPT !.hits = hits]
    <3>2. x = [pc |-> pc, id |-> id, doc |-> doc, text |-> text, done |-> done, fts |-> fts, hits |-> hits,
               before |-> before]
      <4>1. y = [pc |-> p, id |-> id, doc |-> doc, text |-> text, done |-> done, fts |-> fts, hits |-> h,
                 before |-> before]
        BY <3>1
      <4>2. x = [z EXCEPT !.pc = pc]
        OBVIOUS
      <4> HIDE DEF y
      <4>3. z = [pc |-> p, id |-> id, doc |-> doc, text |-> text, done |-> done, fts |-> fts, hits |-> hits,
                 before |-> before]
        BY <4>1
      <4> HIDE DEF x, z
      <4> QED
        BY <4>2, <4>3
    <3>3. doc \in Ids
      BY <3>1
    <3> HIDE DEF x
    <3> QED
      BY <3>2, <3>3
  <2>2. call' = [call EXCEPT ![c] = x]
    BY <1>5
  <2> HIDE DEF x
  <2>3. RequestInv(x, originals')
    BY <2>1 DEF RequestInv
  <2> QED
    BY <1>1, <1>3, <2>2, <2>3, OnlyCall
<1>6. CASE FullText(c)
  <2>1. PICK fts \in Rankings(Found) : call' = [call EXCEPT ![c].fts = fts, ![c].pc = "vector"]
    BY <1>6 DEF FullText
  <2>2. call' = [call EXCEPT ![c] = [call[c] EXCEPT !.fts = fts, !.hits = call[c].hits, !.pc = "vector"]]
    BY <1>1, <1>2, <2>1 DEF RequestInv, KnowledgeInv
  <2> QED
    BY <1>5, <2>2
<1>7. CASE Vector(c)
  <2>1. PICK hits : call' = [call EXCEPT ![c].hits = hits, ![c].pc = "answer"]
    BY <1>7 DEF Vector
  <2>2. call' = [call EXCEPT ![c] = [call[c] EXCEPT !.fts = call[c].fts, !.hits = hits, !.pc = "answer"]]
    BY <1>1, <1>2, <2>1 DEF RequestInv, KnowledgeInv
  <2> QED
    BY <1>5, <2>2
<1> QED
  BY <1>4, <1>6, <1>7

LEMMA KnowledgeStep == KnowledgeInv /\ [KnowledgeNext]_kvars => KnowledgeInv'
<1> SUFFICES ASSUME KnowledgeInv, [KnowledgeNext]_kvars PROVE KnowledgeInv'
  OBVIOUS
<1>1. CASE UNCHANGED kvars
  BY <1>1 DEF kvars, KnowledgeInv
<1>2. ASSUME NEW c \in Clients,
             \/ Call(c) \/ Fail(c) \/ Extract(c) \/ Deduplicate(c) \/ Store(c) \/ CommitDocument(c)
             \/ RemoveDocument(c) \/ ReadChunks(c) \/ Update(c) \/ CommitChunks(c)
             \/ Expand(c) \/ FullText(c) \/ Vector(c) \/ Answer(c)
      PROVE  KnowledgeInv'
  BY <1>2, CallStep, FailStep, CreateStep, CommitDocumentStep, RemoveStep, ReindexStep, CommitChunksStep,
     SearchStep
<1> QED
  BY <1>1, <1>2 DEF KnowledgeNext

(* The documents of the knowledge base, for any number of requests at one  *)
(* time and any texts: one that is active has its original in the storage  *)
(* and chunks that one run has embedded, whatever fails in between.        *)
THEOREM ActiveDocuments == KnowledgeSpec => []ActiveIsComplete
<1>1. KnowledgeInv => ActiveIsComplete
  <2> SUFFICES ASSUME KnowledgeInv PROVE ActiveIsComplete
    OBVIOUS
  <2>1. ASSUME NEW d \in Active
        PROVE  /\ d \in originals /\ docs[d].chunks # <<>>
               /\ \A i, j \in DOMAIN docs[d].chunks : docs[d].chunks[i].run = docs[d].chunks[j].run
    <3>1. DocumentInv(d, docs[d], originals) /\ docs[d].active
      BY DEF KnowledgeInv, Active
    <3>2. d \in originals /\ docs[d].chunks # <<>> /\ OneRun(docs[d].chunks)
      BY <3>1 DEF DocumentInv
    <3> QED
      BY <3>2 DEF OneRun
  <2> QED
    BY <2>1 DEF ActiveIsComplete
<1> QED
  BY KnowledgeStarts, KnowledgeStep, <1>1, PTL DEF KnowledgeSpec


-------------------------------------------------------------------------------
(* Texts, and answers.  A document has the words of its chunks from its    *)
(* text, whatever is written to its rows.                                  *)
WordsIn(chunks) == [i \in DOMAIN chunks |-> chunks[i].words]

TextInv(doc) ==
  \/ doc = NoDocument
  \/ doc.text \in Texts /\ WordsIn(doc.chunks) = ChunkText(doc.text)

Creating == {"create", "deduplicate", "store", "commit"}

(* A list has a chunk once, and none of the documents it is without.       *)
Listed(list, without) ==
  /\ Len(list) \in Nat /\ DOMAIN list = 1 .. Len(list) /\ IsInjective(list)
  /\ \A i \in DOMAIN list : list[i][1] \notin without

(* A request that creates a document is the first to write it, and what    *)
(* was inactive before a request stays so.                                 *)
SeenInv(x) ==
  /\ x.pc \in Creating => x.text \in Texts /\ docs[x.doc] = NoDocument /\ x.doc <= calls
  /\ x # Idle => \A n \in x.before : n \in Ids /\ n <= calls /\ ~docs[n].active
  /\ x.pc = "vector" => Listed(x.fts, x.before)
  /\ x.pc = "answer" => Listed(x.hits, x.before) /\ Len(x.hits) <= TopK

SearchInv ==
  /\ \A d \in Ids : TextInv(docs[d]) /\ (docs[d] # NoDocument => d <= calls)
  /\ \A c \in Clients : SeenInv(call[c])
  /\ \A b, c \in Clients : call[b].pc \in Creating =>
       /\ call[c] # Idle => call[b].doc \notin call[c].before
       /\ call[c].pc \in Creating /\ c # b => call[c].doc # call[b].doc

LEMMA SearchStarts == KnowledgeInit => SearchInv
<1> SUFFICES ASSUME KnowledgeInit PROVE SearchInv
  OBVIOUS
<1>1. docs = [d \in Ids |-> NoDocument] /\ call = [c \in Clients |-> Idle]
  BY DEF KnowledgeInit
<1>2. Idle.pc = "idle" /\ "idle" \notin Creating
  BY DEF Idle, Creating
<1>3. \A c \in Clients : SeenInv(Idle)
  BY <1>2 DEF SeenInv
<1> QED
  BY <1>1, <1>2, <1>3 DEF SearchInv, TextInv

(* A request goes on or ends, and the documents stay as they are.          *)
LEMMA AskedGoesOn ==
  ASSUME KnowledgeInv, SearchInv, NEW c \in Clients, NEW x, call' = [call EXCEPT ![c] = x],
         UNCHANGED <<docs, calls>>, SeenInv(x),
         x.pc \in Creating => call[c].pc \in Creating /\ x.doc = call[c].doc,
         x # Idle => call[c] # Idle /\ x.before = call[c].before
  PROVE  SearchInv'
<1>1. call'[c] = x /\ \A b \in Clients : b # c => call'[b] = call[b]
  BY DEF KnowledgeInv
<1>2. \A y : SeenInv(y) => SeenInv(y)'
  BY DEF SeenInv
<1>3. \A b \in Clients : SeenInv(call[b])'
  BY <1>1, <1>2 DEF SearchInv
<1>4. ASSUME NEW a \in Clients, NEW b \in Clients, call'[a].pc \in Creating
      PROVE  /\ call'[b] # Idle => call'[a].doc \notin call'[b].before
             /\ call'[b].pc \in Creating /\ b # a => call'[b].doc # call'[a].doc
  <2>1. call[a].pc \in Creating /\ call'[a].doc = call[a].doc
    BY <1>1, <1>4
  <2>2. call'[b] # Idle => call[b] # Idle /\ call'[b].before = call[b].before
    BY <1>1
  <2>3. call'[b].pc \in Creating => call[b].pc \in Creating /\ call'[b].doc = call[b].doc
    BY <1>1
  <2> QED
    BY <2>1, <2>2, <2>3 DEF SearchInv
<1>5. \A d \in Ids : TextInv(docs'[d]) /\ (docs'[d] # NoDocument => d <= calls')
  BY DEF SearchInv
<1> QED
  BY <1>3, <1>4, <1>5 DEF SearchInv

LEMMA AskedEnds ==
  ASSUME KnowledgeInv, SearchInv, NEW c \in Clients, End(c), UNCHANGED <<docs, calls>>
  PROVE  SearchInv'
<1>1. SeenInv(Idle)
  BY DEF SeenInv, Idle, Creating
<1>2. call' = [call EXCEPT ![c] = Idle]
  BY DEF End
<1>3. Idle.pc \notin Creating
  BY DEF Idle, Creating
<1> QED
  BY <1>1, <1>2, <1>3, AskedGoesOn

(* A request goes on about the same document.                              *)
LEMMA AskedGoes ==
  ASSUME KnowledgeInv, SearchInv, NEW c \in Clients, call[c] # Idle, NEW x, call' = [call EXCEPT ![c] = x],
         x.doc = call[c].doc, x.text = call[c].text, x.before = call[c].before,
         x.pc \notin {"vector", "answer"}, x.pc \in Creating => call[c].pc \in Creating,
         UNCHANGED <<docs, calls>>
  PROVE  SearchInv'
<1>1. SeenInv(call[c])
  BY DEF SearchInv
<1>2. SeenInv(x)
  BY <1>1 DEF SeenInv
<1> QED
  BY <1>2, AskedGoesOn

LEMMA GoesAsked ==
  ASSUME KnowledgeInv, SearchInv, NEW c \in Clients, call[c] # Idle, NEW pc, Goes(c, pc),
         pc \notin {"vector", "answer"}, pc \in Creating => call[c].pc \in Creating, UNCHANGED <<docs, calls>>
  PROVE  SearchInv'
<1> DEFINE x == [call[c] EXCEPT !.pc = pc]
<1>1. RequestInv(call[c], originals)
  BY DEF KnowledgeInv
<1>2. x.pc = pc /\ x.doc = call[c].doc /\ x.text = call[c].text /\ x.before = call[c].before
  BY <1>1 DEF RequestInv
<1>3. call' = [call EXCEPT ![c] = x]
  BY DEF Goes
<1> HIDE DEF x
<1> QED
  BY <1>2, <1>3, AskedGoes

(* One document changes, and the request ends.  Who else creates the       *)
(* document has none, and what becomes active was never found inactive.    *)
LEMMA AskedWrites ==
  ASSUME KnowledgeInv, SearchInv, NEW c \in Clients, NEW d \in Ids, NEW doc, End(c), UNCHANGED calls,
         docs' = [docs EXCEPT ![d] = doc], TextInv(doc), doc # NoDocument => d <= calls,
         \A b \in Clients : b # c /\ call[b].pc \in Creating /\ call[b].doc = d => doc = NoDocument,
         doc.active => docs[d].active \/ \A b \in Clients : call[b] # Idle => d \notin call[b].before,
         doc.active \in BOOLEAN
  PROVE  SearchInv'
<1>1. call'[c] = Idle /\ \A b \in Clients : b # c => call'[b] = call[b]
  BY DEF KnowledgeInv, End
<1>2. docs'[d] = doc /\ \A n \in Ids : n # d => docs'[n] = docs[n]
  BY DEF KnowledgeInv
<1>3. Idle.pc = "idle" /\ Idle.pc \notin Creating
  BY DEF Idle, Creating
<1>4. ASSUME NEW b \in Clients
      PROVE  SeenInv(call[b])'
  <2>1. CASE b = c
    BY <1>1, <1>3, <2>1 DEF SeenInv
  <2>2. CASE b # c
    <3>1. call'[b] = call[b] /\ SeenInv(call[b]) /\ RequestInv(call[b], originals)
      BY <1>1, <2>2 DEF SearchInv, KnowledgeInv
    <3> DEFINE x == call[b]
    <3>2. x # Idle => x.doc \in Ids
      BY <3>1 DEF RequestInv
    <3>3. x.pc \in Creating => x # Idle
      BY <1>3
    <3>4. x.pc \in Creating => x.text \in Texts /\ docs'[x.doc] = NoDocument /\ x.doc <= calls'
      BY <1>2, <2>2, <3>1, <3>2, <3>3 DEF SeenInv
    <3>5. x # Idle => \A n \in x.before : n \in Ids /\ n <= calls' /\ ~docs'[n].active
      BY <1>2, <3>1 DEF SeenInv
    <3> QED
      BY <3>1, <3>4, <3>5 DEF SeenInv
  <2> QED
    BY <2>1, <2>2
<1>5. ASSUME NEW a \in Clients, NEW b \in Clients, call'[a].pc \in Creating
      PROVE  /\ call'[b] # Idle => call'[a].doc \notin call'[b].before
             /\ call'[b].pc \in Creating /\ b # a => call'[b].doc # call'[a].doc
  <2>1. a # c /\ call'[a] = call[a]
    BY <1>1, <1>3, <1>5
  <2>2. call'[b] # Idle => b # c /\ call'[b] = call[b]
    BY <1>1
  <2>3. call'[b].pc \in Creating => b # c /\ call'[b] = call[b]
    BY <1>1, <1>3
  <2> QED
    BY <1>5, <2>1, <2>2, <2>3 DEF SearchInv
<1>6. \A n \in Ids : TextInv(docs'[n]) /\ (docs'[n] # NoDocument => n <= calls')
  BY <1>2 DEF SearchInv
<1> QED
  BY <1>4, <1>5, <1>6 DEF SearchInv


LEMMA EmbedsAsked ==
  ASSUME KnowledgeInv, SearchInv, NEW c \in Clients, call[c] # Idle, NEW pc, Embeds(c, pc),
         pc \notin {"vector", "answer"}, pc \in Creating => call[c].pc \in Creating, UNCHANGED <<docs, calls>>
  PROVE  SearchInv'
BY GoesAsked, AskedEnds DEF Embeds

LEMMA CallAsked ==
  ASSUME KnowledgeInv, SearchInv, NEW c \in Clients, Call(c)
  PROVE  SearchInv'
<1> DEFINE op == Plots[plot].ops[calls']
           before == {n \in Ids \ Active : docs[n] # NoDocument}
           Request(d, text) ==
             [pc |-> op, id |-> calls', doc |-> d, text |-> text, done |-> {}, fts |-> <<>>,
              hits |-> <<>>, before |-> before]
<1>1. /\ calls < Len(Plots[plot].ops) /\ calls' = calls + 1 /\ call[c] = Idle
      /\ UNCHANGED <<plot, docs, originals>>
  BY DEF Call
<1>2. Plots[plot] \in [ops : Seq(Ops), texts : SUBSET Texts] /\ Len(Plots[plot].ops) <= MaxCalls /\ MaxCalls \in Nat
  BY KnowledgeAssumption DEF KnowledgeInv
<1>3. calls \in Nat /\ calls' \in Nat /\ calls' \in Ids /\ op \in Ops /\ calls < calls'
  <2>1. Plots[plot].ops \in Seq(Ops) /\ Len(Plots[plot].ops) \in Nat
    BY <1>2
  <2>2. calls \in Nat
    BY DEF KnowledgeInv
  <2>3. calls' \in 1 .. Len(Plots[plot].ops)
    BY <1>1, <2>1, <2>2
  <2> QED
    BY <1>1, <1>2, <2>1, <2>2, <2>3 DEF Ids
<1> DEFINE Called(d, text) == call' = [call EXCEPT ![c] = Request(d, text)]
                              /\ (op \in Creating => d = calls' /\ text \in Texts)
<1>4. \E d \in Ids : \E text : Called(d, text)
  <2>1. CASE op = "create"
    <3>1. \E r \in {Request(calls', text) : text \in Plots[plot].texts} : call' = [call EXCEPT ![c] = r]
      BY <2>1 DEF Call
    <3>2. Plots[plot].texts \subseteq Texts
      BY <1>2
    <3> QED
      BY <1>3, <3>1, <3>2
  <2>2. CASE op = "search"
    <3>1. \E r \in {Request(calls', <<>>)} : call' = [call EXCEPT ![c] = r]
      BY <2>2 DEF Call
    <3> QED
      BY <1>3, <2>2, <3>1 DEF Creating
  <2>3. CASE op \notin {"create", "search"}
    <3>1. \E r \in {Request(d, <<>>) : d \in {n \in Ids : docs[n] # NoDocument}} : call' = [call EXCEPT ![c] = r]
      BY <2>3 DEF Call
    <3>2. op \notin Creating
      BY <1>3, <2>3 DEF Creating, Ops
    <3> QED
      BY <3>1, <3>2
  <2> QED
    BY <2>1, <2>2, <2>3
<1> HIDE DEF Called
<1>5. PICK d \in Ids : \E text : Called(d, text)
  BY <1>4
<1>6. PICK text : Called(d, text)
  BY <1>5
<1> USE DEF Called
<1> DEFINE x == Request(d, text)
<1>7. x.pc = op /\ x.doc = d /\ x.text = text /\ x.before = before
  OBVIOUS
<1>8. call'[c] = x /\ \A b \in Clients : b # c => call'[b] = call[b]
  BY <1>6 DEF KnowledgeInv
<1>9. \A n \in before : n \in Ids /\ n <= calls /\ ~docs[n].active
  BY DEF SearchInv, Active
<1>10. op # "vector" /\ op # "answer"
  BY <1>3 DEF Ops
<1>11. docs[calls'] = NoDocument
  <2>1. ~(calls' <= calls)
    BY <1>3
  <2> QED
    BY <1>3, <2>1 DEF SearchInv
<1> HIDE DEF x, before, op
<1>12. ASSUME NEW b \in Clients
       PROVE  SeenInv(call[b])'
  <2>1. CASE b = c
    <3>1. \A n \in before : n \in Ids /\ n <= calls' /\ ~docs'[n].active
      BY <1>1, <1>3, <1>9 DEF Ids
    <3>2. x.pc \in Creating => x.text \in Texts /\ docs'[x.doc] = NoDocument /\ x.doc <= calls'
      BY <1>1, <1>3, <1>6, <1>7, <1>11
    <3> QED
      BY <1>7, <1>8, <1>10, <2>1, <3>1, <3>2 DEF SeenInv
  <2>2. CASE b # c
    <3>1. call'[b] = call[b] /\ SeenInv(call[b])
      BY <1>8, <2>2 DEF SearchInv
    <3>2. RequestInv(call[b], originals)
      BY DEF KnowledgeInv
    <3>3. \A n \in Ids : n <= calls => n <= calls'
      BY <1>3 DEF Ids
    <3>4. call[b].pc \in Creating => call[b].doc \in Ids
      BY <3>2 DEF RequestInv, Idle, Creating
    <3> QED
      BY <1>1, <3>1, <3>3, <3>4 DEF SeenInv
  <2> QED
    BY <2>1, <2>2
<1>13. ASSUME NEW a \in Clients, NEW b \in Clients, call'[a].pc \in Creating
       PROVE  /\ call'[b] # Idle => call'[a].doc \notin call'[b].before
              /\ call'[b].pc \in Creating /\ b # a => call'[b].doc # call'[a].doc
  <2>1. \A e \in Clients : SeenInv(call[e])
    BY DEF SearchInv
  <2>2. ~(calls' <= calls)
    BY <1>3
  <2>3. CASE a = c
    <3>1. call'[a].doc = calls'
      BY <1>6, <1>7, <1>8, <1>13, <2>3
    <3>2. calls' \notin before
      BY <1>9, <2>2
    <3>3. b # c /\ call[b] # Idle => calls' \notin call[b].before
      BY <2>1, <2>2 DEF SeenInv
    <3>4. b # c /\ call[b].pc \in Creating => call[b].doc # calls'
      BY <2>1, <2>2 DEF SeenInv
    <3> QED
      BY <1>7, <1>8, <2>3, <3>1, <3>2, <3>3, <3>4
  <2>4. CASE a # c
    <3>1. call'[a] = call[a] /\ call[a].pc \in Creating
      BY <1>8, <1>13, <2>4
    <3>2. docs[call[a].doc] = NoDocument /\ call[a].doc <= calls
      BY <2>1, <3>1 DEF SeenInv
    <3>3. call[a].doc \notin before
      BY <3>2 DEF before
    <3>4. call[a].doc # calls'
      BY <2>2, <3>2
    <3>5. CASE b = c
      BY <1>6, <1>7, <1>8, <3>1, <3>3, <3>4, <3>5
    <3>6. CASE b # c
      BY <1>8, <3>1, <3>6 DEF SearchInv
    <3> QED
      BY <3>5, <3>6
  <2> QED
    BY <2>3, <2>4
<1>14. \A n \in Ids : TextInv(docs'[n]) /\ (docs'[n] # NoDocument => n <= calls')
  BY <1>1, <1>3 DEF SearchInv, Ids
<1> QED
  BY <1>12, <1>13, <1>14 DEF SearchInv

LEMMA CreateAsked ==
  ASSUME KnowledgeInv, SearchInv, NEW c \in Clients, Extract(c) \/ Deduplicate(c) \/ Store(c)
  PROVE  SearchInv'
<1>1. call[c] # Idle /\ call[c].pc \in Creating
  BY DEF Extract, Deduplicate, Store, Idle, Creating
<1>2. UNCHANGED <<docs, calls>>
  BY DEF Extract, Deduplicate, Store
<1>3. \/ End(c) \/ Embeds(c, "deduplicate") \/ Goes(c, "store") \/ Goes(c, "commit")
  BY DEF Extract, Deduplicate, Store
<1> QED
  BY <1>1, <1>2, <1>3, AskedEnds, EmbedsAsked, GoesAsked

LEMMA CommitDocumentAsked ==
  ASSUME KnowledgeInv, SearchInv, NEW c \in Clients, CommitDocument(c)
  PROVE  SearchInv'
<1> DEFINE chunks == ChunkText(call[c].text)
           rows == [i \in DOMAIN chunks |-> [words |-> chunks[i], run |-> call[c].id]]
           doc == [text |-> call[c].text, active |-> rows # <<>>, chunks |-> rows]
           d == call[c].doc
<1>1. d \in Ids /\ call[c].pc \in Creating /\ call[c].text \in Texts /\ d <= calls
  <2>1. RequestInv(call[c], originals) /\ call[c].pc = "commit" /\ SeenInv(call[c])
    BY DEF KnowledgeInv, CommitDocument, SearchInv
  <2> QED
    BY <2>1 DEF RequestInv, Idle, Creating, SeenInv
<1>2. docs' = [docs EXCEPT ![d] = doc] /\ End(c) /\ UNCHANGED <<plot, originals, calls>>
  BY DEF CommitDocument
<1>3. WordsIn(rows) = chunks
  <2>1. chunks \in Pieces
    BY <1>1, ChunksKeepText
  <2> HIDE DEF chunks
  <2>2. chunks = [i \in DOMAIN chunks |-> chunks[i]]
    BY <2>1 DEF Pieces
  <2> QED
    BY <2>2 DEF WordsIn
<1> HIDE DEF rows
<1>4. doc.active = (rows # <<>>) /\ doc.chunks = rows /\ doc.active \in BOOLEAN /\ doc.text = call[c].text
  OBVIOUS
<1> HIDE DEF doc
<1>5. TextInv(doc)
  BY <1>1, <1>3, <1>4 DEF TextInv
<1>6. \A b \in Clients : b # c /\ call[b].pc \in Creating => call[b].doc # d
  BY <1>1 DEF SearchInv
<1>7. \A b \in Clients : call[b] # Idle => d \notin call[b].before
  BY <1>1 DEF SearchInv
<1> HIDE DEF d
<1> QED
  BY <1>1, <1>2, <1>4, <1>5, <1>6, <1>7, AskedWrites

LEMMA RemoveAsked ==
  ASSUME KnowledgeInv, SearchInv, NEW c \in Clients, RemoveDocument(c)
  PROVE  SearchInv'
<1> DEFINE d == call[c].doc
<1>1. d \in Ids
  <2>1. RequestInv(call[c], originals) /\ call[c].pc # "idle"
    BY DEF KnowledgeInv, RemoveDocument
  <2> QED
    BY <2>1 DEF RequestInv, Idle
<1>2. End(c) /\ UNCHANGED <<plot, originals, calls>>
  BY DEF RemoveDocument
<1>3. DocumentInv(d, docs[d], originals) /\ TextInv(docs[d]) /\ (docs[d] # NoDocument => d <= calls)
  BY <1>1 DEF KnowledgeInv, SearchInv
<1>4. \A b \in Clients : call[b].pc \in Creating /\ call[b].doc = d => docs[d] = NoDocument
  BY DEF SearchInv, SeenInv
<1>5. CASE docs' = docs
  BY <1>2, <1>5, AskedEnds
<1>6. CASE docs' = [docs EXCEPT ![d] = NoDocument]
  <2>1. TextInv(NoDocument) /\ NoDocument.active = FALSE
    BY DEF TextInv, NoDocument
  <2> HIDE DEF d
  <2> QED
    BY <1>1, <1>2, <1>6, <2>1, AskedWrites
<1>7. CASE docs[d] # NoDocument /\ docs' = [docs EXCEPT ![d].active = FALSE]
  <2> DEFINE doc == [docs[d] EXCEPT !.active = FALSE]
  <2>1. docs' = [docs EXCEPT ![d] = doc]
    BY <1>7
  <2>2. doc.active = FALSE /\ doc.chunks = docs[d].chunks /\ doc.text = docs[d].text
    <3> HIDE DEF d
    <3>1. PICK text, active, chunks : docs[d] = [text |-> text, active |-> active, chunks |-> chunks]
      BY <1>3 DEF DocumentInv
    <3>2. \A b : [docs[d] EXCEPT !.active = b] = [text |-> text, active |-> b, chunks |-> chunks]
      BY <3>1
    <3>3. doc = [text |-> text, active |-> FALSE, chunks |-> chunks]
      BY <3>2
    <3>4. docs[d].chunks = chunks /\ docs[d].text = text
      BY <3>1
    <3> HIDE DEF doc
    <3> QED
      BY <3>3, <3>4
  <2> HIDE DEF doc, d
  <2>3. TextInv(doc)
    BY <1>3, <1>7, <2>2 DEF TextInv
  <2>4. \A b \in Clients : b # c /\ call[b].pc \in Creating /\ call[b].doc = d => doc = NoDocument
    BY <1>4, <1>7
  <2> QED
    BY <1>1, <1>2, <1>3, <1>7, <2>1, <2>2, <2>3, <2>4, AskedWrites
<1> QED
  BY <1>5, <1>6, <1>7 DEF RemoveDocument

LEMMA ReindexAsked ==
  ASSUME KnowledgeInv, SearchInv, NEW c \in Clients, ReadChunks(c) \/ Update(c)
  PROVE  SearchInv'
<1>1. call[c] # Idle
  BY DEF ReadChunks, Update, Idle
<1>2. CASE ReadChunks(c)
  <2>1. UNCHANGED <<docs, calls>> /\ (End(c) \/ Embeds(c, "update"))
    BY <1>2 DEF ReadChunks
  <2>2. "update" \notin Creating
    BY DEF Creating
  <2> QED
    BY <1>1, <2>1, <2>2, AskedEnds, EmbedsAsked
<1>3. CASE Update(c)
  <2>1. UNCHANGED <<docs, calls>> /\ call[c].pc = "update"
    BY <1>3 DEF Update
  <2>2. CASE End(c)
    BY <2>1, <2>2, AskedEnds
  <2>3. CASE call' = [call EXCEPT ![c].done = call[c].done \cup {Min(Rest(c))}]
    <3> DEFINE x == [call[c] EXCEPT !.done = call[c].done \cup {Min(Rest(c))}]
    <3>1. call' = [call EXCEPT ![c] = x]
      BY <2>3
    <3>2. RequestInv(call[c], originals)
      BY DEF KnowledgeInv
    <3>3. x.pc = call[c].pc /\ x.doc = call[c].doc /\ x.text = call[c].text /\ x.before = call[c].before
      BY <1>1, <3>2 DEF RequestInv
    <3> HIDE DEF x
    <3> QED
      BY <1>1, <2>1, <3>1, <3>3, AskedGoes
  <2>4. call' = [call EXCEPT ![c].done = call[c].done \cup {Min(Rest(c))}] \/ End(c)
    BY <1>3 DEF Update, KnowledgeInv
  <2> QED
    BY <2>2, <2>3, <2>4
<1> QED
  BY <1>2, <1>3

LEMMA CommitChunksAsked ==
  ASSUME KnowledgeInv, SearchInv, NEW c \in Clients, CommitChunks(c)
  PROVE  SearchInv'
<1> DEFINE d == call[c].doc
           old == docs[d].chunks
           new == [i \in DOMAIN old |-> IF i \in call[c].done THEN [old[i] EXCEPT !.run = call[c].id] ELSE old[i]]
           doc == [docs[d] EXCEPT !.chunks = new]
<1>1. d \in Ids
  <2>1. RequestInv(call[c], originals) /\ call[c].pc # "idle"
    BY DEF KnowledgeInv, CommitChunks
  <2> QED
    BY <2>1 DEF RequestInv, Idle
<1>2. End(c) /\ UNCHANGED <<plot, originals, calls>>
  BY DEF CommitChunks
<1>3. docs' = [docs EXCEPT ![d] = doc]
  BY <1>1 DEF CommitChunks, KnowledgeInv
<1>4. DocumentInv(d, docs[d], originals) /\ TextInv(docs[d]) /\ (docs[d] # NoDocument => d <= calls)
  BY <1>1 DEF KnowledgeInv, SearchInv
<1>5. PICK t, a, k : docs[d] = [text |-> t, active |-> a, chunks |-> k]
  BY <1>4, Zenon DEF DocumentInv
<1>6. doc = [text |-> t, active |-> a, chunks |-> new] /\ old = k /\ docs[d].active = a /\ docs[d].text = t
  <2> HIDE DEF d, new
  <2> QED
    BY <1>5
<1>7. Rows(old)
  BY <1>4 DEF DocumentInv
<1>8. WordsIn(new) = WordsIn(old)
  <2>1. ASSUME NEW i \in DOMAIN old
        PROVE  new[i].words = old[i].words
    <3>1. old[i] = [words |-> old[i].words, run |-> old[i].run]
      BY <1>7 DEF Rows
    <3> HIDE DEF old
    <3>2. [old[i] EXCEPT !.run = call[c].id].words = old[i].words
      BY <3>1
    <3> QED
      BY <3>2
  <2>2. DOMAIN new = DOMAIN old
    OBVIOUS
  <2> HIDE DEF old, new
  <2> QED
    BY <2>1, <2>2 DEF WordsIn
<1>9. docs[d] = NoDocument => doc = NoDocument
  <2> SUFFICES ASSUME docs[d] = NoDocument PROVE doc = NoDocument
    OBVIOUS
  <2>1. t = <<>> /\ a = FALSE /\ k = <<>>
    BY <1>5 DEF NoDocument
  <2>2. DOMAIN old = {}
    BY <1>6, <2>1
  <2>3. new = <<>>
    <3> HIDE DEF old
    <3>1. DOMAIN new = {} /\ new = [i \in {} |-> new[i]]
      BY <2>2
    <3> HIDE DEF new
    <3> QED
      BY <3>1
  <2> HIDE DEF doc, d, new, old
  <2> QED
    BY <1>6, <2>1, <2>3 DEF NoDocument
<1> HIDE DEF new, old
<1>10. doc.text = t /\ doc.chunks = new /\ doc.active = a
  <2> HIDE DEF doc, d
  <2> QED
    BY <1>6
<1>11. TextInv(doc)
  <2>1. CASE docs[d] = NoDocument
    BY <1>9, <2>1 DEF TextInv
  <2>2. CASE docs[d] # NoDocument
    BY <1>4, <1>6, <1>8, <1>10, <2>2 DEF TextInv, old
  <2> QED
    BY <2>1, <2>2
<1>12. doc.active \in BOOLEAN /\ doc.active = docs[d].active
  BY <1>4, <1>6, <1>10 DEF DocumentInv
<1>13. \A b \in Clients : call[b].pc \in Creating /\ call[b].doc = d => doc = NoDocument
  BY <1>9 DEF SearchInv, SeenInv
<1> HIDE DEF doc, d
<1> QED
  BY <1>1, <1>2, <1>3, <1>4, <1>9, <1>11, <1>12, <1>13, AskedWrites


-------------------------------------------------------------------------------
(* What is fused.                                                          *)

(* A finite set with a strict total order can be written in this order.    *)
LEMMA Sortable ==
  ASSUME NEW S, IsFiniteSet(S), NEW R, \A x \in S : <<x, x>> \notin R,
         \A x, y \in S : x # y => <<x, y>> \in R \/ <<y, x>> \in R,
         \A x, y, z \in S : <<x, y>> \in R /\ <<y, z>> \in R => <<x, z>> \in R
  PROVE  \E s \in SetToSeqs(S) : \A i, j \in DOMAIN s : i < j => <<s[i], s[j]>> \in R
<1> DEFINE N == Cardinality(S)
           below(x) == {y \in S : <<y, x>> \in R}
           q == [x \in S |-> Cardinality(below(x)) + 1]
<1>1. N \in Nat
  BY FS_CardinalityType
<1>2. ASSUME NEW x \in S
      PROVE  IsFiniteSet(below(x)) /\ Cardinality(below(x)) \in Nat /\ Cardinality(below(x)) < N
  <2>1. below(x) \in SUBSET S /\ below(x) # S
    OBVIOUS
  <2> DEFINE B == below(x)
  <2> HIDE DEF B
  <2>2. IsFiniteSet(B) /\ Cardinality(B) <= N /\ Cardinality(B) # N
    BY <2>1, FS_Subset DEF B
  <2>3. Cardinality(B) \in Nat
    BY <2>2, FS_CardinalityType
  <2> QED
    BY <1>1, <2>2, <2>3 DEF B
<1>3. ASSUME NEW x \in S, NEW y \in S, <<x, y>> \in R
      PROVE  Cardinality(below(x)) < Cardinality(below(y))
  <2>1. below(x) \in SUBSET below(y) /\ x \in below(y) /\ x \notin below(x)
    BY <1>3
  <2> DEFINE B == below(x)
             C == below(y)
  <2>2. IsFiniteSet(C) /\ Cardinality(B) \in Nat /\ Cardinality(C) \in Nat
    BY <1>2
  <2> HIDE DEF B, C
  <2>3. B \in SUBSET C /\ B # C
    BY <2>1 DEF B, C
  <2>4. Cardinality(B) <= Cardinality(C) /\ Cardinality(B) # Cardinality(C)
    BY <2>2, <2>3, FS_Subset
  <2>5. Cardinality(B) < Cardinality(C)
    BY <2>2, <2>4
  <2> QED
    BY <2>5 DEF B, C
<1>4. \A x \in S : q[x] = Cardinality(below(x)) + 1
  OBVIOUS
<1> HIDE DEF below
<1>5. q \in [S -> 1 .. N]
  BY <1>1, <1>2
<1> HIDE DEF q
<1>6. \A x, y \in S : <<x, y>> \in R => q[x] < q[y]
  <2> SUFFICES ASSUME NEW x \in S, NEW y \in S, <<x, y>> \in R PROVE q[x] < q[y]
    OBVIOUS
  <2>1. Cardinality(below(x)) < Cardinality(below(y)) /\ Cardinality(below(x)) \in Nat /\ Cardinality(below(y)) \in Nat
    BY <1>2, <1>3
  <2> QED
    BY <1>4, <2>1
<1>7. \A x \in S : q[x] \in Nat /\ q[x] \in 1 .. N
  BY <1>1, <1>5
<1>8. q \in Injection(S, 1 .. N)
  <2>1. ASSUME NEW x \in S, NEW y \in S, q[x] = q[y], x # y PROVE FALSE
    <3>1. q[x] < q[y] \/ q[y] < q[x]
      BY <1>6, <2>1
    <3> QED
      BY <1>1, <1>7, <2>1, <3>1
  <2>2. DOMAIN q = S
    BY <1>5
  <2> QED
    BY <1>5, <2>1, <2>2 DEF Injection, IsInjective
<1>9. \A k \in 1 .. N : \E x \in S : q[x] = k
  <2> HIDE DEF N
  <2>1. IsFiniteSet(1 .. N) /\ Cardinality(1 .. N) = N
    BY <1>1, FS_Interval
  <2>2. q \in Surjection(S, 1 .. N)
    BY <1>8, <2>1, FS_Injection DEF N
  <2> QED
    BY <2>2 DEF Surjection
<1> DEFINE s == [k \in 1 .. N |-> CHOOSE x \in S : q[x] = k]
<1>10. \A k \in 1 .. N : s[k] \in S /\ q[s[k]] = k
  BY <1>9
<1>11. s \in [1 .. N -> S] /\ DOMAIN s = 1 .. N
  BY <1>10
<1> HIDE DEF s, N
<1>12. \A i, j \in 1 .. N : i # j => s[i] # s[j]
  BY <1>10
<1>13. s \in SetToSeqs(S)
  BY <1>11, <1>12 DEF SetToSeqs, N
<1>14. ASSUME NEW i \in DOMAIN s, NEW j \in DOMAIN s, i < j PROVE <<s[i], s[j]>> \in R
  <2>1. i \in 1 .. N /\ j \in 1 .. N /\ s[i] \in S /\ s[j] \in S /\ q[s[i]] = i /\ q[s[j]] = j
    BY <1>10, <1>11
  <2>2. s[i] # s[j]
    BY <1>14, <2>1
  <2>3. <<s[j], s[i]>> \notin R
    <3> SUFFICES ASSUME <<s[j], s[i]>> \in R PROVE FALSE
      OBVIOUS
    <3>1. j < i
      BY <1>6, <2>1
    <3> QED
      BY <1>1, <1>14, <2>1, <3>1
  <2> QED
    BY <2>1, <2>2, <2>3
<1> QED
  BY <1>13, <1>14

(* Fractions are compared by multiplying crosswise.                        *)
LEMMA Multiplied ==
  ASSUME NEW x \in Nat, NEW y \in Nat, NEW z \in Nat
  PROVE  /\ x <= y => x * z <= y * z
         /\ x < y /\ z > 0 => x * z < y * z
<1>1. ASSUME NEW k \in Nat PROVE (x + k) * z = x * z + k * z /\ k * z >= 0 /\ (k > 0 /\ z > 0 => k * z > 0)
  OBVIOUS
<1>2. x <= y => y - x \in Nat /\ x + (y - x) = y /\ (x < y => y - x > 0)
  OBVIOUS
<1>3. x * z \in Nat /\ y * z \in Nat
  OBVIOUS
<1>4. ASSUME x <= y
      PROVE  x * z <= y * z /\ (x < y /\ z > 0 => x * z < y * z)
  <2> DEFINE k == y - x
  <2>1. k \in Nat /\ x + k = y /\ (x < y => k > 0)
    BY <1>2, <1>4
  <2> HIDE DEF k
  <2>2. y * z = x * z + k * z /\ k * z >= 0 /\ (k > 0 /\ z > 0 => k * z > 0) /\ k * z \in Nat
    BY <1>1, <2>1
  <2> DEFINE a == x * z
             b == y * z
             e == k * z
  <2>3. a \in Nat /\ b \in Nat /\ e \in Nat /\ b = a + e /\ (k > 0 /\ z > 0 => e > 0)
    BY <1>3, <2>2
  <2> HIDE DEF a, b, e
  <2>4. a <= b /\ (x < y /\ z > 0 => a < b)
    BY <2>1, <2>3
  <2> QED
    BY <2>4 DEF a, b
<1> QED
  BY <1>4

LEMMA Crosswise ==
  ASSUME NEW a \in Nat, NEW b \in Nat, NEW c \in Nat, NEW d \in Nat, NEW e \in Nat, NEW f \in Nat,
         b > 0, d > 0, f > 0
  PROVE  /\ a * d >= c * b /\ c * f >= e * d => a * f >= e * b
         /\ a * d > c * b /\ c * f >= e * d => a * f > e * b
         /\ a * d >= c * b /\ c * f > e * d => a * f > e * b
<1> DEFINE ad == a * d
           cb == c * b
           cf == c * f
           ed == e * d
           af == a * f
           eb == e * b
<1>1. {ad, cb, cf, ed, af, eb} \subseteq Nat
  OBVIOUS
<1>2. ad * f = af * d /\ cb * f = cf * b /\ ed * b = eb * d
  OBVIOUS
<1> HIDE DEF ad, cb, cf, ed, af, eb
<1>3. {ad * f, cb * f, cf * b, ed * b, af * d, eb * d} \subseteq Nat
  BY <1>1
<1>4. /\ cb <= ad => cb * f <= ad * f
      /\ cb < ad => cb * f < ad * f
  BY <1>1, Multiplied
<1>5. /\ ed <= cf => ed * b <= cf * b
      /\ ed < cf => ed * b < cf * b
  BY <1>1, Multiplied
<1>6. /\ af <= eb => af * d <= eb * d
      /\ af < eb => af * d < eb * d
  BY <1>1, Multiplied
<1> DEFINE p == ad * f
           q == cb * f
           r == ed * b
<1>7. /\ p \in Nat /\ q \in Nat /\ r \in Nat
      /\ (cb <= ad => q <= p) /\ (cb < ad => q < p)
      /\ (ed <= cf => r <= q) /\ (ed < cf => r < q)
      /\ (af <= eb => p <= r) /\ (af < eb => p < r)
  BY <1>2, <1>3, <1>4, <1>5, <1>6
<1> HIDE DEF p, q, r
<1>8. /\ ad >= cb /\ cf >= ed => af >= eb
      /\ ad > cb /\ cf >= ed => af > eb
      /\ ad >= cb /\ cf > ed => af > eb
  BY <1>1, <1>7
<1> QED
  BY <1>8 DEF ad, cb, cf, ed, af, eb


(* The share a list has in the score of a chunk, and the score.            *)
LEMMA ShareFacts ==
  ASSUME NEW list, NEW without, Listed(list, without), NEW x
  PROVE  Share(list, x)[1] \in Nat /\ Share(list, x)[2] \in Nat /\ Share(list, x)[2] > 0
<1>1. RrfK \in Nat
  BY KnowledgeAssumption
<1>2. CASE x \in ToSet(list)
  <2>1. PICK p \in 1 .. Len(list) : list[p] = x
    BY <1>2 DEF ToSet, Listed
  <2>2. FirstAt(list, x) \in 1 .. p
    BY <2>1, FirstAtFacts DEF Listed
  <2>3. Share(list, x) = <<1, RrfK + FirstAt(list, x)>>
    BY <1>2 DEF Share, FirstAt
  <2>4. FirstAt(list, x) \in Nat /\ FirstAt(list, x) > 0
    BY <2>2 DEF Listed
  <2> QED
    BY <1>1, <2>3, <2>4
<1>3. CASE x \notin ToSet(list)
  BY <1>3 DEF Share
<1> QED
  BY <1>2, <1>3

LEMMA ScoreFacts ==
  ASSUME NEW fts, NEW vector, NEW without, Listed(fts, without), Listed(vector, without), NEW x
  PROVE  Score(fts, vector, x)[1] \in Nat /\ Score(fts, vector, x)[2] \in Nat /\ Score(fts, vector, x)[2] > 0
<1> DEFINE a == Share(fts, x)[1]
           b == Share(fts, x)[2]
           c == Share(vector, x)[1]
           d == Share(vector, x)[2]
<1>1. a \in Nat /\ b \in Nat /\ b > 0 /\ c \in Nat /\ d \in Nat /\ d > 0
  BY ShareFacts
<1>2. Score(fts, vector, x) = <<a * d + c * b, b * d>>
  BY DEF Score
<1> HIDE DEF a, b, c, d
<1>3. a * d \in Nat /\ c * b \in Nat /\ b * d \in Nat /\ 0 * d = 0
  BY <1>1
<1>4. b * d > 0
  BY <1>1, <1>3, Multiplied
<1>5. a * d + c * b \in Nat
  BY <1>3
<1> QED
  BY <1>2, <1>3, <1>4, <1>5

(* The place of a chunk in one list after the other.                       *)
Place(fts, vector, x) ==
  IF x \in ToSet(fts) THEN FirstAt(fts, x) ELSE Len(fts) + FirstAt(vector, x)

LEMMA PlaceFacts ==
  ASSUME NEW fts, NEW vector, NEW without, Listed(fts, without), Listed(vector, without),
         NEW x \in ToSet(fts) \cup ToSet(vector), NEW y \in ToSet(fts) \cup ToSet(vector)
  PROVE  /\ Place(fts, vector, x) \in Nat
         /\ Place(fts, vector, x) = Place(fts, vector, y) => x = y
<1>1. ASSUME NEW list, Listed(list, without), NEW z \in ToSet(list)
      PROVE  FirstAt(list, z) \in 1 .. Len(list) /\ list[FirstAt(list, z)] = z
  <2>1. Len(list) \in Nat
    BY <1>1 DEF Listed
  <2>2. PICK p \in 1 .. Len(list) : list[p] = z
    BY <1>1 DEF ToSet, Listed
  <2>3. FirstAt(list, z) \in 1 .. p /\ list[FirstAt(list, z)] = z
    BY <2>1, <2>2, FirstAtFacts
  <2> QED
    BY <2>1, <2>3
<1>2. Len(fts) \in Nat /\ Len(vector) \in Nat
  BY DEF Listed
<1>3. ASSUME NEW z \in ToSet(fts) \cup ToSet(vector)
      PROVE  \/ /\ Place(fts, vector, z) \in 1 .. Len(fts)
                /\ fts[Place(fts, vector, z)] = z
             \/ /\ Place(fts, vector, z) \in Nat /\ Place(fts, vector, z) > Len(fts)
                /\ vector[Place(fts, vector, z) - Len(fts)] = z
  <2>1. CASE z \in ToSet(fts)
    BY <1>1, <2>1 DEF Place
  <2>2. CASE z \notin ToSet(fts)
    <3> DEFINE p == FirstAt(vector, z)
    <3>1. p \in 1 .. Len(vector) /\ vector[p] = z /\ Place(fts, vector, z) = Len(fts) + p
      BY <1>1, <2>2 DEF Place
    <3> HIDE DEF p
    <3>2. p \in Nat /\ p > 0 /\ (Len(fts) + p) - Len(fts) = p /\ Len(fts) + p \in Nat /\ Len(fts) + p > Len(fts)
      BY <1>2, <3>1
    <3> QED
      BY <3>1, <3>2
  <2> QED
    BY <2>1, <2>2
<1> DEFINE p == Place(fts, vector, x)
           q == Place(fts, vector, y)
<1>4. /\ \/ p \in 1 .. Len(fts) /\ fts[p] = x
         \/ p \in Nat /\ p > Len(fts) /\ vector[p - Len(fts)] = x
      /\ \/ q \in 1 .. Len(fts) /\ fts[q] = y
         \/ q \in Nat /\ q > Len(fts) /\ vector[q - Len(fts)] = y
  BY <1>3
<1> HIDE DEF p, q
<1>5. p \in Nat /\ (p = q => x = y)
  BY <1>2, <1>4
<1> QED
  BY <1>5 DEF p, q

(* Chunks are ranked by one order, and the best of them are the answer.    *)
LEMMA FuseFacts ==
  ASSUME NEW fts, NEW vector, NEW without, Listed(fts, without), Listed(vector, without)
  PROVE  Listed(Fuse(fts, vector), without) /\ Len(Fuse(fts, vector)) <= TopK
<1> DEFINE S == ToSet(fts) \cup ToSet(vector)
           n(x) == Score(fts, vector, x)[1]
           m(x) == Score(fts, vector, x)[2]
           at(x) == Place(fts, vector, x)
           R == {p \in S \X S : Before(fts, vector, p[1], p[2])}
<1>1. ASSUME NEW x, NEW y
      PROVE  Before(fts, vector, x, y) <=> \/ n(x) * m(y) > n(y) * m(x)
                                           \/ n(x) * m(y) = n(y) * m(x) /\ at(x) < at(y)
  BY DEF Before, Place, FirstAt
<1>2. \A x \in S : /\ n(x) \in Nat /\ m(x) \in Nat /\ m(x) > 0 /\ at(x) \in Nat
                   /\ \A y \in S : at(x) = at(y) => x = y
  BY ScoreFacts, PlaceFacts
<1>3. IsFiniteSet(S)
  <2>1. ASSUME NEW list, Listed(list, without) PROVE IsFiniteSet(ToSet(list))
    <3>1. Len(list) \in Nat
      BY <2>1 DEF Listed
    <3>2. IsFiniteSet(1 .. Len(list))
      BY <3>1, FS_Interval
    <3> DEFINE h == [i \in 1 .. Len(list) |-> list[i]]
    <3>3. h \in Surjection(1 .. Len(list), ToSet(list))
      BY <2>1 DEF Listed, ToSet, Surjection
    <3> HIDE DEF h
    <3> QED
      BY <3>2, <3>3, FS_Surjection
  <2>2. IsFiniteSet(ToSet(fts)) /\ IsFiniteSet(ToSet(vector))
    BY <2>1
  <2> QED
    BY <2>2, FS_Union
<1> HIDE DEF n, m, at, S
<1>4. \A x, y \in S : <<x, y>> \in R <=> \/ n(x) * m(y) > n(y) * m(x)
                                         \/ n(x) * m(y) = n(y) * m(x) /\ at(x) < at(y)
  BY <1>1
<1> HIDE DEF R
<1>5. \A x \in S : <<x, x>> \notin R
  <2> SUFFICES ASSUME NEW x \in S PROVE <<x, x>> \notin R
    OBVIOUS
  <2> DEFINE a == n(x) * m(x)
             b == at(x)
  <2>1. a \in Nat /\ b \in Nat
    BY <1>2
  <2>2. <<x, x>> \in R <=> a > a \/ (a = a /\ b < b)
    BY <1>4
  <2> HIDE DEF a, b
  <2> QED
    BY <2>1, <2>2
<1>6. \A x, y \in S : x # y => <<x, y>> \in R \/ <<y, x>> \in R
  <2> SUFFICES ASSUME NEW x \in S, NEW y \in S, x # y PROVE <<x, y>> \in R \/ <<y, x>> \in R
    OBVIOUS
  <2> DEFINE a == n(x) * m(y)
             b == n(y) * m(x)
             p == at(x)
             q == at(y)
  <2>1. a \in Nat /\ b \in Nat /\ p \in Nat /\ q \in Nat /\ p # q
    BY <1>2
  <2>2. (<<x, y>> \in R <=> a > b \/ (a = b /\ p < q)) /\ (<<y, x>> \in R <=> b > a \/ (b = a /\ q < p))
    BY <1>4
  <2> HIDE DEF a, b, p, q
  <2> QED
    BY <2>1, <2>2
<1>7. \A x, y, z \in S : <<x, y>> \in R /\ <<y, z>> \in R => <<x, z>> \in R
  <2> SUFFICES ASSUME NEW x \in S, NEW y \in S, NEW z \in S, <<x, y>> \in R, <<y, z>> \in R
               PROVE  <<x, z>> \in R
    OBVIOUS
  <2>1. /\ n(x) \in Nat /\ n(y) \in Nat /\ n(z) \in Nat /\ m(x) \in Nat /\ m(y) \in Nat /\ m(z) \in Nat
        /\ m(x) > 0 /\ m(y) > 0 /\ m(z) > 0 /\ at(x) \in Nat /\ at(y) \in Nat /\ at(z) \in Nat
    BY <1>2
  <2> DEFINE xy == n(x) * m(y)
             yx == n(y) * m(x)
             yz == n(y) * m(z)
             zy == n(z) * m(y)
             xz == n(x) * m(z)
             zx == n(z) * m(x)
             p == at(x)
             q == at(y)
             r == at(z)
  <2>2. /\ xy >= yx /\ yz >= zy => xz >= zx
        /\ xy > yx /\ yz >= zy => xz > zx
        /\ xy >= yx /\ yz > zy => xz > zx
    <3> DEFINE a == n(x)
               b == m(x)
               c == n(y)
               d == m(y)
               e == n(z)
               f == m(z)
    <3>1. a \in Nat /\ b \in Nat /\ c \in Nat /\ d \in Nat /\ e \in Nat /\ f \in Nat /\ b > 0 /\ d > 0 /\ f > 0
      BY <2>1
    <3> HIDE DEF a, b, c, d, e, f
    <3>2. /\ a * d >= c * b /\ c * f >= e * d => a * f >= e * b
          /\ a * d > c * b /\ c * f >= e * d => a * f > e * b
          /\ a * d >= c * b /\ c * f > e * d => a * f > e * b
      BY <3>1, Crosswise
    <3> QED
      BY <3>2 DEF a, b, c, d, e, f
  <2>3. {xy, yx, yz, zy, xz, zx, p, q, r} \subseteq Nat
    BY <2>1
  <2>4. /\ xy > yx \/ (xy = yx /\ p < q)
        /\ yz > zy \/ (yz = zy /\ q < r)
        /\ <<x, z>> \in R <=> xz > zx \/ (xz = zx /\ p < r)
    BY <1>4
  <2> HIDE DEF xy, yx, yz, zy, xz, zx, p, q, r
  <2> QED
    BY <2>2, <2>3, <2>4
<1> DEFINE sorted(s) == \A i, j \in DOMAIN s : i < j => Before(fts, vector, s[i], s[j])
           fused == CHOOSE s \in SetToSeqs(S) : sorted(s)
           top == IF Len(fused) < TopK THEN Len(fused) ELSE TopK
<1>8. fused \in SetToSeqs(S)
  <2>1. PICK s \in SetToSeqs(S) : \A i, j \in DOMAIN s : i < j => <<s[i], s[j]>> \in R
    BY <1>3, <1>5, <1>6, <1>7, Sortable
  <2>2. sorted(s)
    BY <2>1 DEF R
  <2> HIDE DEF sorted
  <2> QED
    BY <2>2
<1>9. Fuse(fts, vector) = SubSeq(fused, 1, top)
  BY DEF Fuse, S
<1> HIDE DEF fused
<1>10. Cardinality(S) \in Nat /\ fused \in [1 .. Cardinality(S) -> S]
       /\ \A i, j \in 1 .. Cardinality(S) : fused[i] = fused[j] => i = j
  BY <1>3, <1>8, FS_CardinalityType DEF SetToSeqs
<1> DEFINE N == Cardinality(S)
<1> HIDE DEF N
<1>11. N \in Nat /\ fused \in Seq(S) /\ Len(fused) = N /\ \A i, j \in 1 .. N : fused[i] = fused[j] => i = j
  BY <1>10 DEF N
<1>12. top \in Nat /\ top <= N /\ top <= TopK
  BY <1>11, KnowledgeAssumption
<1> HIDE DEF top
<1> DEFINE hits == SubSeq(fused, 1, top)
<1>13. Len(hits) = top /\ DOMAIN hits = 1 .. top /\ \A i \in 1 .. top : hits[i] = fused[i] /\ fused[i] \in S
  BY <1>11, <1>12
<1>14. \A x \in S : x[1] \notin without
  BY DEF S, Listed, ToSet
<1> HIDE DEF hits
<1>15. IsInjective(hits)
  BY <1>11, <1>12, <1>13 DEF IsInjective
<1>16. Listed(hits, without)
  BY <1>12, <1>13, <1>14, <1>15 DEF Listed
<1> QED
  BY <1>9, <1>12, <1>13, <1>16 DEF hits


(* What a query may find is finite, and of active documents.               *)
LEMMA FoundFacts ==
  ASSUME KnowledgeInv, SearchInv
  PROVE  IsFiniteSet(Found) /\ \A x \in Found : x[1] \in Active
<1> DEFINE rows(d) == {<<d, i>> : i \in DOMAIN docs[d].chunks}
           F == {rows(d) : d \in Active}
           h == [d \in Active |-> rows(d)]
<1>1. Found = UNION F
  BY DEF Found
<1>2. IsFiniteSet(Active)
  <2>1. IsFiniteSet(Ids)
    BY KnowledgeAssumption, FS_Interval DEF Ids
  <2>2. Active \in SUBSET Ids
    BY DEF Active
  <2> QED
    BY <2>1, <2>2, FS_Subset
<1>3. IsFiniteSet(F)
  <2>1. h \in Surjection(Active, F)
    BY DEF Surjection
  <2> HIDE DEF h, F
  <2> QED
    BY <1>2, <2>1, FS_Surjection
<1>4. ASSUME NEW d \in Active
      PROVE  IsFiniteSet(rows(d)) /\ \A x \in rows(d) : x[1] = d
  <2>1. d \in Ids /\ docs[d].active /\ TextInv(docs[d])
    BY DEF Active, SearchInv
  <2>2. docs[d].text \in Texts /\ WordsIn(docs[d].chunks) = ChunkText(docs[d].text)
    BY <2>1 DEF TextInv, NoDocument
  <2> DEFINE D == DOMAIN docs[d].chunks
             N == Len(ChunkText(docs[d].text))
             g == [i \in D |-> <<d, i>>]
  <2>3. N \in Nat /\ D = 1 .. N
    <3>1. ChunkText(docs[d].text) \in Pieces
      BY <2>2, ChunksKeepText
    <3>2. DOMAIN ChunkText(docs[d].text) = 1 .. N /\ N \in Nat
      BY <3>1 DEF Pieces
    <3>3. DOMAIN WordsIn(docs[d].chunks) = D
      BY DEF WordsIn
    <3> QED
      BY <2>2, <3>2, <3>3
  <2>4. rows(d) = {<<d, i>> : i \in D}
    OBVIOUS
  <2> HIDE DEF D, N, rows
  <2>5. IsFiniteSet(D)
    BY <2>3, FS_Interval
  <2>6. g \in Surjection(D, rows(d))
    BY <2>4 DEF Surjection
  <2> HIDE DEF g
  <2>7. IsFiniteSet(rows(d))
    BY <2>5, <2>6, FS_Surjection
  <2> QED
    BY <2>4, <2>7
<1> HIDE DEF rows
<1>5. IsFiniteSet(UNION F)
  <2>1. \A T \in F : IsFiniteSet(T)
    BY <1>4
  <2> HIDE DEF F
  <2> QED
    BY <1>3, <2>1, FS_UNION
<1> QED
  BY <1>1, <1>4, <1>5

LEMMA RankedFacts ==
  ASSUME KnowledgeInv, SearchInv, NEW T, T \subseteq Found, NEW list \in SetToSeqs(T), NEW c \in Clients, call[c] # Idle
  PROVE  Listed(list, call[c].before)
<1>1. IsFiniteSet(T) /\ Cardinality(T) \in Nat
  <2>1. IsFiniteSet(T)
    BY FoundFacts, FS_Subset
  <2> QED
    BY <2>1, FS_CardinalityType
<1> DEFINE N == Cardinality(T)
<1>2. list \in [1 .. N -> T] /\ \A i, j \in 1 .. N : i # j => list[i] # list[j]
  BY DEF SetToSeqs
<1> HIDE DEF N
<1>3. N \in Nat
  BY <1>1 DEF N
<1>4. DOMAIN list = 1 .. N /\ Len(list) = N
  BY <1>2, <1>3
<1>5. \A i \in 1 .. N : list[i][1] \in Active
  BY <1>2, FoundFacts
<1>6. \A n \in call[c].before : n \notin Active
  BY DEF SearchInv, SeenInv, Active
<1>7. IsInjective(list)
  BY <1>2, <1>4 DEF IsInjective
<1> QED
  BY <1>3, <1>4, <1>5, <1>6, <1>7 DEF Listed

LEMMA SearchAsked ==
  ASSUME KnowledgeInv, SearchInv, NEW c \in Clients, Expand(c) \/ FullText(c) \/ Vector(c)
  PROVE  SearchInv'
<1>1. call[c] # Idle /\ UNCHANGED <<docs, calls>>
  BY DEF Expand, FullText, Vector, Idle
<1>2. RequestInv(call[c], originals) /\ SeenInv(call[c])
  BY DEF KnowledgeInv, SearchInv
<1>3. CASE Expand(c)
  <2>1. "fts" \notin Creating
    BY DEF Creating
  <2> QED
    BY <1>1, <1>3, <2>1, EmbedsAsked DEF Expand
<1>4. ASSUME NEW x, x.before = call[c].before, x.pc \in {"vector", "answer"}, x # Idle,
             x.pc = "vector" => Listed(x.fts, x.before),
             x.pc = "answer" => Listed(x.hits, x.before) /\ Len(x.hits) <= TopK,
             call' = [call EXCEPT ![c] = x]
      PROVE  SearchInv'
  <2>1. x.pc \notin Creating
    BY <1>4 DEF Creating
  <2>2. SeenInv(x)
    BY <1>1, <1>2, <1>4, <2>1 DEF SeenInv
  <2> QED
    BY <1>1, <1>4, <2>1, <2>2, AskedGoesOn
<1>5. CASE FullText(c)
  <2>1. PICK fts \in Rankings(Found) : call' = [call EXCEPT ![c].fts = fts, ![c].pc = "vector"]
    BY <1>5 DEF FullText
  <2>2. PICK T \in SUBSET Found : fts \in SetToSeqs(T)
    BY DEF Rankings
  <2>3. Listed(fts, call[c].before)
    BY <1>1, <2>2, RankedFacts
  <2> DEFINE x == [call[c] EXCEPT !.fts = fts, !.pc = "vector"]
  <2>4. call' = [call EXCEPT ![c] = x]
    BY <1>1, <1>2, <2>1 DEF RequestInv, KnowledgeInv
  <2>5. x.fts = fts /\ x.pc = "vector" /\ x.before = call[c].before
    BY <1>1, <1>2 DEF RequestInv
  <2>6. x # Idle
    BY <2>5 DEF Idle
  <2> HIDE DEF x
  <2> QED
    BY <1>4, <2>3, <2>4, <2>5, <2>6
<1>6. CASE Vector(c)
  <2> DEFINE near(vector) == SubSeq(vector, 1, IF Len(vector) < 2 * TopK THEN Len(vector) ELSE 2 * TopK)
  <2>1. PICK vector \in SetToSeqs(Found) :
          call' = [call EXCEPT ![c].hits = Fuse(call[c].fts, near(vector)), ![c].pc = "answer"]
    BY <1>6 DEF Vector
  <2>2. Listed(vector, call[c].before)
    BY <1>1, RankedFacts
  <2>3. Listed(call[c].fts, call[c].before)
    BY <1>2, <1>6 DEF Vector, SeenInv
  <2> DEFINE top == IF Len(vector) < 2 * TopK THEN Len(vector) ELSE 2 * TopK
             nearest == SubSeq(vector, 1, top)
  <2>4. Listed(nearest, call[c].before)
    <3>1. TopK \in Nat /\ Len(vector) \in Nat
      BY <2>2, KnowledgeAssumption DEF Listed
    <3>2. top \in Nat /\ top <= Len(vector)
      BY <3>1
    <3>3. vector \in Seq(ToSet(vector))
      <4>1. DOMAIN vector = 1 .. Len(vector) /\ vector = [i \in DOMAIN vector |-> vector[i]]
        BY <2>2 DEF Listed, SetToSeqs
      <4>2. \A i \in DOMAIN vector : vector[i] \in ToSet(vector)
        BY DEF ToSet
      <4> DEFINE X == ToSet(vector)
                 N == Len(vector)
      <4> HIDE DEF X, N
      <4>3. vector \in [1 .. N -> X]
        BY <4>1, <4>2 DEF X, N
      <4>4. N \in Nat
        BY <3>1 DEF N
      <4>5. vector \in Seq(X)
        BY <4>3, <4>4
      <4> QED
        BY <4>5 DEF X
    <3> HIDE DEF top
    <3>4. Len(nearest) = top /\ DOMAIN nearest = 1 .. top /\ \A i \in 1 .. top : nearest[i] = vector[i]
      BY <3>1, <3>2, <3>3
    <3> HIDE DEF nearest
    <3>5. \A i \in 1 .. top : i \in DOMAIN vector
      BY <2>2, <3>1, <3>2 DEF Listed
    <3>6. IsInjective(nearest)
      BY <2>2, <3>4, <3>5 DEF IsInjective, Listed
    <3> QED
      BY <2>2, <3>2, <3>4, <3>5, <3>6 DEF Listed
  <2> DEFINE hits == Fuse(call[c].fts, nearest)
  <2>5. Listed(hits, call[c].before) /\ Len(hits) <= TopK
    <3> HIDE DEF nearest
    <3> QED
      BY <2>3, <2>4, FuseFacts
  <2>6. call' = [call EXCEPT ![c].hits = hits, ![c].pc = "answer"]
    BY <2>1
  <2> HIDE DEF hits
  <2> DEFINE x == [call[c] EXCEPT !.hits = hits, !.pc = "answer"]
  <2>7. call' = [call EXCEPT ![c] = x]
    BY <1>1, <1>2, <2>6 DEF RequestInv, KnowledgeInv
  <2>8. x.hits = hits /\ x.pc = "answer" /\ x.before = call[c].before
    BY <1>1, <1>2 DEF RequestInv
  <2>9. x # Idle
    BY <2>8 DEF Idle
  <2> HIDE DEF x
  <2> QED
    BY <1>4, <2>5, <2>7, <2>8, <2>9
<1> QED
  BY <1>3, <1>5, <1>6

LEMMA SearchInvStep == KnowledgeInv /\ SearchInv /\ [KnowledgeNext]_kvars => SearchInv'
<1> SUFFICES ASSUME KnowledgeInv, SearchInv, [KnowledgeNext]_kvars PROVE SearchInv'
  OBVIOUS
<1>1. CASE UNCHANGED kvars
  BY <1>1 DEF kvars, SearchInv, SeenInv
<1>2. ASSUME NEW c \in Clients,
             \/ Call(c) \/ Fail(c) \/ Extract(c) \/ Deduplicate(c) \/ Store(c) \/ CommitDocument(c)
             \/ RemoveDocument(c) \/ ReadChunks(c) \/ Update(c) \/ CommitChunks(c)
             \/ Expand(c) \/ FullText(c) \/ Vector(c) \/ Answer(c)
      PROVE  SearchInv'
  <2>1. ASSUME Fail(c) \/ Answer(c) PROVE SearchInv'
    BY <2>1, AskedEnds DEF Fail, Answer
  <2> QED
    BY <1>2, <2>1, CallAsked, CreateAsked, CommitDocumentAsked, RemoveAsked, ReindexAsked, CommitChunksAsked,
       SearchAsked
<1> QED
  BY <1>1, <1>2 DEF KnowledgeNext

(* The chunks of a document, for any size of a chunk, any overlap and any  *)
(* text of different words: whatever requests cut, embed again or remove,  *)
(* they hold every word of it, for the first time in the order of the      *)
(* text, and a table or a heading is a chunk of its own, in one piece, of  *)
(* which no other chunk has a word.                                        *)
THEOREM DocumentText == KnowledgeSpec => []TextIsKept
<1>1. SearchInv => TextIsKept
  <2> SUFFICES ASSUME SearchInv, NEW d \in Ids, docs[d] # NoDocument
               PROVE  LET words == WordsOf(docs[d].text)
                          chunks == [i \in DOMAIN docs[d].chunks |-> docs[d].chunks[i].words]
                          kept == FlattenSeq(chunks)
                          First(w) == SelectInSeq(kept, LAMBDA v : v = w)
                          intact == {b \in ToSet(ExtractBlocks(docs[d].text)) : b.kind \in {"h1", "h2", "table"}}
                          whole == {FlattenSeq(b.sentences) : b \in intact} IN
                        /\ \A i, j \in DOMAIN words :
                             First(words[i]) > 0 /\ (i < j => First(words[i]) < First(words[j]))
                        /\ \A i \in DOMAIN chunks :
                             chunks[i] \in whole \/ \A s \in whole : ToSet(chunks[i]) \cap ToSet(s) = {}
    BY DEF TextIsKept
  <2>1. docs[d].text \in Texts /\ WordsIn(docs[d].chunks) = ChunkText(docs[d].text)
    BY DEF SearchInv, TextInv
  <2> DEFINE text == docs[d].text
             c == ChunkText(text)
             k == FlattenSeq(c)
             w == WordsOf(text)
  <2>2. \A i, j \in DOMAIN w : FirstAt(k, w[i]) > 0 /\ (i < j => FirstAt(k, w[i]) < FirstAt(k, w[j]))
    BY <2>1, ChunksKeepText
  <2>3. \A i \in DOMAIN c : \/ c[i] \in WholeOf(ExtractBlocks(text))
                             \/ \A s \in WholeOf(ExtractBlocks(text)) : ToSet(c[i]) \cap ToSet(s) = {}
    BY <2>1, ChunksKeepText
  <2>4. [i \in DOMAIN docs[d].chunks |-> docs[d].chunks[i].words] = c
    BY <2>1 DEF WordsIn
  <2>5. WholeOf(ExtractBlocks(text)) =
          {FlattenSeq(b.sentences) : b \in {x \in ToSet(ExtractBlocks(text)) : x.kind \in {"h1", "h2", "table"}}}
    BY DEF WholeOf, Whole
  <2> QED
    BY <2>2, <2>3, <2>4, <2>5 DEF FirstAt
<1> QED
  BY KnowledgeStarts, KnowledgeStep, SearchStarts, SearchInvStep, <1>1, PTL DEF KnowledgeSpec

(* An answer, for any number of requests at one time and any limit: what   *)
(* was inactive before the search began is not in it, although two queries *)
(* at two times feed it, no chunk is there twice, and it is not too long.  *)
THEOREM SearchAnswers == KnowledgeSpec => []HitsAreActive
<1>1. SearchInv => HitsAreActive
  <2> SUFFICES ASSUME SearchInv, NEW c \in Clients, call[c].pc = "answer"
               PROVE  /\ \A i \in DOMAIN call[c].hits : call[c].hits[i][1] \notin call[c].before
                      /\ IsInjective(call[c].hits) /\ Len(call[c].hits) <= TopK
    BY DEF HitsAreActive
  <2>1. Listed(call[c].hits, call[c].before) /\ Len(call[c].hits) <= TopK
    BY DEF SearchInv, SeenInv
  <2> QED
    BY <2>1 DEF Listed
<1> QED
  BY KnowledgeStarts, KnowledgeStep, SearchStarts, SearchInvStep, <1>1, PTL DEF KnowledgeSpec

(* What a step leaves of a document.                                       *)
Stays(d) ==
  \/ docs'[d] = NoDocument
  \/ /\ docs'[d].text = docs[d].text /\ Chunked(docs'[d]) = Chunked(docs[d])
     /\ docs'[d].active => docs[d].active

LEMMA ChunkedAlike ==
  ASSUME NEW a, NEW b, a.chunks = b.chunks
  PROVE  Chunked(a) = Chunked(b)
BY DEF Chunked

LEMMA CommitDocumentStays ==
  ASSUME KnowledgeInv, SearchInv, NEW c \in Clients, CommitDocument(c), NEW d \in Ids, docs[d] # NoDocument
  PROVE  docs'[d] = docs[d]
<1>1. call[c].pc \in Creating
  BY DEF CommitDocument, Creating
<1>2. docs[call[c].doc] = NoDocument
  BY <1>1 DEF SearchInv, SeenInv
<1>3. d # call[c].doc
  BY <1>2
<1>4. PICK doc : docs' = [docs EXCEPT ![call[c].doc] = doc]
  BY Zenon DEF CommitDocument
<1> QED
  BY <1>3, <1>4 DEF KnowledgeInv

LEMMA RemoveStays ==
  ASSUME KnowledgeInv, NEW c \in Clients, RemoveDocument(c), NEW d \in Ids, docs[d] # NoDocument
  PROVE  Stays(d)
<1>0. DocumentInv(d, docs[d], originals)
  BY DEF KnowledgeInv
<1>1. PICK text, active, chunks : docs[d] = [text |-> text, active |-> active, chunks |-> chunks]
  BY <1>0, Zenon DEF DocumentInv
<1>2. CASE docs'[d] = docs[d] \/ docs'[d] = NoDocument
  <2>1. CASE docs'[d] = docs[d]
    BY <2>1, Zenon DEF Stays
  <2> QED
    BY <1>2, <2>1 DEF Stays
<1>3. CASE docs' = [docs EXCEPT ![call[c].doc].active = FALSE] /\ d = call[c].doc
  <2>1. docs'[d] = [docs[d] EXCEPT !.active = FALSE]
    BY <1>3 DEF KnowledgeInv
  <2>2. docs'[d] = [text |-> text, active |-> FALSE, chunks |-> chunks]
    <3>1. \A b : [docs[d] EXCEPT !.active = b] = [text |-> text, active |-> b, chunks |-> chunks]
      BY <1>1
    <3> QED
      BY <2>1, <3>1
  <2>3. docs'[d].text = docs[d].text /\ docs'[d].chunks = docs[d].chunks /\ docs'[d].active = FALSE
    BY <1>1, <2>2
  <2>4. Chunked(docs'[d]) = Chunked(docs[d])
    BY <2>3, ChunkedAlike
  <2> QED
    BY <2>3, <2>4 DEF Stays
<1>4. \/ docs' = docs
      \/ docs' = [docs EXCEPT ![call[c].doc] = NoDocument]
      \/ docs' = [docs EXCEPT ![call[c].doc].active = FALSE]
  BY DEF RemoveDocument
<1>5. docs'[d] = docs[d] \/ docs'[d] = NoDocument
        \/ (docs' = [docs EXCEPT ![call[c].doc].active = FALSE] /\ d = call[c].doc)
  BY <1>4 DEF KnowledgeInv
<1> QED
  BY <1>2, <1>3, <1>5

LEMMA CommitChunksStays ==
  ASSUME KnowledgeInv, SearchInv, SearchInv', NEW c \in Clients, CommitChunks(c), NEW d \in Ids,
         docs[d] # NoDocument
  PROVE  Stays(d)
<1> DEFINE New(chunks) == [i \in DOMAIN chunks |-> IF i \in call[c].done THEN [chunks[i] EXCEPT !.run = call[c].id]
                                                    ELSE chunks[i]]
<1>0. DocumentInv(d, docs[d], originals)
  BY DEF KnowledgeInv
<1>1. PICK text, active, chunks : docs[d] = [text |-> text, active |-> active, chunks |-> chunks]
  BY <1>0, Zenon DEF DocumentInv
<1>2. docs' = [docs EXCEPT ![call[c].doc].chunks = New(docs[call[c].doc].chunks)]
  <2>1. call[c].doc \in Ids
    <3>1. RequestInv(call[c], originals) /\ call[c].pc # "idle"
      BY DEF KnowledgeInv, CommitChunks
    <3> QED
      BY <3>1 DEF RequestInv, Idle
  <2> QED
    BY <2>1 DEF CommitChunks, KnowledgeInv
<1> HIDE DEF New
<1>3. CASE d # call[c].doc
  <2>1. docs'[d] = docs[d]
    BY <1>2, <1>3 DEF KnowledgeInv
  <2> QED
    BY <2>1 DEF Stays
<1>4. CASE d = call[c].doc
  <2>1. docs'[d] = [docs[d] EXCEPT !.chunks = New(docs[d].chunks)]
    BY <1>2, <1>4 DEF KnowledgeInv
  <2>2. docs'[d] = [text |-> text, active |-> active, chunks |-> New(chunks)]
    BY <1>1, <2>1
  <2>3. docs'[d].text = docs[d].text /\ docs'[d].active = docs[d].active
    BY <1>1, <2>2
  <2>4. CASE docs'[d] = NoDocument
    BY <2>4 DEF Stays
  <2>5. CASE docs'[d] # NoDocument
    <3>1. TextInv(docs[d]) /\ TextInv(docs'[d])
      BY DEF SearchInv
    <3>2. Chunked(docs'[d]) = ChunkText(docs'[d].text) /\ Chunked(docs[d]) = ChunkText(docs[d].text)
      BY <2>5, <3>1 DEF TextInv, WordsIn, Chunked
    <3> QED
      BY <2>3, <3>2 DEF Stays
  <2> QED
    BY <2>4, <2>5
<1> QED
  BY <1>3, <1>4

(* A document, for any number of requests at one time: its text and the    *)
(* words of its chunks stay until it is deleted, and an inactive one stays *)
(* inactive, although a reindexing writes over chunks it has read long     *)
(* before.                                                                 *)
THEOREM DocumentsKept == KnowledgeSpec => DocumentsStay
<1>1. ASSUME KnowledgeInv, SearchInv, [KnowledgeNext]_kvars
      PROVE  [\A d \in Ids : docs[d] # NoDocument => Stays(d)]_kvars
  <2> SUFFICES ASSUME KnowledgeNext, NEW d \in Ids, docs[d] # NoDocument PROVE Stays(d)
    BY <1>1
  <2>1. SearchInv'
    BY <1>1, SearchInvStep
  <2>2. CASE docs' = docs
    BY <2>2 DEF Stays
  <2>3. ASSUME NEW c \in Clients, CommitDocument(c) \/ RemoveDocument(c) \/ CommitChunks(c)
        PROVE  Stays(d)
    <3>1. CASE CommitDocument(c)
      <4>1. docs'[d] = docs[d]
        BY <1>1, <3>1, CommitDocumentStays
      <4> QED
        BY <4>1 DEF Stays
    <3> QED
      BY <1>1, <2>1, <2>3, <3>1, RemoveStays, CommitChunksStays
  <2>4. docs' = docs \/ \E c \in Clients : CommitDocument(c) \/ RemoveDocument(c) \/ CommitChunks(c)
    BY DEF KnowledgeNext, Call, Fail, Extract, Deduplicate, Store, ReadChunks, Update, Expand, FullText, Vector,
           Answer
  <2> QED
    BY <2>2, <2>3, <2>4
<1>2. KnowledgeSpec => [][\A d \in Ids : docs[d] # NoDocument => Stays(d)]_kvars
  BY KnowledgeStarts, KnowledgeStep, SearchStarts, SearchInvStep, <1>1, PTL DEF KnowledgeSpec
<1> QED
  BY <1>2 DEF DocumentsStay, Stays

-------------------------------------------------------------------------------
(* PlanControl.                                                            *)

PlanSpec == PlanInit /\ [][PlanNext]_plvars

Kinds == {"note"} \cup UNION {Required[g] : g \in ToSet(Legacy)}
Gate == [status : {"PENDENTE", "EM_EXECUCAO", "BLOQUEADO", "target"}, evidence : SUBSET Kinds, open : Nat]
Fresh == [status |-> "PENDENTE", evidence |-> {}, open |-> 0]

GateInv(g, gate) ==
  /\ gate \in Gate
  /\ gate.status = "target" => Required[g] \subseteq gate.evidence
  /\ gate.status = "BLOQUEADO" <=> gate.open > 0

(* A plan, in a file or about to be written: its gates are worked through  *)
(* in their order.                                                         *)
InOrder(plan) ==
  \A i \in DOMAIN plan.order :
    plan.gates[plan.order[i]] # Fresh => \A j \in 1 .. i - 1 : GateDone(plan, plan.order[j])

PlanInv(plan) ==
  /\ plan = [order |-> plan.order, gates |-> plan.gates]
  /\ plan.order \in {Workflow, Legacy}
  /\ plan.gates \in [ToSet(plan.order) -> Gate]
  /\ \A g \in ToSet(plan.order) : GateInv(g, plan.gates[g])
  /\ InOrder(plan)

(* What the dashboard shows is of such a plan, too.                        *)
ControlInv ==
  /\ file = NoFile \/ PlanInv(file)
  /\ dashboard = NoFile \/ dashboard.blocked \subseteq {dashboard.next}
  /\ runner = [r \in Runners |-> runner[r]]
  /\ \A r \in Runners : /\ runner[r] = [pc |-> runner[r].pc, plan |-> runner[r].plan]
                        /\ runner[r].pc \in {"save", "render"} => PlanInv(runner[r].plan)

LEMMA OrderIsSequence ==
  ASSUME NEW order \in {Workflow, Legacy}
  PROVE  /\ Len(order) \in Nat /\ DOMAIN order = 1 .. Len(order)
         /\ \A i, j \in DOMAIN order : order[i] = order[j] => i = j
         /\ ToSet(order) = {order[i] : i \in DOMAIN order}
         /\ ToSet(order) \subseteq ToSet(Legacy)
<1>1. order \in Seq(ToSet(Legacy)) /\ IsInjective(order)
  BY PlanAssumption
<1>2. Len(order) \in Nat /\ DOMAIN order = 1 .. Len(order) /\ \A i \in DOMAIN order : order[i] \in ToSet(Legacy)
  BY <1>1
<1>3. \A i, j \in DOMAIN order : order[i] = order[j] => i = j
  BY <1>1 DEF IsInjective
<1> QED
  BY <1>2, <1>3 DEF ToSet

LEMMA FreshGate == ASSUME NEW g PROVE GateInv(g, Fresh) /\ Fresh.status # "target"
  BY DEF GateInv, Gate, Fresh

LEMMA NewPlanInv ==
  ASSUME NEW order \in {Workflow, Legacy}
  PROVE  PlanInv(NewPlan(order))
<1> DEFINE p == NewPlan(order)
<1>1. p.order = order /\ p.gates = [g \in ToSet(order) |-> Fresh] /\ p = [order |-> p.order, gates |-> p.gates]
  BY DEF NewPlan, Fresh
<1> HIDE DEF p
<1>2. \A g \in ToSet(order) : p.gates[g] = Fresh /\ GateInv(g, p.gates[g])
  BY <1>1, FreshGate
<1>3. p.gates \in [ToSet(order) -> Gate]
  BY <1>1, FreshGate DEF GateInv
<1>4. InOrder(p)
  <2>1. \A i \in DOMAIN p.order : p.order[i] \in ToSet(order)
    BY <1>1, OrderIsSequence
  <2> QED
    BY <1>2, <2>1 DEF InOrder
<1> QED
  BY <1>1, <1>2, <1>3, <1>4 DEF PlanInv, p

(* A gate changes that is not complete, and those in front of it are: the  *)
(* gates behind it have not been touched.                                  *)
LEMMA GateChanges ==
  ASSUME NEW plan, PlanInv(plan), NEW i \in DOMAIN plan.order, ~GateDone(plan, plan.order[i]),
         \A j \in 1 .. i - 1 : GateDone(plan, plan.order[j]), NEW gate, GateInv(plan.order[i], gate)
  PROVE  PlanInv([plan EXCEPT !.gates[plan.order[i]] = gate])
<1> DEFINE g == plan.order[i]
           new == [plan EXCEPT !.gates[g] = gate]
           o == plan.order
<1>1. /\ plan = [order |-> plan.order, gates |-> plan.gates] /\ o \in {Workflow, Legacy}
      /\ plan.gates \in [ToSet(o) -> Gate] /\ InOrder(plan)
      /\ \A h \in ToSet(o) : GateInv(h, plan.gates[h])
  BY DEF PlanInv
<1>2. new.order = o /\ new.gates = [plan.gates EXCEPT ![g] = gate]
  BY <1>1
<1>3. new = [order |-> new.order, gates |-> new.gates]
  BY <1>1
<1>4. g \in ToSet(o) /\ \A k \in DOMAIN o : o[k] \in ToSet(o)
  BY <1>1, OrderIsSequence
<1> HIDE DEF new
<1>5. new.gates \in [ToSet(o) -> Gate]
  BY <1>1, <1>2 DEF GateInv
<1>6. \A h \in ToSet(o) : new.gates[h] = IF h = g THEN gate ELSE plan.gates[h]
  BY <1>1, <1>2
<1>7. \A h \in ToSet(o) : GateInv(h, new.gates[h])
  BY <1>1, <1>6
<1>8. ASSUME NEW k \in DOMAIN o, new.gates[o[k]] # Fresh, NEW j \in 1 .. k - 1
      PROVE  GateDone(new, o[j])
  <2>1. /\ k \in Nat /\ i \in Nat /\ j \in DOMAIN o /\ Len(o) \in Nat /\ DOMAIN o = 1 .. Len(o)
        /\ \A m, n \in DOMAIN o : o[m] = o[n] => m = n
    <3>1. /\ Len(o) \in Nat /\ DOMAIN o = 1 .. Len(o)
          /\ \A m, n \in DOMAIN o : o[m] = o[n] => m = n
      BY <1>1, OrderIsSequence
    <3>2. k \in 1 .. Len(o) /\ i \in 1 .. Len(o)
      BY <3>1
    <3>3. j \in 1 .. Len(o)
      BY <3>1, <3>2
    <3> QED
      BY <3>1, <3>2, <3>3
  <2>2. k <= i
    <3> SUFFICES ASSUME k > i PROVE FALSE
      BY <2>1
    <3>1. o[k] # g /\ new.gates[o[k]] = plan.gates[o[k]]
      BY <1>4, <1>6, <2>1
    <3>2. i \in 1 .. k - 1
      BY <2>1
    <3> QED
      BY <1>1, <1>8, <3>1, <3>2 DEF InOrder
  <2>3. j \in 1 .. i - 1 /\ o[j] # g
    BY <2>1, <2>2
  <2>4. GateDone(plan, o[j]) /\ new.gates[o[j]] = plan.gates[o[j]]
    BY <1>4, <1>6, <2>1, <2>3
  <2> QED
    BY <2>4 DEF GateDone
<1>9. InOrder(new)
  BY <1>2, <1>8 DEF InOrder
<1> QED
  BY <1>1, <1>2, <1>3, <1>5, <1>7, <1>9 DEF PlanInv, new

(* The active gate is the first that is not complete.                      *)
LEMMA ActiveIsFirst ==
  ASSUME NEW plan, PlanInv(plan), Undone(plan) # {}
  PROVE  \E i \in DOMAIN plan.order :
           /\ ActiveGate(plan) = plan.order[i] /\ i = Min(Undone(plan)) /\ ~GateDone(plan, plan.order[i])
           /\ \A j \in 1 .. i - 1 : GateDone(plan, plan.order[j])
<1>1. Len(plan.order) \in Nat /\ DOMAIN plan.order = 1 .. Len(plan.order)
  BY OrderIsSequence DEF PlanInv
<1>2. Undone(plan) \subseteq DOMAIN plan.order /\ Undone(plan) \subseteq Nat
  BY <1>1 DEF Undone
<1> DEFINE i == Min(Undone(plan))
<1>3. i \in Undone(plan) /\ \A j \in Undone(plan) : i <= j
  BY <1>2, Smallest
<1> HIDE DEF i
<1>4. i \in DOMAIN plan.order /\ ~GateDone(plan, plan.order[i])
  BY <1>3 DEF Undone
<1>5. ASSUME NEW j \in 1 .. i - 1 PROVE GateDone(plan, plan.order[j])
  <2>1. j \in DOMAIN plan.order /\ ~(i <= j)
    BY <1>1, <1>4
  <2>2. j \notin Undone(plan)
    BY <1>3, <2>1
  <2> QED
    BY <2>1, <2>2 DEF Undone
<1> QED
  BY <1>4, <1>5 DEF ActiveGate, i

(* A gate that was touched and is not complete is the first one so, and    *)
(* so is a blocked one.                                                    *)
LEMMA BlockedIsActive ==
  ASSUME NEW plan, PlanInv(plan), NEW g \in ToSet(plan.order), plan.gates[g].open > 0
  PROVE  Undone(plan) # {} /\ g = ActiveGate(plan)
<1>1. PICK i \in DOMAIN plan.order : plan.order[i] = g
  BY OrderIsSequence DEF PlanInv
<1>2. GateInv(g, plan.gates[g])
  BY DEF PlanInv
<1>3. ~GateDone(plan, g) /\ plan.gates[g] # Fresh
  BY <1>2 DEF GateInv, GateDone, Fresh
<1>4. i \in Undone(plan)
  BY <1>1, <1>3 DEF Undone
<1>5. PICK k \in DOMAIN plan.order : /\ ActiveGate(plan) = plan.order[k] /\ ~GateDone(plan, plan.order[k])
                                     /\ k = Min(Undone(plan))
  BY <1>4, ActiveIsFirst
<1>6. Len(plan.order) \in Nat /\ DOMAIN plan.order = 1 .. Len(plan.order)
  BY OrderIsSequence DEF PlanInv
<1>7. k <= i
  <2>1. Undone(plan) \subseteq Nat
    BY <1>6 DEF Undone
  <2> QED
    BY <1>4, <1>5, <2>1, Smallest
<1>8. k \notin 1 .. i - 1
  BY <1>1, <1>3, <1>5 DEF PlanInv, InOrder
<1>9. k = i
  BY <1>6, <1>7, <1>8
<1> QED
  BY <1>1, <1>4, <1>5, <1>9

-------------------------------------------------------------------------------
LEMMA ControlStarts == PlanInit => ControlInv
<1> SUFFICES ASSUME PlanInit PROVE ControlInv
  OBVIOUS
<1>1. file = NoFile \/ PlanInv(file)
  BY NewPlanInv DEF PlanInit
<1>2. dashboard = NoFile /\ runner = [r \in Runners |-> NoCommand]
  BY DEF PlanInit
<1> QED
  BY <1>1, <1>2 DEF ControlInv, NoCommand

(* A command has read the file and is about to write a plan.               *)
LEMMA WritesPlan ==
  ASSUME ControlInv, NEW r \in Runners, NEW pc \in {"save", "render"}, NEW plan, PlanInv(plan),
         Writes(r, pc, plan)
  PROVE  ControlInv'
<1> DEFINE x == [pc |-> pc, plan |-> plan]
<1>1. runner' = [runner EXCEPT ![r] = x] /\ file' = file /\ dashboard' = dashboard
  BY DEF Writes
<1>2. x.plan = plan /\ x = [pc |-> x.pc, plan |-> x.plan]
  OBVIOUS
<1> HIDE DEF x
<1>3. runner' = [s \in Runners |-> IF s = r THEN x ELSE runner[s]]
  BY <1>1 DEF ControlInv
<1>4. \A s \in Runners : /\ runner'[s] = [pc |-> runner'[s].pc, plan |-> runner'[s].plan]
                         /\ runner'[s].pc \in {"save", "render"} => PlanInv(runner'[s].plan)
  BY <1>2, <1>3 DEF ControlInv
<1>5. runner' = [s \in Runners |-> runner'[s]]
  BY <1>3
<1> QED
  BY <1>1, <1>4, <1>5 DEF ControlInv

LEMMA ChangesPlan ==
  ASSUME ControlInv, NEW r \in Runners, PlanInv(file), NEW i \in DOMAIN file.order,
         ~GateDone(file, file.order[i]), \A j \in 1 .. i - 1 : GateDone(file, file.order[j]),
         NEW gate, GateInv(file.order[i], gate), Changes(r, file.order[i], gate)
  PROVE  ControlInv'
<1>1. PlanInv([file EXCEPT !.gates[file.order[i]] = gate])
  BY GateChanges
<1>2. Writes(r, "save", [file EXCEPT !.gates[file.order[i]] = gate])
  BY DEF Changes
<1> QED
  BY <1>1, <1>2, WritesPlan

LEMMA InitStep ==
  ASSUME ControlInv, NEW r \in Runners, InitPlan(r) \/ Verify(r)
  PROVE  ControlInv'
<1>1. CASE InitPlan(r)
  BY <1>1, NewPlanInv, WritesPlan DEF InitPlan
<1>2. CASE Verify(r)
  <2>1. PlanInv(file) /\ Writes(r, "render", file)
    BY <1>2 DEF Verify, Loads, ControlInv
  <2> QED
    BY <2>1, WritesPlan
<1> QED
  BY <1>1, <1>2

(* The gate a command works on.                                            *)
LEMMA WorksOn ==
  ASSUME ControlInv, NEW r \in Runners, Loads(r), NEW g, IsActive(file, g)
  PROVE  /\ PlanInv(file) /\ g \in ToSet(file.order) /\ GateInv(g, file.gates[g])
         /\ \E i \in DOMAIN file.order :
              /\ g = file.order[i] /\ ~GateDone(file, file.order[i])
              /\ \A j \in 1 .. i - 1 : GateDone(file, file.order[j])
<1>1. PlanInv(file)
  BY DEF Loads, ControlInv
<1>2. PICK i \in DOMAIN file.order :
        /\ ActiveGate(file) = file.order[i] /\ ~GateDone(file, file.order[i])
        /\ \A j \in 1 .. i - 1 : GateDone(file, file.order[j])
  BY <1>1, ActiveIsFirst DEF IsActive
<1>3. g = file.order[i] /\ g \in ToSet(file.order)
  BY <1>1, <1>2, OrderIsSequence DEF IsActive, PlanInv
<1>4. GateInv(g, file.gates[g])
  BY <1>1, <1>3 DEF PlanInv
<1> QED
  BY <1>1, <1>2, <1>3, <1>4

(* What a command makes of a gate.                                         *)
LEMMA WorkedGate ==
  ASSUME NEW g, NEW gate, GateInv(g, gate), gate.status # "target"
  PROVE  /\ gate.status = "PENDENTE" => GateInv(g, [gate EXCEPT !.status = "EM_EXECUCAO"])
         /\ \A kind \in Kinds : GateInv(g, [gate EXCEPT !.evidence = gate.evidence \cup {kind}])
         /\ gate.status # "BLOQUEADO" /\ Required[g] \subseteq gate.evidence
              => GateInv(g, [gate EXCEPT !.status = "target"])
         /\ GateInv(g, [gate EXCEPT !.status = "BLOQUEADO", !.open = gate.open + 1])
         /\ GateInv(g, [gate EXCEPT !.status = "EM_EXECUCAO", !.open = 0])
<1>1. gate \in Gate
  BY DEF GateInv
<1>2. gate.open \in Nat /\ gate.evidence \subseteq Kinds
  BY <1>1 DEF Gate
<1>3. ASSUME gate.status = "PENDENTE" PROVE GateInv(g, [gate EXCEPT !.status = "EM_EXECUCAO"])
  <2> DEFINE x == [gate EXCEPT !.status = "EM_EXECUCAO"]
  <2>1. x \in Gate /\ x.status = "EM_EXECUCAO" /\ x.open = gate.open
    BY <1>1 DEF Gate
  <2> HIDE DEF x
  <2> QED
    BY <1>3, <2>1 DEF GateInv, x
<1>4. ASSUME NEW kind \in Kinds PROVE GateInv(g, [gate EXCEPT !.evidence = gate.evidence \cup {kind}])
  <2> DEFINE x == [gate EXCEPT !.evidence = gate.evidence \cup {kind}]
  <2>1. x \in Gate /\ x.status = gate.status /\ x.open = gate.open
    BY <1>1 DEF Gate
  <2> HIDE DEF x
  <2> QED
    BY <2>1 DEF GateInv, x
<1>5. ASSUME gate.status # "BLOQUEADO", Required[g] \subseteq gate.evidence
      PROVE  GateInv(g, [gate EXCEPT !.status = "target"])
  <2> DEFINE x == [gate EXCEPT !.status = "target"]
  <2>1. x \in Gate /\ x.status = "target" /\ x.open = gate.open /\ x.evidence = gate.evidence
    BY <1>1 DEF Gate
  <2> HIDE DEF x
  <2> QED
    BY <1>5, <2>1 DEF GateInv, x
<1>6. GateInv(g, [gate EXCEPT !.status = "BLOQUEADO", !.open = gate.open + 1])
  <2> DEFINE n == gate.open + 1
             x == [gate EXCEPT !.status = "BLOQUEADO", !.open = n]
  <2>1. n \in Nat /\ n > 0
    BY <1>2
  <2> HIDE DEF n
  <2>2. x \in Gate /\ x.status = "BLOQUEADO" /\ x.open = n
    BY <1>1, <2>1 DEF Gate
  <2> HIDE DEF x
  <2> QED
    BY <2>1, <2>2 DEF GateInv, x, n
<1>7. GateInv(g, [gate EXCEPT !.status = "EM_EXECUCAO", !.open = 0])
  <2> DEFINE x == [gate EXCEPT !.status = "EM_EXECUCAO", !.open = 0]
  <2>1. x \in Gate /\ x.status = "EM_EXECUCAO" /\ x.open = 0
    BY <1>1, <1>2 DEF Gate
  <2> HIDE DEF x
  <2> QED
    BY <2>1 DEF GateInv, x
<1> QED
  BY <1>3, <1>4, <1>5, <1>6, <1>7

LEMMA GateStep ==
  ASSUME ControlInv, NEW r \in Runners, NEW g \in ToSet(Legacy),
         \/ Start(r, g) \/ Complete(r, g) \/ Block(r, g)
         \/ \E kind \in Required[g] : Evidence(r, g, kind)
  PROVE  ControlInv'
<1>1. Loads(r) /\ IsActive(file, g)
  BY DEF Start, Complete, Block, Evidence
<1>2. PlanInv(file) /\ g \in ToSet(file.order) /\ GateInv(g, file.gates[g])
  BY <1>1, WorksOn
<1>3. PICK i \in DOMAIN file.order :
        /\ g = file.order[i] /\ ~GateDone(file, file.order[i])
        /\ \A j \in 1 .. i - 1 : GateDone(file, file.order[j])
  BY <1>1, WorksOn
<1>4. file.gates[g].status # "target"
  BY <1>3 DEF GateDone
<1>5. \A gate : GateInv(g, gate) /\ Changes(r, g, gate) => ControlInv'
  BY <1>2, <1>3, ChangesPlan
<1>6. CASE Start(r, g)
  <2>1. Changes(r, g, [file.gates[g] EXCEPT !.status = "EM_EXECUCAO"]) /\ file.gates[g].status = "PENDENTE"
    BY <1>6 DEF Start
  <2> QED
    BY <1>2, <1>4, <1>5, <2>1, WorkedGate
<1>7. CASE Complete(r, g)
  <2>1. /\ Changes(r, g, [file.gates[g] EXCEPT !.status = "target"])
        /\ file.gates[g].status # "BLOQUEADO" /\ Required[g] \subseteq file.gates[g].evidence
    BY <1>7 DEF Complete
  <2> QED
    BY <1>2, <1>4, <1>5, <2>1, WorkedGate
<1>8. CASE Block(r, g)
  <2>1. Changes(r, g, [file.gates[g] EXCEPT !.status = "BLOQUEADO", !.open = file.gates[g].open + 1])
    BY <1>8 DEF Block
  <2> QED
    BY <1>2, <1>4, <1>5, <2>1, WorkedGate
<1>9. CASE \E kind \in Required[g] : Evidence(r, g, kind)
  <2>1. PICK kind \in Required[g] :
          Changes(r, g, [file.gates[g] EXCEPT !.evidence = file.gates[g].evidence \cup {kind}])
    BY <1>9 DEF Evidence
  <2>2. kind \in Kinds
    BY DEF Kinds
  <2> QED
    BY <1>2, <1>4, <1>5, <2>1, <2>2, WorkedGate
<1> QED
  BY <1>6, <1>7, <1>8, <1>9

(* A blocked gate is the active one, although the command does not look.   *)
LEMMA UnblockStep ==
  ASSUME ControlInv, NEW r \in Runners, NEW g \in ToSet(Legacy), Unblock(r, g)
  PROVE  ControlInv'
<1>1. /\ Loads(r) /\ g \in ToSet(file.order) /\ file.gates[g].open > 0 /\ file.gates[g].status = "BLOQUEADO"
      /\ Changes(r, g, [file.gates[g] EXCEPT !.status = "EM_EXECUCAO", !.open = 0])
  BY DEF Unblock
<1>2. PlanInv(file)
  BY <1>1 DEF Loads, ControlInv
<1>3. IsActive(file, g)
  BY <1>1, <1>2, BlockedIsActive DEF IsActive
<1>4. GateInv(g, file.gates[g])
  BY <1>1, <1>3, WorksOn
<1>5. PICK i \in DOMAIN file.order :
        /\ g = file.order[i] /\ ~GateDone(file, file.order[i])
        /\ \A j \in 1 .. i - 1 : GateDone(file, file.order[j])
  BY <1>1, <1>3, WorksOn
<1>6. GateInv(g, [file.gates[g] EXCEPT !.status = "EM_EXECUCAO", !.open = 0])
  BY <1>1, <1>4, WorkedGate
<1> QED
  BY <1>1, <1>2, <1>5, <1>6, ChangesPlan

(* The gates that are kept are in order as they were, and the first of     *)
(* them that is not complete gets a note.                                  *)
LEMMA KeptGates ==
  ASSUME PlanInv(file), file.order = Legacy
  PROVE  PlanInv([order |-> Workflow, gates |-> [g \in ToSet(Workflow) |-> file.gates[g]]])
<1> DEFINE plan == [order |-> Workflow, gates |-> [g \in ToSet(Workflow) |-> file.gates[g]]]
<1>1. /\ plan.order = Workflow /\ plan = [order |-> plan.order, gates |-> plan.gates]
      /\ plan.gates = [g \in ToSet(Workflow) |-> file.gates[g]]
  OBVIOUS
<1> HIDE DEF plan
<1>2. ToSet(Workflow) \subseteq ToSet(Legacy)
  BY OrderIsSequence
<1>3. \A g \in ToSet(Workflow) : plan.gates[g] = file.gates[g] /\ GateInv(g, plan.gates[g])
  BY <1>1, <1>2 DEF PlanInv
<1>4. plan.gates \in [ToSet(Workflow) -> Gate]
  BY <1>1, <1>3 DEF GateInv
<1>5. /\ Len(Workflow) \in Nat /\ DOMAIN Workflow = 1 .. Len(Workflow)
      /\ \A i \in DOMAIN Workflow : Workflow[i] \in ToSet(Workflow)
      /\ \A i \in DOMAIN Workflow : \E k \in DOMAIN Legacy : Legacy[k] = Workflow[i]
      /\ Len(Legacy) \in Nat /\ DOMAIN Legacy = 1 .. Len(Legacy)
  <2>1. /\ Len(Workflow) \in Nat /\ DOMAIN Workflow = 1 .. Len(Workflow)
        /\ ToSet(Workflow) = {Workflow[i] : i \in DOMAIN Workflow}
    BY OrderIsSequence
  <2>2. /\ Len(Legacy) \in Nat /\ DOMAIN Legacy = 1 .. Len(Legacy)
        /\ ToSet(Legacy) = {Legacy[i] : i \in DOMAIN Legacy}
    BY OrderIsSequence
  <2>3. \A i \in DOMAIN Workflow : Workflow[i] \in ToSet(Workflow)
    BY <2>1
  <2>4. \A i \in DOMAIN Workflow : \E k \in DOMAIN Legacy : Legacy[k] = Workflow[i]
    BY <1>2, <2>2, <2>3
  <2> QED
    BY <2>1, <2>2, <2>3, <2>4
<1>6. ASSUME NEW i \in DOMAIN Workflow, plan.gates[Workflow[i]] # Fresh, NEW j \in 1 .. i - 1
      PROVE  GateDone(plan, Workflow[j])
  <2>1. i \in 1 .. Len(Workflow)
    BY <1>5
  <2>2. j \in 1 .. Len(Workflow) /\ j < i
    BY <1>5, <2>1
  <2>3. j \in DOMAIN Workflow
    BY <1>5, <2>2
  <2>4. PICK k \in DOMAIN Legacy : Legacy[k] = Workflow[i]
    BY <1>5
  <2>5. PICK l \in DOMAIN Legacy : Legacy[l] = Workflow[j]
    BY <1>5, <2>3
  <2>6. l < k
    BY <2>2, <2>3, <2>4, <2>5, PlanAssumption
  <2>7. k \in 1 .. Len(Legacy) /\ l \in 1 .. Len(Legacy)
    BY <1>5
  <2>8. l \in 1 .. k - 1
    BY <1>5, <2>6, <2>7
  <2>9. file.gates[Legacy[k]] # Fresh
    BY <1>3, <1>5, <1>6, <2>4
  <2>10. GateDone(file, Legacy[l])
    BY <2>8, <2>9 DEF PlanInv, InOrder
  <2>11. plan.gates[Workflow[j]] = file.gates[Legacy[l]]
    BY <1>3, <1>5, <2>3, <2>5
  <2> QED
    BY <2>10, <2>11 DEF GateDone
<1>7. InOrder(plan)
  BY <1>1, <1>6 DEF InOrder
<1> QED
  BY <1>1, <1>3, <1>4, <1>7 DEF PlanInv, plan

LEMMA SyncStep ==
  ASSUME ControlInv, NEW r \in Runners, SyncPlan(r)
  PROVE  ControlInv'
<1> DEFINE plan == [order |-> Workflow, gates |-> [g \in ToSet(Workflow) |-> file.gates[g]]]
           a == ActiveGate(plan)
<1>1. PlanInv(file) /\ file.order = Legacy
  BY DEF SyncPlan, Loads, HasErrors, ControlInv, PlanInv
<1>2. PlanInv(plan)
  BY <1>1, KeptGates
<1>3. Writes(r, "save", IF Undone(plan) = {} THEN plan
                        ELSE [plan EXCEPT !.gates[a].evidence = @ \cup {"note"}])
  BY DEF SyncPlan
<1> HIDE DEF plan
<1>4. CASE Undone(plan) = {}
  BY <1>2, <1>3, <1>4, WritesPlan
<1>5. CASE Undone(plan) # {}
  <2>1. PICK i \in DOMAIN plan.order :
          /\ a = plan.order[i] /\ ~GateDone(plan, plan.order[i])
          /\ \A j \in 1 .. i - 1 : GateDone(plan, plan.order[j])
    BY <1>2, <1>5, ActiveIsFirst
  <2> HIDE DEF a
  <2> DEFINE gate == [plan.gates[a] EXCEPT !.evidence = plan.gates[a].evidence \cup {"note"}]
  <2>2. [plan EXCEPT !.gates[a].evidence = @ \cup {"note"}] = [plan EXCEPT !.gates[a] = gate]
    OBVIOUS
  <2>3. a \in ToSet(plan.order)
    BY <1>2, <2>1, OrderIsSequence DEF PlanInv
  <2>4. GateInv(a, plan.gates[a]) /\ plan.gates[a].status # "target"
    BY <1>2, <2>1, <2>3 DEF PlanInv, GateDone
  <2>5. "note" \in Kinds
    BY DEF Kinds
  <2>6. GateInv(a, gate)
    BY <2>4, <2>5, WorkedGate
  <2> HIDE DEF gate
  <2>7. PlanInv([plan EXCEPT !.gates[a] = gate])
    BY <1>2, <2>1, <2>6, GateChanges
  <2>8. Writes(r, "save", [plan EXCEPT !.gates[a] = gate])
    BY <1>3, <1>5, <2>2
  <2> QED
    BY <2>7, <2>8, WritesPlan
<1> QED
  BY <1>4, <1>5

(* A command that ends, or is killed, leaves the others alone.             *)
LEMMA RunnerGoes ==
  ASSUME ControlInv, NEW r \in Runners, NEW x, x = [pc |-> x.pc, plan |-> x.plan],
         x.pc \in {"save", "render"} => PlanInv(x.plan), runner' = [runner EXCEPT ![r] = x],
         file' = NoFile \/ PlanInv(file'),
         dashboard' = NoFile \/ dashboard'.blocked \subseteq {dashboard'.next}
  PROVE  ControlInv'
<1>1. runner' = [s \in Runners |-> IF s = r THEN x ELSE runner[s]]
  BY DEF ControlInv
<1>2. \A s \in Runners : /\ runner'[s] = [pc |-> runner'[s].pc, plan |-> runner'[s].plan]
                         /\ runner'[s].pc \in {"save", "render"} => PlanInv(runner'[s].plan)
  BY <1>1 DEF ControlInv
<1>3. runner' = [s \in Runners |-> runner'[s]]
  BY <1>1
<1> QED
  BY <1>2, <1>3 DEF ControlInv

LEMMA SaveStep ==
  ASSUME ControlInv, NEW r \in Runners, Save(r)
  PROVE  ControlInv'
<1> DEFINE x == [runner[r] EXCEPT !.pc = "render"]
<1>1. PICK pc, plan : runner[r] = [pc |-> pc, plan |-> plan]
  BY DEF ControlInv
<1>2. x = [pc |-> "render", plan |-> plan] /\ runner[r].plan = plan
  BY <1>1
<1>3. PlanInv(plan) /\ file' = plan /\ UNCHANGED dashboard
  BY <1>2 DEF Save, ControlInv
<1>4. runner' = [runner EXCEPT ![r] = x]
  BY DEF Save
<1> HIDE DEF x
<1>5. x = [pc |-> x.pc, plan |-> x.plan] /\ PlanInv(x.plan)
  BY <1>2, <1>3
<1>6. dashboard' = NoFile \/ dashboard'.blocked \subseteq {dashboard'.next}
  BY <1>3 DEF ControlInv
<1> QED
  BY <1>3, <1>4, <1>5, <1>6, RunnerGoes

LEMMA ShownIsSound ==
  ASSUME NEW plan, PlanInv(plan)
  PROVE  Shown(plan).blocked \subseteq {Shown(plan).next}
<1>1. Shown(plan).blocked = {g \in ToSet(plan.order) : plan.gates[g].open > 0}
  BY DEF Shown
<1>2. Undone(plan) # {} => Shown(plan).next = ActiveGate(plan)
  BY DEF Shown
<1> QED
  BY <1>1, <1>2, BlockedIsActive

LEMMA EndStep ==
  ASSUME ControlInv, NEW r \in Runners, Render(r) \/ Killed(r)
  PROVE  ControlInv'
<1>1. /\ NoCommand = [pc |-> NoCommand.pc, plan |-> NoCommand.plan]
      /\ ~(NoCommand.pc \in {"save", "render"})
  BY DEF NoCommand
<1>2. runner' = [runner EXCEPT ![r] = NoCommand] /\ file' = file
  BY DEF Render, Killed
<1>3. file' = NoFile \/ PlanInv(file')
  BY <1>2 DEF ControlInv
<1>4. dashboard' = NoFile \/ dashboard'.blocked \subseteq {dashboard'.next}
  <2>1. CASE Render(r)
    <3>1. PlanInv(runner[r].plan) /\ dashboard' = Shown(runner[r].plan)
      BY <2>1 DEF Render, ControlInv
    <3> QED
      BY <3>1, ShownIsSound
  <2>2. CASE Killed(r)
    BY <2>2 DEF Killed, ControlInv
  <2> QED
    BY <2>1, <2>2
<1> QED
  BY <1>1, <1>2, <1>3, <1>4, RunnerGoes

LEMMA ControlStep == ControlInv /\ [PlanNext]_plvars => ControlInv'
<1> SUFFICES ASSUME ControlInv, [PlanNext]_plvars PROVE ControlInv'
  OBVIOUS
<1>1. CASE UNCHANGED plvars
  BY <1>1 DEF plvars, ControlInv
<1>2. ASSUME NEW r \in Runners,
             \/ InitPlan(r) \/ Verify(r) \/ SyncPlan(r) \/ Save(r) \/ Render(r) \/ Killed(r)
             \/ \E g \in ToSet(Legacy) :
                  \/ Start(r, g) \/ Complete(r, g) \/ Block(r, g) \/ Unblock(r, g)
                  \/ \E kind \in Required[g] : Evidence(r, g, kind)
      PROVE  ControlInv'
  BY <1>2, InitStep, SyncStep, SaveStep, EndStep, GateStep, UnblockStep
<1> QED
  BY <1>1, <1>2 DEF PlanNext

(* The commands of the plan, any number of them at one time: the file is   *)
(* that of a plan worked through in its order, whoever is killed and       *)
(* whichever file is written last, and so is what the dashboard shows; for *)
(* every list of gates, an earlier controller's that keeps their order     *)
(* among them.                                                             *)
THEOREM PlanOrder == PlanSpec => []PlanIsInOrder
<1>1. ControlInv => PlanIsInOrder
  <2> SUFFICES ASSUME ControlInv PROVE PlanIsInOrder
    OBVIOUS
  <2>1. ASSUME file # NoFile
        PROVE  /\ \A i \in DOMAIN file.order : LET gate == file.gates[file.order[i]] IN
                    /\ gate # NewPlan(Legacy).gates[file.order[i]] =>
                         \A j \in 1 .. i - 1 : GateDone(file, file.order[j])
                    /\ gate.status = "target" => Required[file.order[i]] \subseteq gate.evidence
                    /\ gate.status = "BLOQUEADO" <=> gate.open > 0
               /\ Undone(file) = {} => FinalIssues(file) = {e \in {"errors"} : HasErrors(file)}
    <3>1. PlanInv(file)
      BY <2>1 DEF ControlInv
    <3>2. \A i \in DOMAIN file.order : file.order[i] \in ToSet(file.order) /\ file.order[i] \in ToSet(Legacy)
      BY <3>1, OrderIsSequence DEF PlanInv
    <3>3. \A g \in ToSet(Legacy) : NewPlan(Legacy).gates[g] = Fresh
      BY DEF NewPlan, Fresh
    <3>4. ASSUME NEW i \in DOMAIN file.order
          PROVE  LET gate == file.gates[file.order[i]] IN
                    /\ gate # NewPlan(Legacy).gates[file.order[i]] =>
                         \A j \in 1 .. i - 1 : GateDone(file, file.order[j])
                    /\ gate.status = "target" => Required[file.order[i]] \subseteq gate.evidence
                    /\ gate.status = "BLOQUEADO" <=> gate.open > 0
      BY <3>1, <3>2, <3>3 DEF PlanInv, InOrder, GateInv
    <3>5. ASSUME Undone(file) = {}, NEW g \in ToSet(file.order)
          PROVE  GateDone(file, g) /\ Required[g] \subseteq file.gates[g].evidence /\ ~(file.gates[g].open > 0)
      <4>1. PICK i \in DOMAIN file.order : file.order[i] = g
        BY <3>1, OrderIsSequence DEF PlanInv
      <4>2. GateDone(file, g)
        BY <3>5, <4>1 DEF Undone
      <4>3. GateInv(g, file.gates[g])
        BY <3>1 DEF PlanInv
      <4> QED
        BY <4>2, <4>3 DEF GateInv, GateDone
    <3>6. Undone(file) = {} => FinalIssues(file) = {e \in {"errors"} : HasErrors(file)}
      BY <3>5 DEF FinalIssues
    <3> QED
      BY <3>4, <3>6
  <2> QED
    BY <2>1 DEF PlanIsInOrder, ControlInv
<1> QED
  BY ControlStarts, ControlStep, <1>1, PTL DEF PlanSpec

-------------------------------------------------------------------------------
(* PageOcr.                                                                *)

OcrSpec == OcrInit /\ [][OcrNext]_pvars

Breaker == [failures : Seq(Nat), opened : Nat \cup {Nothing}]
Page == [pc : {"none", "primary", "persist", "fallback", "done", "failed"},
         kept : Recognitions \cup {Nothing}, result : Recognitions \cup {Nothing}]

(* The pages whose answer a provider owes.                                 *)
At(x) == IF x = "primary" THEN {"primary", "persist"} ELSE {"fallback"}
InFlight(pages, x) == {p \in Pages : pages[p].pc \in At(x)}

(* n pages that are on their way to a provider may all fail.               *)
BreakerInv(b, n) ==
  b.opened = Nothing \/ b.opened < HalfOpen => Len(b.failures) + n <= Threshold - 1 + Cardinality(Pages)

(* What was recognised is only kept with its response in the storage, and  *)
(* a page that has nothing kept has not been recognised yet.               *)
PageInv(q, stored) ==
  /\ q.pc \in {"none", "primary", "persist", "failed"} => q.kept = Nothing
  /\ q.pc = "persist" => q.result # Nothing
  /\ q.kept # Nothing => stored
  /\ q.pc = "done" /\ q.result.by = "google" => stored

OcrInv ==
  /\ second \in Adapters
  /\ breaker \in [Chain -> Breaker]
  /\ page \in [Pages -> Page]
  /\ \A x \in Chain : BreakerInv(breaker[x], Cardinality(InFlight(page, x)))
  /\ \A p \in Pages : PageInv(page[p], p \in bucket)

(* Pages at one provider.                                                  *)
LEMMA PagesAt ==
  ASSUME NEW S \in SUBSET Pages
  PROVE  /\ Cardinality(S) \in Nat /\ Cardinality(S) <= Cardinality(Pages) /\ Cardinality(Pages) \in Nat
         /\ \A p \in S : Cardinality(S \ {p}) = Cardinality(S) - 1
<1>1. IsFiniteSet(Pages) /\ IsFiniteSet(S) /\ Cardinality(S) <= Cardinality(Pages)
  BY OcrAssumption, FS_Subset
<1>2. Cardinality(S) \in Nat /\ Cardinality(Pages) \in Nat
  BY <1>1, FS_CardinalityType
<1>3. \A p \in S : Cardinality(S \ {p}) = Cardinality(S) - 1
  BY <1>1, FS_RemoveElement
<1> QED
  BY <1>1, <1>2, <1>3

LEMMA InFlightAfter ==
  ASSUME NEW pages \in [Pages -> Page], NEW p \in Pages, NEW q \in Page, NEW x \in Chain
  PROVE  LET after == [pages EXCEPT ![p] = q] IN
         /\ Cardinality(InFlight(pages, x)) \in Nat
         /\ Cardinality(InFlight(after, x)) \in Nat
         /\ Cardinality(InFlight(after, x)) <= Cardinality(Pages)
         /\ (pages[p].pc \in At(x) <=> q.pc \in At(x))
              => Cardinality(InFlight(after, x)) = Cardinality(InFlight(pages, x))
         /\ pages[p].pc \in At(x) /\ q.pc \notin At(x)
              => Cardinality(InFlight(after, x)) = Cardinality(InFlight(pages, x)) - 1
<1> DEFINE after == [pages EXCEPT ![p] = q]
           A == InFlight(pages, x)
           B == InFlight(after, x)
<1>1. A \in SUBSET Pages /\ B \in SUBSET Pages
  BY DEF InFlight
<1>2. \A o \in Pages : after[o] = IF o = p THEN q ELSE pages[o]
  OBVIOUS
<1> HIDE DEF after
<1>3. (pages[p].pc \in At(x) <=> q.pc \in At(x)) => A = B
  BY <1>2 DEF InFlight
<1>4. pages[p].pc \in At(x) /\ q.pc \notin At(x) => B = A \ {p} /\ p \in A
  BY <1>2 DEF InFlight
<1> HIDE DEF A, B
<1>5. /\ Cardinality(A) \in Nat /\ Cardinality(B) \in Nat /\ Cardinality(B) <= Cardinality(Pages)
      /\ p \in A => Cardinality(A \ {p}) = Cardinality(A) - 1
  BY <1>1, PagesAt
<1> QED
  BY <1>3, <1>4, <1>5 DEF A, B, after

LEMMA OcrStarts == OcrInit => OcrInv
<1> SUFFICES ASSUME OcrInit PROVE OcrInv
  OBVIOUS
<1> DEFINE b == [failures |-> <<>>, opened |-> Nothing]
<1>1. b \in Breaker /\ Len(b.failures) = 0
  <2>1. <<>> \in Seq(Nat) /\ Len(<<>>) = 0
    OBVIOUS
  <2> QED
    BY <2>1 DEF Breaker
<1>2. Blank \in Page /\ Blank.pc = "none" /\ Blank.kept = Nothing
  BY DEF Blank, Page
<1> HIDE DEF b
<1>3. breaker = [x \in Chain |-> b] /\ page = [p \in Pages |-> Blank] /\ second \in Adapters
  BY DEF OcrInit, b
<1>4. breaker \in [Chain -> Breaker] /\ page \in [Pages -> Page]
  BY <1>1, <1>2, <1>3
<1>5. ASSUME NEW x \in Chain PROVE BreakerInv(breaker[x], Cardinality(InFlight(page, x)))
  <2>1. InFlight(page, x) \in SUBSET Pages
    BY DEF InFlight
  <2>2. /\ Cardinality(InFlight(page, x)) \in Nat /\ Cardinality(Pages) \in Nat
        /\ Cardinality(InFlight(page, x)) <= Cardinality(Pages)
    BY <2>1, PagesAt
  <2>3. Threshold \in Nat /\ Threshold > 0
    BY OcrAssumption
  <2> QED
    BY <1>1, <1>3, <2>2, <2>3 DEF BreakerInv
<1>6. \A p \in Pages : PageInv(page[p], p \in bucket)
  BY <1>2, <1>3 DEF PageInv
<1> QED
  BY <1>3, <1>4, <1>5, <1>6 DEF OcrInv

-------------------------------------------------------------------------------
(* What is left of a breaker.                                              *)

LEMMA LookedAt ==
  ASSUME NEW b \in Breaker
  PROVE  LET look == [b EXCEPT !.opened = Opened(b)] IN
         /\ look \in Breaker /\ look.failures = b.failures
         /\ \A n : BreakerInv(b, n) => BreakerInv(look, n)
         /\ ~IsOpen(b) => \A n \in Nat : n <= Cardinality(Pages) => BreakerInv(look, n)
<1> DEFINE look == [b EXCEPT !.opened = Opened(b)]
<1>1. b.failures \in Seq(Nat) /\ b.opened \in Nat \cup {Nothing} /\ Len(b.failures) \in Nat
  BY DEF Breaker
<1>2. Opened(b) \in Nat \cup {Nothing}
  BY <1>1 DEF Opened
<1>3. look \in Breaker /\ look.failures = b.failures /\ look.opened = Opened(b)
  BY <1>2 DEF Breaker
<1>4. Threshold \in Nat /\ HalfOpen \in Nat /\ HalfOpen > 0 /\ Nothing \notin Nat
  BY OcrAssumption
<1>5. Cardinality(Pages) \in Nat
  BY PagesAt
<1> HIDE DEF look
<1>6. ASSUME NEW n, BreakerInv(b, n) PROVE BreakerInv(look, n)
  <2>1. Opened(b) = Nothing \/ Opened(b) < HalfOpen => b.opened = Nothing \/ b.opened < HalfOpen
    BY DEF Opened
  <2> QED
    BY <1>3, <1>6, <2>1 DEF BreakerInv
<1>7. ASSUME ~IsOpen(b), NEW n \in Nat, n <= Cardinality(Pages) PROVE BreakerInv(look, n)
  <2>1. Opened(b) = Nothing \/ ~(Opened(b) < HalfOpen)
    BY <1>7 DEF IsOpen
  <2>2. CASE Opened(b) = Nothing
    <3>1. ~(Len(b.failures) >= Threshold)
      BY <1>4, <2>2 DEF Opened
    <3> QED
      BY <1>1, <1>3, <1>4, <1>5, <1>7, <3>1 DEF BreakerInv
  <2>3. CASE Opened(b) # Nothing
    BY <1>3, <2>1, <2>3 DEF BreakerInv
  <2> QED
    BY <2>2, <2>3
<1> QED
  BY <1>3, <1>6, <1>7 DEF look

LEMMA FailedOnce ==
  ASSUME NEW b \in Breaker, NEW n \in Nat, n > 0, BreakerInv(b, n)
  PROVE  LET old == b.failures
             fail == [b EXCEPT !.failures = Append(IF Len(old) = Kept THEN Tail(old) ELSE old, 0)] IN
         fail \in Breaker /\ BreakerInv(fail, n - 1)
<1> DEFINE old == b.failures
           rest == IF Len(old) = Kept THEN Tail(old) ELSE old
           new == Append(rest, 0)
           fail == [b EXCEPT !.failures = new]
<1>1. old \in Seq(Nat) /\ b.opened \in Nat \cup {Nothing} /\ Len(old) \in Nat
  BY DEF Breaker
<1>2. Kept \in Nat /\ Kept > 0 /\ Threshold \in Nat
  BY OcrAssumption
<1>3. rest \in Seq(Nat) /\ Len(rest) \in Nat /\ Len(rest) <= Len(old)
  <2> HIDE DEF old
  <2>1. CASE Len(old) = Kept
    <3>1. old # <<>>
      BY <1>2, <2>1
    <3>2. Tail(old) \in Seq(Nat) /\ Len(Tail(old)) = Len(old) - 1
      BY <1>1, <3>1
    <3> QED
      BY <1>1, <1>2, <2>1, <3>2
  <2>2. CASE Len(old) # Kept
    BY <1>1, <2>2
  <2> QED
    BY <2>1, <2>2
<1> HIDE DEF rest
<1>4. new \in Seq(Nat) /\ Len(new) = Len(rest) + 1
  BY <1>3
<1> HIDE DEF new
<1>5. fail \in Breaker /\ fail.failures = new /\ fail.opened = b.opened
  BY <1>4 DEF Breaker
<1> HIDE DEF fail
<1>6. Cardinality(Pages) \in Nat
  BY PagesAt
<1>7. BreakerInv(fail, n - 1)
  BY <1>1, <1>2, <1>3, <1>4, <1>5, <1>6 DEF BreakerInv
<1> QED
  BY <1>5, <1>7 DEF fail, new, rest

LEMMA SucceededNow ==
  LET b == [failures |-> <<>>, opened |-> Nothing] IN
  b \in Breaker /\ \A n \in Nat : n <= Cardinality(Pages) => BreakerInv(b, n)
<1> DEFINE b == [failures |-> <<>>, opened |-> Nothing]
<1>1. b \in Breaker /\ Len(b.failures) = 0
  <2>1. <<>> \in Seq(Nat) /\ Len(<<>>) = 0
    OBVIOUS
  <2> QED
    BY <2>1 DEF Breaker
<1> HIDE DEF b
<1>2. Threshold \in Nat /\ Threshold > 0 /\ Cardinality(Pages) \in Nat
  BY OcrAssumption, PagesAt
<1>3. \A n \in Nat : n <= Cardinality(Pages) => BreakerInv(b, n)
  BY <1>1, <1>2 DEF BreakerInv
<1> QED
  BY <1>1, <1>3 DEF b

-------------------------------------------------------------------------------
(* One page and the breakers change.                                       *)
LEMMA OnePage ==
  ASSUME OcrInv, NEW p \in Pages, NEW b \in [Chain -> Breaker], NEW q \in Page,
         second' = second, breaker' = b, page' = [page EXCEPT ![p] = q], bucket' \ {p} = bucket \ {p},
         PageInv(q, p \in bucket'), \A x \in Chain : BreakerInv(b[x], Cardinality(InFlight(page', x)))
  PROVE  OcrInv'
<1>1. page' \in [Pages -> Page] /\ \A o \in Pages : page'[o] = IF o = p THEN q ELSE page[o]
  BY DEF OcrInv
<1>2. ASSUME NEW o \in Pages PROVE PageInv(page'[o], o \in bucket')
  <2>1. CASE o = p
    BY <1>1, <2>1
  <2>2. CASE o # p
    <3>1. page'[o] = page[o] /\ (o \in bucket' <=> o \in bucket)
      BY <1>1, <2>2
    <3>2. PageInv(page[o], o \in bucket)
      BY DEF OcrInv
    <3> QED
      BY <3>1, <3>2 DEF PageInv
  <2> QED
    BY <2>1, <2>2
<1>3. second' \in Adapters /\ breaker' \in [Chain -> Breaker]
  BY DEF OcrInv
<1> QED
  BY <1>1, <1>2, <1>3 DEF OcrInv

LEMMA LookedBreakers ==
  ASSUME NEW bs \in [Chain -> Breaker], NEW x \in Chain
  PROVE  /\ Looked(bs, x) \in [Chain -> Breaker]
         /\ Looked(bs, x)[x] = [bs[x] EXCEPT !.opened = Opened(bs[x])]
         /\ \A y \in Chain : y # x => Looked(bs, x)[y] = bs[y]
<1>1. bs[x] \in Breaker /\ [bs[x] EXCEPT !.opened = Opened(bs[x])] \in Breaker
  BY LookedAt
<1>2. Looked(bs, x) = [bs EXCEPT ![x] = [bs[x] EXCEPT !.opened = Opened(bs[x])]]
  BY DEF Looked
<1> QED
  BY <1>1, <1>2

(* The first provider has answered or failed, and the page goes on.        *)
LEMMA EndsAfterPrimary ==
  ASSUME OcrInv, NEW p \in Pages, page[p].pc \in {"primary", "persist"}, NEW bs \in [Chain -> Breaker],
         NEW kept \in Recognitions \cup {Nothing},
         BreakerInv(bs["primary"], Cardinality(InFlight(page, "primary")) - 1),
         BreakerInv(bs["fallback"], Cardinality(InFlight(page, "fallback"))),
         Ends(p, bs, kept), second' = second, bucket' \ {p} = bucket \ {p},
         kept # Nothing => p \in bucket'
  PROVE  OcrInv'
<1> DEFINE pc == IF kept = Nothing THEN "failed" ELSE "done"
           q == [page[p] EXCEPT !.pc = pc, !.result = kept]
<1>1. breaker' = bs /\ page' = [page EXCEPT ![p] = q]
  BY DEF Ends, OcrInv
<1>2. page[p] \in Page /\ page \in [Pages -> Page] /\ page[p].kept = Nothing
  BY DEF OcrInv, PageInv
<1>3. pc \in {"failed", "done"} /\ (pc = "done" <=> kept # Nothing)
  OBVIOUS
<1> HIDE DEF pc
<1>4. q \in Page /\ q.pc = pc /\ q.kept = Nothing /\ q.result = kept
  BY <1>2, <1>3 DEF Page
<1> HIDE DEF q
<1>5. PageInv(q, p \in bucket')
  BY <1>3, <1>4 DEF PageInv
<1>6. q.pc \notin At("primary") /\ q.pc \notin At("fallback") /\ page[p].pc \in At("primary")
      /\ page[p].pc \notin At("fallback")
  BY <1>3, <1>4 DEF At
<1>7. /\ Cardinality(InFlight(page', "primary")) = Cardinality(InFlight(page, "primary")) - 1
      /\ Cardinality(InFlight(page', "fallback")) = Cardinality(InFlight(page, "fallback"))
  BY <1>1, <1>2, <1>4, <1>6, InFlightAfter DEF Chain
<1>8. \A x \in Chain : BreakerInv(bs[x], Cardinality(InFlight(page', x)))
  BY <1>7 DEF Chain
<1> QED
  BY <1>1, <1>4, <1>5, <1>8, OnePage

LEMMA FallsBackAfterPrimary ==
  ASSUME OcrInv, NEW p \in Pages, page[p].pc \in {"primary", "persist"}, NEW bs \in [Chain -> Breaker],
         NEW kept \in Recognitions \cup {Nothing},
         BreakerInv(bs["primary"], Cardinality(InFlight(page, "primary")) - 1),
         BreakerInv(bs["fallback"], Cardinality(InFlight(page, "fallback"))),
         FallsBack(p, bs, kept), second' = second, bucket' \ {p} = bucket \ {p},
         kept # Nothing => p \in bucket'
  PROVE  OcrInv'
<1> DEFINE look == Looked(bs, "fallback")
<1>1. /\ look \in [Chain -> Breaker] /\ look["primary"] = bs["primary"]
      /\ look["fallback"] = [bs["fallback"] EXCEPT !.opened = Opened(bs["fallback"])]
  BY LookedBreakers DEF Chain
<1>2. bs["fallback"] \in Breaker
  BY DEF Chain
<1>3. BreakerInv(look["fallback"], Cardinality(InFlight(page, "fallback")))
  BY <1>1, <1>2, LookedAt
<1>4. CASE second = Nothing
  BY <1>4, EndsAfterPrimary DEF FallsBack
<1>5. CASE second # Nothing /\ IsOpen(bs.fallback)
  <2>1. Ends(p, look, kept)
    BY <1>5 DEF FallsBack
  <2> HIDE DEF look
  <2> QED
    BY <1>1, <1>3, <2>1, EndsAfterPrimary
<1>6. CASE second # Nothing /\ ~IsOpen(bs.fallback)
  <2> DEFINE q == [page[p] EXCEPT !.pc = "fallback", !.kept = kept]
  <2>1. Calls(p, look, "fallback", kept)
    BY <1>6 DEF FallsBack
  <2>2. \A n \in Nat : n <= Cardinality(Pages) => BreakerInv(look["fallback"], n)
    BY <1>1, <1>2, <1>6, LookedAt
  <2> HIDE DEF look
  <2>3. breaker' = look /\ page' = [page EXCEPT ![p] = q]
    BY <2>1 DEF Calls, OcrInv
  <2>4. page[p] \in Page /\ page \in [Pages -> Page]
    BY DEF OcrInv
  <2>5. q \in Page /\ q.pc = "fallback" /\ q.kept = kept
    BY <2>4 DEF Page
  <2> HIDE DEF q
  <2>6. PageInv(q, p \in bucket')
    BY <2>5 DEF PageInv
  <2>7. q.pc \notin At("primary") /\ page[p].pc \in At("primary")
    BY <2>5 DEF At
  <2>8. /\ Cardinality(InFlight(page', "primary")) = Cardinality(InFlight(page, "primary")) - 1
        /\ Cardinality(InFlight(page', "fallback")) \in Nat
        /\ Cardinality(InFlight(page', "fallback")) <= Cardinality(Pages)
    BY <2>3, <2>4, <2>5, <2>7, InFlightAfter DEF Chain
  <2>9. \A x \in Chain : BreakerInv(look[x], Cardinality(InFlight(page', x)))
    BY <1>1, <2>2, <2>8 DEF Chain
  <2> QED
    BY <1>1, <2>3, <2>5, <2>6, <2>9, OnePage
<1> QED
  BY <1>4, <1>5, <1>6

(* A page that is recognised anew is on its way to nobody.                 *)
LEMMA AnalyzeStep ==
  ASSUME OcrInv, NEW p \in Pages, AnalyzePage(p)
  PROVE  OcrInv'
<1> DEFINE one == Looked(breaker, "primary")
           both == Looked(one, "fallback")
<1>1. breaker \in [Chain -> Breaker] /\ page \in [Pages -> Page] /\ second' = second
      /\ breaker["primary"] \in Breaker /\ breaker["fallback"] \in Breaker
      /\ BreakerInv(breaker["primary"], Cardinality(InFlight(page, "primary")))
      /\ BreakerInv(breaker["fallback"], Cardinality(InFlight(page, "fallback")))
  BY DEF OcrInv, AnalyzePage, Chain
<1>2. /\ one \in [Chain -> Breaker] /\ one["fallback"] = breaker["fallback"]
      /\ one["primary"] = [breaker["primary"] EXCEPT !.opened = Opened(breaker["primary"])]
  BY <1>1, LookedBreakers DEF Chain
<1>3. BreakerInv(one["primary"], Cardinality(InFlight(page, "primary")))
  BY <1>1, <1>2, LookedAt
<1> HIDE DEF one
<1>4. /\ both \in [Chain -> Breaker] /\ both["primary"] = one["primary"]
      /\ both["fallback"] = [breaker["fallback"] EXCEPT !.opened = Opened(breaker["fallback"])]
  BY <1>2, LookedBreakers DEF Chain
<1>5. BreakerInv(both["fallback"], Cardinality(InFlight(page, "fallback")))
  BY <1>1, <1>4, LookedAt
<1> HIDE DEF both
<1>6. ASSUME NEW pc \in {"primary", "fallback", "failed"}, NEW b \in {one, both},
             page' = [page EXCEPT ![p] = [Blank EXCEPT !.pc = pc]], breaker' = b,
             pc = "primary" => b = one /\ ~IsOpen(breaker["primary"]),
             pc = "fallback" => b = both /\ ~IsOpen(breaker["fallback"])
      PROVE  OcrInv'
  <2> DEFINE q == [Blank EXCEPT !.pc = pc]
  <2>1. q \in Page /\ q.pc = pc /\ q.kept = Nothing
    BY DEF Blank, Page
  <2> HIDE DEF q
  <2>2. PageInv(q, p \in bucket')
    BY <2>1 DEF PageInv
  <2>3. page' = [page EXCEPT ![p] = q]
    BY <1>6 DEF q
  <2>4. \A x \in Chain : page[p].pc \notin At(x)
    BY DEF AnalyzePage, At, Chain
  <2>5. ASSUME NEW x \in Chain PROVE BreakerInv(b[x], Cardinality(InFlight(page', x)))
    <3>1. /\ Cardinality(InFlight(page', x)) \in Nat
          /\ Cardinality(InFlight(page', x)) <= Cardinality(Pages)
          /\ pc \notin At(x) => Cardinality(InFlight(page', x)) = Cardinality(InFlight(page, x))
      <4>1. page[p].pc \notin At(x)
        BY <2>4
      <4> QED
        BY <1>1, <2>1, <2>3, <4>1, InFlightAfter
    <3>2. CASE pc \notin At(x)
      <4>1. BreakerInv(b[x], Cardinality(InFlight(page, x)))
        BY <1>1, <1>2, <1>3, <1>4, <1>5 DEF Chain
      <4> QED
        BY <3>1, <3>2, <4>1
    <3>3. CASE pc \in At(x)
      <4>1. pc = x /\ pc \in {"primary", "fallback"}
        BY <3>3 DEF At, Chain
      <4>2. \A n \in Nat : n <= Cardinality(Pages) => BreakerInv(b[x], n)
        BY <1>1, <1>2, <1>4, <1>6, <4>1, LookedAt
      <4> QED
        BY <3>1, <4>2
    <3> QED
      BY <3>2, <3>3
  <2>6. b \in [Chain -> Breaker]
    BY <1>2, <1>4
  <2>7. bucket' \ {p} = bucket \ {p}
    BY DEF AnalyzePage
  <2> QED
    BY <1>1, <1>6, <2>1, <2>2, <2>3, <2>5, <2>6, <2>7, OnePage
<1>7. CASE ~IsOpen(breaker.primary)
  BY <1>6, <1>7 DEF AnalyzePage, one
<1>8. CASE IsOpen(breaker.primary) /\ second = Nothing
  BY <1>6, <1>8 DEF AnalyzePage, one
<1>9. CASE IsOpen(breaker.primary) /\ second # Nothing
  <2>1. /\ breaker' = both
        /\ page' = [page EXCEPT ![p] = [Blank EXCEPT !.pc = IF IsOpen(breaker.fallback) THEN "failed" ELSE "fallback"]]
    BY <1>9 DEF AnalyzePage, one, both
  <2> QED
    BY <1>6, <2>1
<1> QED
  BY <1>7, <1>8, <1>9

LEMMA PrimaryFailsStep ==
  ASSUME OcrInv, NEW p \in Pages, PrimaryFails(p)
  PROVE  OcrInv'
<1> DEFINE bs == Failed(breaker, "primary")
           b == breaker["primary"]
           old == b.failures
           fail == [b EXCEPT !.failures = Append(IF Len(old) = Kept THEN Tail(old) ELSE old, 0)]
<1>1. /\ breaker \in [Chain -> Breaker] /\ page \in [Pages -> Page] /\ b \in Breaker
      /\ page[p].pc \in {"primary", "persist"} /\ second' = second
      /\ BreakerInv(b, Cardinality(InFlight(page, "primary")))
      /\ BreakerInv(breaker["fallback"], Cardinality(InFlight(page, "fallback")))
  BY DEF OcrInv, PrimaryFails, Chain
<1>2. bs = [breaker EXCEPT !["primary"] = fail]
  BY DEF Failed
<1>3. Cardinality(InFlight(page, "primary")) \in Nat /\ Cardinality(InFlight(page, "primary")) > 0
  <2>1. p \in InFlight(page, "primary") /\ InFlight(page, "primary") \in SUBSET Pages
    BY <1>1 DEF InFlight, At
  <2>2. /\ Cardinality(InFlight(page, "primary")) \in Nat
        /\ Cardinality(InFlight(page, "primary") \ {p}) = Cardinality(InFlight(page, "primary")) - 1
    BY <2>1, PagesAt
  <2>3. Cardinality(InFlight(page, "primary") \ {p}) \in Nat
    <3>1. InFlight(page, "primary") \ {p} \in SUBSET Pages
      BY <2>1
    <3> QED
      BY <3>1, PagesAt
  <2> QED
    BY <2>2, <2>3
<1>4. fail \in Breaker /\ BreakerInv(fail, Cardinality(InFlight(page, "primary")) - 1)
  <2> HIDE DEF b
  <2> QED
    BY <1>1, <1>3, FailedOnce
<1> HIDE DEF fail
<1>5. bs \in [Chain -> Breaker] /\ bs["primary"] = fail /\ bs["fallback"] = breaker["fallback"]
  BY <1>1, <1>2, <1>4 DEF Chain
<1>6. FallsBack(p, bs, Nothing) /\ bucket' \in {bucket, bucket \cup {p}}
  BY DEF PrimaryFails
<1>7. bucket' \ {p} = bucket \ {p}
  BY <1>6
<1> HIDE DEF bs
<1> QED
  BY <1>1, <1>4, <1>5, <1>6, <1>7, FallsBackAfterPrimary

LEMMA PersistStep ==
  ASSUME OcrInv, NEW p \in Pages, Persist(p)
  PROVE  OcrInv'
<1> DEFINE bs == Succeeded(breaker, "primary")
           fresh == [failures |-> <<>>, opened |-> Nothing]
           r == page[p].result
<1>1. /\ breaker \in [Chain -> Breaker] /\ page \in [Pages -> Page]
      /\ page[p].pc = "persist" /\ second' = second /\ bucket' = bucket \cup {p}
      /\ BreakerInv(breaker["fallback"], Cardinality(InFlight(page, "fallback")))
  BY DEF OcrInv, Persist, Chain
<1>2. r \in Recognitions \cup {Nothing}
  BY <1>1 DEF Page
<1>3. fresh \in Breaker /\ \A n \in Nat : n <= Cardinality(Pages) => BreakerInv(fresh, n)
  BY SucceededNow
<1>4. bs = [breaker EXCEPT !["primary"] = fresh]
  BY DEF Succeeded
<1> HIDE DEF fresh
<1>5. bs \in [Chain -> Breaker] /\ bs["primary"] = fresh /\ bs["fallback"] = breaker["fallback"]
  BY <1>1, <1>3, <1>4 DEF Chain
<1>6. /\ Cardinality(InFlight(page, "primary")) - 1 \in Nat
      /\ Cardinality(InFlight(page, "primary")) - 1 <= Cardinality(Pages)
  <2>1. p \in InFlight(page, "primary") /\ InFlight(page, "primary") \in SUBSET Pages
        /\ InFlight(page, "primary") \ {p} \in SUBSET Pages
    BY <1>1 DEF InFlight, At
  <2> QED
    BY <2>1, PagesAt
<1>7. BreakerInv(bs["primary"], Cardinality(InFlight(page, "primary")) - 1)
  BY <1>3, <1>5, <1>6
<1>8. FallsBack(p, bs, r) \/ Ends(p, bs, r)
  BY DEF Persist
<1>9. bucket' \ {p} = bucket \ {p} /\ p \in bucket'
  BY <1>1
<1> HIDE DEF bs, r
<1> QED
  BY <1>1, <1>2, <1>5, <1>7, <1>8, <1>9, FallsBackAfterPrimary, EndsAfterPrimary

LEMMA PrimaryRespondsStep ==
  ASSUME OcrInv, NEW p \in Pages, PrimaryResponds(p)
  PROVE  OcrInv'
<1>1. PICK r \in GoogleResults(p) : page' = [page EXCEPT ![p].result = r, ![p].pc = "persist"]
  BY DEF PrimaryResponds
<1> DEFINE q == [page[p] EXCEPT !.result = r, !.pc = "persist"]
<1>2. /\ page[p] \in Page /\ page \in [Pages -> Page] /\ page[p].pc = "primary" /\ page[p].kept = Nothing
      /\ UNCHANGED <<second, breaker, bucket>> /\ breaker \in [Chain -> Breaker]
      /\ \A x \in Chain : BreakerInv(breaker[x], Cardinality(InFlight(page, x)))
  BY DEF OcrInv, PageInv, PrimaryResponds
<1>3. r \in Recognitions
  BY DEF GoogleResults, Results, Recognitions
<1>4. page' = [page EXCEPT ![p] = q]
  BY <1>1, <1>2
<1>5. q \in Page /\ q.pc = "persist" /\ q.kept = Nothing /\ q.result = r
  BY <1>2, <1>3 DEF Page
<1> HIDE DEF q
<1>6. PageInv(q, p \in bucket')
  BY <1>3, <1>5, OcrAssumption DEF PageInv
<1>7. ASSUME NEW x \in Chain PROVE BreakerInv(breaker[x], Cardinality(InFlight(page', x)))
  <2>1. page[p].pc \in At(x) <=> q.pc \in At(x)
    BY <1>2, <1>5 DEF At
  <2>2. Cardinality(InFlight(page', x)) = Cardinality(InFlight(page, x))
    BY <1>2, <1>4, <1>5, <2>1, InFlightAfter
  <2> QED
    BY <1>2, <2>2
<1> QED
  BY <1>2, <1>4, <1>5, <1>6, <1>7, OnePage

(* The second provider has answered or failed.                             *)
LEMMA EndsAfterFallback ==
  ASSUME OcrInv, NEW p \in Pages, page[p].pc = "fallback", NEW bs \in [Chain -> Breaker],
         NEW result \in Recognitions \cup {Nothing},
         BreakerInv(bs["primary"], Cardinality(InFlight(page, "primary"))),
         BreakerInv(bs["fallback"], Cardinality(InFlight(page, "fallback")) - 1),
         Ends(p, bs, result), UNCHANGED <<second, bucket>>,
         result = Nothing => page[p].kept = Nothing,
         result # Nothing /\ result.by = "google" => p \in bucket
  PROVE  OcrInv'
<1> DEFINE pc == IF result = Nothing THEN "failed" ELSE "done"
           q == [page[p] EXCEPT !.pc = pc, !.result = result]
<1>1. breaker' = bs /\ page' = [page EXCEPT ![p] = q]
  BY DEF Ends, OcrInv
<1>2. page[p] \in Page /\ page \in [Pages -> Page] /\ (page[p].kept # Nothing => p \in bucket)
  BY DEF OcrInv, PageInv
<1>3. pc \in {"failed", "done"} /\ (pc = "done" <=> result # Nothing)
  OBVIOUS
<1> HIDE DEF pc
<1>4. q \in Page /\ q.pc = pc /\ q.kept = page[p].kept /\ q.result = result
  BY <1>2, <1>3 DEF Page
<1> HIDE DEF q
<1>5. PageInv(q, p \in bucket')
  BY <1>2, <1>3, <1>4 DEF PageInv
<1>6. q.pc \notin At("primary") /\ q.pc \notin At("fallback") /\ page[p].pc \in At("fallback")
      /\ page[p].pc \notin At("primary")
  BY <1>3, <1>4 DEF At
<1>7. /\ Cardinality(InFlight(page', "fallback")) = Cardinality(InFlight(page, "fallback")) - 1
      /\ Cardinality(InFlight(page', "primary")) = Cardinality(InFlight(page, "primary"))
  BY <1>1, <1>2, <1>4, <1>6, InFlightAfter DEF Chain
<1>8. \A x \in Chain : BreakerInv(bs[x], Cardinality(InFlight(page', x)))
  BY <1>7 DEF Chain
<1>9. second' = second /\ bucket' \ {p} = bucket \ {p}
  OBVIOUS
<1> QED
  BY <1>1, <1>4, <1>5, <1>8, <1>9, OnePage

LEMMA FallbackStep ==
  ASSUME OcrInv, NEW p \in Pages, FallbackAnswers(p) \/ FallbackFails(p)
  PROVE  OcrInv'
<1> DEFINE b == breaker["fallback"]
           n == Cardinality(InFlight(page, "fallback"))
<1>1. /\ breaker \in [Chain -> Breaker] /\ page \in [Pages -> Page] /\ b \in Breaker
      /\ page[p].pc = "fallback" /\ UNCHANGED <<second, bucket>>
      /\ BreakerInv(b, n)
      /\ BreakerInv(breaker["primary"], Cardinality(InFlight(page, "primary")))
      /\ PageInv(page[p], p \in bucket) /\ page[p] \in Page
  BY DEF OcrInv, FallbackAnswers, FallbackFails, Chain
<1>2. n \in Nat /\ n - 1 \in Nat /\ n > 0 /\ n - 1 <= Cardinality(Pages)
  <2>1. p \in InFlight(page, "fallback") /\ InFlight(page, "fallback") \in SUBSET Pages
        /\ InFlight(page, "fallback") \ {p} \in SUBSET Pages
    BY <1>1 DEF InFlight, At
  <2>2. n \in Nat /\ n <= Cardinality(Pages) /\ Cardinality(Pages) \in Nat
    BY <2>1, PagesAt
  <2>3. n - 1 \in Nat
    BY <2>1, PagesAt
  <2> HIDE DEF n
  <2> QED
    BY <2>2, <2>3
<1>3. CASE FallbackAnswers(p)
  <2> DEFINE bs == Succeeded(breaker, "fallback")
             fresh == [failures |-> <<>>, opened |-> Nothing]
  <2>1. PICK r \in SecondResults : Ends(p, bs, r)
    BY <1>3 DEF FallbackAnswers
  <2>2. r \in Recognitions /\ r.by # "google" /\ r # Nothing
    <3>1. r \in Recognitions /\ r.by # "google"
      BY DEF SecondResults, AzureResults, PaddleResults, Results, Recognitions
    <3> QED
      BY <3>1, OcrAssumption
  <2>3. fresh \in Breaker /\ BreakerInv(fresh, n - 1)
    BY <1>2, SucceededNow
  <2>4. bs = [breaker EXCEPT !["fallback"] = fresh]
    BY DEF Succeeded
  <2> HIDE DEF fresh
  <2>5. bs \in [Chain -> Breaker] /\ bs["fallback"] = fresh /\ bs["primary"] = breaker["primary"]
    BY <1>1, <2>3, <2>4 DEF Chain
  <2> HIDE DEF bs
  <2> QED
    BY <1>1, <2>1, <2>2, <2>3, <2>5, EndsAfterFallback
<1>4. CASE FallbackFails(p)
  <2> DEFINE bs == Failed(breaker, "fallback")
             old == b.failures
             fail == [b EXCEPT !.failures = Append(IF Len(old) = Kept THEN Tail(old) ELSE old, 0)]
  <2>1. Ends(p, bs, page[p].kept)
    BY <1>4 DEF FallbackFails
  <2>2. bs = [breaker EXCEPT !["fallback"] = fail]
    BY DEF Failed
  <2>3. fail \in Breaker /\ BreakerInv(fail, n - 1)
    <3> HIDE DEF b, n
    <3> QED
      BY <1>1, <1>2, FailedOnce
  <2> HIDE DEF fail
  <2>4. bs \in [Chain -> Breaker] /\ bs["fallback"] = fail /\ bs["primary"] = breaker["primary"]
    BY <1>1, <2>2, <2>3 DEF Chain
  <2> HIDE DEF bs
  <2>5. /\ page[p].kept \in Recognitions \cup {Nothing}
        /\ page[p].kept # Nothing => p \in bucket
    BY <1>1 DEF Page, PageInv
  <2> QED
    BY <1>1, <2>1, <2>3, <2>4, <2>5, EndsAfterFallback
<1> QED
  BY <1>3, <1>4

(* Failures that leave the window are some of those that are there.        *)
LEMMA OlderBreaker ==
  ASSUME NEW b \in Breaker, NEW n \in Nat, BreakerInv(b, n)
  PROVE  LET gone == Cardinality({i \in DOMAIN b.failures : b.failures[i] + 1 >= Window})
             older == [failures |-> [i \in 1 .. Len(b.failures) - gone |-> b.failures[i + gone] + 1],
                       opened |-> IF b.opened = Nothing \/ b.opened = HalfOpen THEN b.opened ELSE b.opened + 1] IN
         older \in Breaker /\ BreakerInv(older, n)
<1> DEFINE old == b.failures
           k == Len(old)
           G == {i \in DOMAIN old : old[i] + 1 >= Window}
           gone == Cardinality(G)
           new == [i \in 1 .. k - gone |-> old[i + gone] + 1]
           opened == IF b.opened = Nothing \/ b.opened = HalfOpen THEN b.opened ELSE b.opened + 1
           older == [failures |-> new, opened |-> opened]
<1>1. old \in Seq(Nat) /\ k \in Nat /\ DOMAIN old = 1 .. k /\ b.opened \in Nat \cup {Nothing}
  BY DEF Breaker
<1>2. gone \in Nat /\ gone <= k
  <2>1. G \in SUBSET (1 .. k)
    BY <1>1
  <2>2. IsFiniteSet(1 .. k) /\ Cardinality(1 .. k) = k
    <3> HIDE DEF k
    <3>1. 1 \in Int /\ k \in Int /\ (1 > k => k = 0)
      BY <1>1
    <3>2. IsFiniteSet(1 .. k) /\ Cardinality(1 .. k) = (IF 1 > k THEN 0 ELSE k - 1 + 1)
      BY <3>1, FS_Interval
    <3> QED
      BY <3>1, <3>2
  <2> HIDE DEF G, k
  <2> QED
    BY <2>1, <2>2, FS_Subset, FS_CardinalityType
<1>3. HalfOpen \in Nat /\ Threshold \in Nat /\ Cardinality(Pages) \in Nat
  BY OcrAssumption, PagesAt
<1> HIDE DEF G, gone
<1>4. new \in Seq(Nat) /\ Len(new) = k - gone
  <2>1. k - gone \in Nat
    BY <1>1, <1>2
  <2>2. \A i \in 1 .. k - gone : old[i + gone] + 1 \in Nat
    <3> SUFFICES ASSUME NEW i \in 1 .. k - gone PROVE old[i + gone] + 1 \in Nat
      OBVIOUS
    <3>1. i + gone \in 1 .. k
      BY <1>1, <1>2
    <3>2. old[i + gone] \in Nat
      BY <1>1, <3>1
    <3> QED
      BY <3>2
  <2> HIDE DEF old, k
  <2> QED
    BY <2>1, <2>2
<1>5. /\ opened \in Nat \cup {Nothing}
      /\ opened = Nothing \/ opened < HalfOpen => b.opened = Nothing \/ b.opened < HalfOpen
  <2>1. CASE b.opened = Nothing
    BY <2>1
  <2>2. CASE b.opened = HalfOpen
    BY <1>1, <1>3, <2>2
  <2>3. CASE b.opened # Nothing /\ b.opened # HalfOpen
    <3>1. opened = b.opened + 1 /\ b.opened \in Nat
      BY <1>1, <2>3
    <3>2. b.opened + 1 \in Nat /\ b.opened + 1 # Nothing /\ (b.opened + 1 < HalfOpen => b.opened < HalfOpen)
      BY <1>3, <3>1, OcrAssumption
    <3> HIDE DEF opened
    <3> QED
      BY <3>1, <3>2
  <2> QED
    BY <2>1, <2>2, <2>3
<1> HIDE DEF new, opened
<1>6. older \in Breaker /\ older.failures = new /\ older.opened = opened
  BY <1>4, <1>5 DEF Breaker
<1> HIDE DEF older
<1>7. BreakerInv(older, n)
  <2>1. k + n <= Threshold - 1 + Cardinality(Pages) => Len(new) + n <= Threshold - 1 + Cardinality(Pages)
    <3> HIDE DEF k
    <3> QED
      BY <1>1, <1>2, <1>3, <1>4
  <2> QED
    BY <1>5, <1>6, <2>1 DEF BreakerInv
<1> QED
  BY <1>6, <1>7 DEF older, new, opened, gone, G

LEMMA TickStep == OcrInv /\ Tick => OcrInv'
<1> SUFFICES ASSUME OcrInv, Tick PROVE OcrInv'
  OBVIOUS
<1> DEFINE Gone(b) == Cardinality({i \in DOMAIN b.failures : b.failures[i] + 1 >= Window})
           Older(b) == [failures |-> [i \in 1 .. Len(b.failures) - Gone(b) |-> b.failures[i + Gone(b)] + 1],
                        opened |-> IF b.opened = Nothing \/ b.opened = HalfOpen THEN b.opened ELSE b.opened + 1]
<1>1. breaker' = [x \in Chain |-> Older(breaker[x])] /\ UNCHANGED <<second, page, bucket>>
  BY DEF Tick
<1>2. ASSUME NEW x \in Chain
      PROVE  Older(breaker[x]) \in Breaker /\ BreakerInv(Older(breaker[x]), Cardinality(InFlight(page, x)))
  <2>1. breaker[x] \in Breaker /\ BreakerInv(breaker[x], Cardinality(InFlight(page, x)))
    BY DEF OcrInv
  <2>2. InFlight(page, x) \in SUBSET Pages
    BY DEF InFlight
  <2>3. Cardinality(InFlight(page, x)) \in Nat
    BY <2>2, PagesAt
  <2> QED
    BY <2>1, <2>3, OlderBreaker
<1> HIDE DEF Older
<1>3. breaker' \in [Chain -> Breaker] /\ \A x \in Chain : breaker'[x] = Older(breaker[x])
  BY <1>1, <1>2
<1>4. \A x \in Chain : InFlight(page', x) = InFlight(page, x)
  BY <1>1 DEF InFlight
<1>5. \A x \in Chain : BreakerInv(breaker'[x], Cardinality(InFlight(page', x)))
  BY <1>2, <1>3, <1>4
<1> QED
  BY <1>1, <1>3, <1>5 DEF OcrInv

LEMMA OcrStep == OcrInv /\ [OcrNext]_pvars => OcrInv'
<1> SUFFICES ASSUME OcrInv, [OcrNext]_pvars PROVE OcrInv'
  OBVIOUS
<1>1. CASE UNCHANGED pvars
  <2>1. second' = second /\ breaker' = breaker /\ page' = page /\ bucket' = bucket
    BY <1>1 DEF pvars
  <2>2. \A x \in Chain : InFlight(page', x) = InFlight(page, x)
    BY <2>1 DEF InFlight
  <2> QED
    BY <2>1, <2>2 DEF OcrInv
<1>2. CASE \E p \in Pages : \/ AnalyzePage(p) \/ PrimaryFails(p) \/ PrimaryResponds(p) \/ Persist(p)
                            \/ FallbackAnswers(p) \/ FallbackFails(p)
  BY <1>2, AnalyzeStep, PrimaryFailsStep, PrimaryRespondsStep, PersistStep, FallbackStep
<1>3. CASE Tick
  BY <1>3, TickStep
<1> QED
  BY <1>1, <1>2, <1>3 DEF OcrNext

(* The recognition of pages, for any number of pages at one time and any   *)
(* threshold, window and time of a breaker: within one window a provider   *)
(* fails less often than the threshold and the pages at one time, no page  *)
(* is given up that a provider recognised, and Google's response is in the *)
(* storage whenever its recognition is returned.                           *)
THEOREM Recognition == OcrSpec => []RecognitionIsSound
<1>1. OcrInv => RecognitionIsSound
  <2> SUFFICES ASSUME OcrInv PROVE RecognitionIsSound
    OBVIOUS
  <2>1. ASSUME NEW x \in Chain, breaker[x].opened = Nothing \/ breaker[x].opened < HalfOpen
        PROVE  Len(breaker[x].failures) < Threshold + Cardinality(Pages)
    <3>1. InFlight(page, x) \in SUBSET Pages
      BY DEF InFlight
    <3>2. Cardinality(InFlight(page, x)) \in Nat /\ Cardinality(Pages) \in Nat
      BY <3>1, PagesAt
    <3>3. Len(breaker[x].failures) \in Nat
      <4>1. breaker[x].failures \in Seq(Nat)
        BY DEF OcrInv, Breaker
      <4> QED
        BY <4>1
    <3>4. Len(breaker[x].failures) + Cardinality(InFlight(page, x)) <= Threshold - 1 + Cardinality(Pages)
      BY <2>1 DEF OcrInv, BreakerInv
    <3>5. Threshold \in Nat
      BY OcrAssumption
    <3> QED
      BY <3>2, <3>3, <3>4, <3>5
  <2>2. BreakerHolds
    BY <2>1 DEF BreakerHolds
  <2>3. EvidenceIsKept
    BY DEF EvidenceIsKept, OcrInv, PageInv
  <2> QED
    BY <2>2, <2>3 DEF RecognitionIsSound
<1> QED
  BY OcrStarts, OcrStep, <1>1, PTL DEF OcrSpec

===============================================================================
