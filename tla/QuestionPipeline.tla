--------------------------- MODULE QuestionPipeline ----------------------------
(***************************************************************************)
(* One question through the pipeline of Google and Gemini                  *)
(* (process_question): the OCR is judged by its confidence, compared with  *)
(* the image by Gemini, and solved unless a person has to look at it.      *)
(*                                                                         *)
(* Scores are percentages, and 0 is also what a span has that came without *)
(* one.  A text is critical, or it is not: it has a negation, a number, a  *)
(* symbol or the letter of an alternative.                                 *)
(***************************************************************************)
EXTENDS Integers, FiniteSets, FiniteSetsExt

CONSTANTS
  Scores,   \* confidences a provider may report
  Options,  \* what the model may answer: A to E
  Models,   \* models a snapshot of the settings may name
  Unknown

VARIABLES
  providers, \* the model of providers_for_snapshot, or Unknown
  ocr,       \* the confidences of the spans and of the page; is its text critical?
  review,    \* what Gemini made of it
  final,     \* the score of the decision, and its mode
  stage,     \* the step the question is at
  offered,   \* letters of its alternatives
  reply      \* the letter of its answer

qvars == <<providers, ocr, review, final, stage, offered, reply>>

ASSUME PipelineAssumption ==
  Scores \subseteq 0 .. 100 /\ Unknown \notin Scores /\ Unknown \notin Options \cup Models

NoReview == [critical |-> FALSE, score |-> Unknown, sure |-> Unknown, ambiguous |-> FALSE, affects |-> FALSE]

PipelineInit ==
  /\ providers = Unknown /\ reply = Unknown
  /\ stage = "configure"
  /\ ocr = [spans |-> {}, page |-> Unknown, critical |-> FALSE]
  /\ review = NoReview
  /\ final = [score |-> Unknown, mode |-> Unknown]
  /\ offered = {}

-------------------------------------------------------------------------------
(* decide_review and finalize_review.                                      *)

Mode(score, critical) ==
  IF score >= (IF critical THEN 95 ELSE 90) THEN "accept"
  ELSE IF score >= (IF critical THEN 85 ELSE 75) THEN "verify" ELSE "recompose"

Decide(score, critical) == [score |-> score, mode |-> Mode(score, critical)]

Finalize(score, critical, ambiguous) ==
  [score |-> score, mode |-> IF ambiguous \/ score < 50 THEN "manual" ELSE Mode(score, critical)]

-------------------------------------------------------------------------------
Goto(s) == stage' = s

(* The clients of a session are those of its snapshot: Google for the OCR, *)
(* and one model of Gemini for everything else.  Anything else, or a       *)
(* secret that is missing, is an error.                                    *)
Configure(model) ==
  /\ stage = "configure"
  /\ IF model = "gemini-3.1-pro-preview" THEN providers' = model /\ Goto("ocr")
     ELSE providers' = Unknown /\ Goto("error")
  /\ UNCHANGED <<ocr, review, final, offered, reply>>

(* What speaks for the page: its spans that have text and a confidence, or *)
(* the page itself if there is none.  A span without a confidence says     *)
(* nothing.                                                                *)
Judged(spans, whole) == IF \E s \in spans : s > 0 THEN {s \in spans : s > 0} ELSE {whole}

(* The worst score decides.                                                *)
Recognize(spans, whole, critical, letters) ==
  /\ stage = "ocr"
  /\ letters # {}
  /\ ocr' = [spans |-> spans, page |-> whole, critical |-> critical]
  /\ offered' = letters
  /\ final' = Decide(Min(Judged(spans, whole)), critical)
  /\ Goto(IF final'.mode = "accept" THEN "solve" ELSE "reconcile")
  /\ UNCHANGED <<providers, review, reply>>

(* Mutant: the reconciled text alone says what is critical.                *)
ReviewScoreOfText(r) == IF r.critical /\ r.sure # Unknown THEN r.sure ELSE r.score

(* What was critical in the OCR is still so: the model may have read the   *)
(* critical word away.                                                     *)
ReviewScore(r) == IF (ocr.critical \/ r.critical) /\ r.sure # Unknown THEN r.sure ELSE r.score

(* reconcile_ocr: the consolidated text, how sure the model is of it and   *)
(* of its critical words, and whether it could be read in another way.     *)
Reconcile(r) ==
  /\ stage = "reconcile"
  /\ review' = r
  /\ final' = Finalize(ReviewScore(r), r.critical, r.ambiguous /\ r.affects)
  /\ Goto(IF final'.mode = "manual" THEN "manual" ELSE "solve")
  /\ UNCHANGED <<providers, ocr, offered, reply>>

(* The letter is read from the response, and is one of the alternatives or *)
(* an error.                                                               *)
Solve(letter) ==
  /\ stage = "solve"
  /\ IF letter \in offered THEN reply' = letter /\ Goto("solved") ELSE reply' = Unknown /\ Goto("error")
  /\ UNCHANGED <<providers, ocr, review, final, offered>>

(* Any call may fail; none is repeated here.                               *)
CallFails ==
  /\ stage \in {"ocr", "reconcile", "solve"}
  /\ Goto("error")
  /\ UNCHANGED <<providers, ocr, review, final, offered, reply>>

Reviews == [critical : BOOLEAN, score : Scores, sure : Scores \cup {Unknown}, ambiguous : BOOLEAN, affects : BOOLEAN]

(* An older adapter returns a text and its flags alone: the score is still *)
(* that of the OCR, and nothing is said of other readings.                 *)
TextAlone == {[NoReview EXCEPT !.critical = critical, !.score = final.score] : critical \in BOOLEAN}

PipelineNext ==
  \/ \E model \in Models : Configure(model)
  \/ \E spans \in SUBSET Scores, whole \in Scores, critical \in BOOLEAN, letters \in SUBSET Options :
       Recognize(spans, whole, critical, letters)
  \/ \E r \in Reviews \cup TextAlone : Reconcile(r)
  \/ \E letter \in Options : Solve(letter)
  \/ CallFails

-------------------------------------------------------------------------------
(* A question is solved without a review only if every span of its OCR     *)
(* that has a confidence is beyond doubt, or the whole page is where none  *)
(* of them has one (a span without a confidence beside a sure one holds    *)
(* nothing up); and after a review only if no other reading changes the    *)
(* answer and neither the score of its critical words nor, without such a  *)
(* score, that of its text is low; what it is solved by is one of its      *)
(* alternatives.                                                           *)
UnsureIsReviewed ==
  stage \in {"solve", "solved"} =>
    /\ IF review = NoReview
       THEN \A s \in Judged(ocr.spans, ocr.page) : s >= (IF ocr.critical THEN 95 ELSE 90)
       ELSE /\ ~(review.ambiguous /\ review.affects)
            /\ ocr.critical /\ review.sure # Unknown => review.sure >= 50
            /\ review.sure = Unknown => review.score >= 50
    /\ stage = "solved" => reply \in offered
===============================================================================
