---------------------------- MODULE Reconstruction -----------------------------
(***************************************************************************)
(* The questions of an exam: a model reads them from the text of the pages *)
(* (ReconstructionEngine), the deterministic checks of validate_           *)
(* reconstruction correct what it says of them, and a report tells which   *)
(* of them are ready.  The rescue of the others has no caller yet, and     *)
(* none of its strategies changes anything: it is no part of this module.  *)
(***************************************************************************)
EXTENDS Naturals, Sequences, FiniteSets

CONSTANTS
  Readings,   \* what the model may say: sequences of questions as it reads them
  Absence     \* alternatives the model does not mention

VARIABLES
  reconstruction, \* "none", "failed" or "validated"
  paper,          \* the questions
  said            \* the questions as the model read them

rvars == <<reconstruction, paper, said>>

(* Three of the flags say nothing of the completeness, SEQUENCE_GAP once   *)
(* it is set among them.                                                   *)
BlockingFlags == {"DUPLICATE_NUMBER", "NUMBER_MISSING"}
DoubtFlags == {"VISUAL_AMBIGUITY", "OCR_CONFLICT"}
QuestionFlags == BlockingFlags \cup DoubtFlags
                 \cup {"ALTERNATIVES_INCOMPLETE", "SEQUENCE_GAP", "MEDIA_UNRESOLVED", "CROSS_PAGE"}

(* A question as the model may read it; "blank" is a text of blanks.       *)
QuestionRead == [number : Nat, text : {"text", "blank", "empty"}, letters : Nat \cup {Absence},
                 completeness : {"complete", "partial", "missing"}, flags : SUBSET STRING]

ASSUME ReconstructionAssumption == Readings \subseteq Seq(QuestionRead)

ReconstructionInit ==
  /\ reconstruction = "none"
  /\ paper = <<>> /\ said = <<>>

-------------------------------------------------------------------------------
(* The schema: a number from 1 to 200, a text that is not empty (blanks    *)
(* are a text), and two alternatives or more; but alternatives that are    *)
(* not mentioned are not looked at, and there are none then.               *)
WellFormed(q) ==
  /\ q.number \in 1 .. 200
  /\ q.text # "empty"
  /\ q.letters = Absence \/ q.letters >= 2
  /\ q.flags \subseteq QuestionFlags

Parsed(q) == IF q.letters = Absence THEN [q EXCEPT !.letters = 0] ELSE q

-------------------------------------------------------------------------------
(* validate_reconstruction.                                                *)

Repeated(qs, i) == \E j \in 1 .. i - 1 : qs[j].number = qs[i].number

(* The first question of its number, with smaller numbers but not the next *)
(* smaller one.                                                            *)
AfterGap(qs, i) ==
  LET Smaller == {qs[j].number : j \in DOMAIN qs} \cap 1 .. qs[i].number - 1 IN
    ~Repeated(qs, i) /\ Smaller # {} /\ qs[i].number - 1 \notin Smaller

Marks(qs, i) ==
  {f \in {"DUPLICATE_NUMBER"} : Repeated(qs, i)}
  \cup {f \in {"SEQUENCE_GAP"} : AfterGap(qs, i)}
  \cup {f \in {"ALTERNATIVES_INCOMPLETE"} : qs[i].letters < 2}
  \cup {f \in {"NUMBER_MISSING"} : qs[i].text = "blank"}

(* Mutant: only a question without any alternative is incomplete.          *)
RatedWithOne(qs, i) ==
  LET q == qs[i] IN
  IF q.text = "blank" THEN "missing"
  ELSE IF Repeated(qs, i) THEN "partial"
  ELSE IF q.completeness = "complete" /\ (AfterGap(qs, i) \/ q.flags \cap DoubtFlags # {}) THEN "partial"
  ELSE q.completeness

(* A repeated number makes a question partial, one the model itself misses *)
(* as well; every other check only takes a complete one down.              *)
Rated(qs, i) ==
  LET q == qs[i]
      Doubtful == AfterGap(qs, i) \/ q.letters < 2 \/ q.flags \cap DoubtFlags # {} IN
  IF q.text = "blank" THEN "missing"
  ELSE IF Repeated(qs, i) THEN "partial"
  ELSE IF q.completeness = "complete" /\ Doubtful THEN "partial"
  ELSE q.completeness

Validated(qs) ==
  [i \in DOMAIN qs |-> [qs[i] EXCEPT !.flags = @ \cup Marks(qs, i), !.completeness = Rated(qs, i)]]

IsBlocking(q) == q.flags \cap BlockingFlags # {}

(* ValidationReport: what is ready, incomplete and failed.  A question     *)
(* without a text is counted twice.                                        *)
Report(qs) ==
  [ready |-> {i \in DOMAIN qs : qs[i].completeness = "complete" /\ ~IsBlocking(qs[i])},
   incomplete |-> {i \in DOMAIN qs : qs[i].completeness = "partial" \/ IsBlocking(qs[i])},
   failed |-> {i \in DOMAIN qs : qs[i].completeness = "missing"}]

-------------------------------------------------------------------------------
(* reconstruct: the call fails, its response is not of the schema, or the  *)
(* questions are checked.                                                  *)

ModelFails ==
  /\ reconstruction = "none"
  /\ reconstruction' = "failed"
  /\ UNCHANGED <<paper, said>>

Reconstruct ==
  /\ reconstruction = "none"
  /\ \E answer \in Readings :
       IF \A i \in DOMAIN answer : WellFormed(answer[i])
       THEN LET qs == [i \in DOMAIN answer |-> Parsed(answer[i])] IN
              /\ reconstruction' = "validated"
              /\ said' = qs /\ paper' = Validated(qs)
       ELSE reconstruction' = "failed" /\ UNCHANGED <<paper, said>>

ReconstructionNext ==
  \/ ModelFails
  \/ Reconstruct

-------------------------------------------------------------------------------
(* A question that is ready for the solver has a text and two alternatives *)
(* or more, no doubt of the model about it is forgotten, and it is the     *)
(* first of its number; unless its number is the smallest of all, the one  *)
(* right before it is there as well (a gap further down does not count: of *)
(* 1, 3 and 4, question 4 is ready).  No question is lost: each is ready,  *)
(* incomplete or failed, and one that is ready is neither of the others.   *)
ReadyIsSound ==
  LET r == Report(paper) IN
    /\ \A i \in r.ready :
         /\ said[i].text = "text" /\ said[i].letters >= 2
         /\ said[i].completeness = "complete"
         /\ said[i].flags \cap (DoubtFlags \cup BlockingFlags) = {}
         /\ \A j \in DOMAIN paper : j < i => said[j].number # said[i].number
         /\ \/ said[i].number = 1
            \/ \E j \in DOMAIN paper : said[j].number = said[i].number - 1
            \/ \A k \in DOMAIN paper : said[k].number >= said[i].number
    /\ r.ready \cup r.incomplete \cup r.failed = DOMAIN paper
    /\ r.ready \cap (r.incomplete \cup r.failed) = {}
===============================================================================
