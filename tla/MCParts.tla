-------------------------------- MODULE MCParts --------------------------------
(***************************************************************************)
(* Five parts of the processing of an exam, and the controller of the      *)
(* plan, that have no state in common: each behaviour is about one of them. *)
(***************************************************************************)
EXTENDS Knowledge, PageOcr, QuestionPipeline, Answering, Reconstruction, PlanControl

CONSTANTS c1, c2, q1, q2, g1, g2, x1

VARIABLE part

(* Texts: up to three lines of every kind, and, for the interleavings, two *)
(* short ones and one of a sentence that is longer than a chunk.           *)
SumOf(lens) == FoldLeft(LAMBDA a, b : a + b, 0, lens)
Sentences(from, lens) ==
  [s \in DOMAIN lens |-> [w \in 1 .. lens[s] |-> from + SumOf(SubSeq(lens, 1, s - 1)) + w]]
TextOf(shape) ==
  [i \in DOMAIN shape |-> [kind |-> shape[i][1],
     sentences |-> Sentences(SumOf([j \in 1 .. i - 1 |-> SumOf(shape[j][2])]), shape[i][2])]]

Lines == ({"paragraph"} \X {<<1>>, <<1, 4, 1>>}) \cup {<<"table", <<3>>>>}
         \cup ({"h1", "page", "list", "indented"} \X {<<1>>}) \cup {<<"blank", <<>>>>}
Shapes == UNION {[1 .. n -> Lines] : n \in 0 .. 3}
Small == {TextOf(<<<<"table", <<1>>>>, <<"h1", <<1>>>>>>), TextOf(<<<<"table", <<1>>>>>>)}
Long == TextOf(<<<<"paragraph", <<3, 1>>>>>>)

MCWords == 1 .. 18
MCChars == [w \in MCWords |-> IF w % 3 = 1 THEN 3 ELSE IF w % 3 = 2 THEN 6 ELSE 14]
MCTexts == {TextOf(s) : s \in Shapes} \cup Small \cup {Long}
MCPlots == <<[ops |-> <<"create">>, texts |-> MCTexts],
             [ops |-> <<"create", "reindex", "reindex", "delete">>, texts |-> {Long}],
             [ops |-> <<"create", "create", "deactivate", "search">>, texts |-> Small],
             [ops |-> <<"create", "search", "delete">>, texts |-> Small]>>

(* All that may be known and doubted of one question, and two questions    *)
(* that compete for the providers.                                         *)
MCSettings == {[questions |-> {q1}, known |-> SUBSET Conflicts, doubts |-> TRUE],
               [questions |-> {q1, q2}, known |-> {{}}, doubts |-> FALSE]}

(* Two questions of every kind, three by their numbers only, and what the  *)
(* schema refuses.                                                         *)
Plain(n) == [number |-> n, text |-> "text", letters |-> 2, completeness |-> "complete", flags |-> {}]
Questionnaires == [number : {1, 2, 4}, text : {"text", "blank"}, letters : {2, Absence},
                   completeness : {"complete", "partial", "missing"},
                   flags : {{}, {"OCR_CONFLICT"}, {"VISUAL_AMBIGUITY", "NUMBER_MISSING"}, {"CROSS_PAGE"}}]
MCReadings == UNION {[1 .. n -> Questionnaires] : n \in 0 .. 2}
             \cup {[i \in 1 .. 3 |-> Plain(f[i])] : f \in [1 .. 3 -> {1, 2, 3, 4, 200}]}
             \cup {<<[Plain(1) EXCEPT !.number = n]>> : n \in {0, 201}}
             \cup {<<[Plain(1) EXCEPT !.letters = 1]>>, <<[Plain(1) EXCEPT !.text = "empty"]>>}

(* One gate with two kinds of evidence and one with one; the earlier       *)
(* controller had another one between them.                                *)
MCWorkflow == <<g1, g2>>
MCLegacy == <<g1, x1, g2>>
MCRequired == (g1 :> {"note", "test"}) @@ (x1 :> {"test"}) @@ (g2 :> {"commit"})

-------------------------------------------------------------------------------
Init ==
  /\ part \in {"knowledge", "ocr", "pipeline", "answering", "reconstruction", "plan"}
  /\ KnowledgeInit /\ OcrInit /\ PipelineInit /\ AnsweringInit /\ ReconstructionInit /\ PlanInit
  /\ part # "knowledge" => plot = 1
  /\ part # "ocr" => second = Nothing
  /\ part # "answering" => q2 \in exam.questions
  /\ part # "plan" => file = NoFile

Next ==
  \/ part = "knowledge" /\ KnowledgeNext /\ UNCHANGED <<part, pvars, qvars, avars, rvars, plvars>>
  \/ part = "ocr" /\ OcrNext /\ UNCHANGED <<part, kvars, qvars, avars, rvars, plvars>>
  \/ part = "pipeline" /\ PipelineNext /\ UNCHANGED <<part, kvars, pvars, avars, rvars, plvars>>
  \/ part = "answering" /\ AnsweringNext /\ UNCHANGED <<part, kvars, pvars, qvars, rvars, plvars>>
  \/ part = "reconstruction" /\ ReconstructionNext /\ UNCHANGED <<part, kvars, pvars, qvars, avars, plvars>>
  \/ part = "plan" /\ PlanNext /\ UNCHANGED <<part, kvars, pvars, qvars, avars, rvars>>

Spec == Init /\ [][Next]_<<part, kvars, pvars, qvars, avars, rvars, plvars>>
===============================================================================
