----------------------------- MODULE MCProcessExam -----------------------------
(* A handwritten session, and an activity that writes behind the end of    *)
(* its run, are explored without a retry beside them.                      *)
EXTENDS ProcessExam

RetryOfExamAlone ==
  orphans # {} \/ type = "HANDWRITTEN_WORD" => \A k \in RetryKeys : runs[k] = NoRun
===============================================================================
