----------------------------- MODULE MCFrameSpool -----------------------------
(* A command is explored alone with all its frames and every JPEG, with    *)
(* one JPEG once a cancelled burst goes on, and with one frame and one     *)
(* JPEG beside a capture of the button, whose second picture fails; a      *)
(* second capture comes beside the first one in a session that captures,   *)
(* without a cancelled burst, and to the end of its first frame.           *)
EXTENDS FrameSpool

Pressed == {c \in Manual : burst[c] # NoBurst \/ \E i \in Indexes : file[<<c, i>>] # NoContent \/ Known(<<c, i>>)}

OneJpeg == \A s \in Slots : file[s] \in {NoContent, EspJpeg}

OneFrame ==
  /\ burst[Command].idx = 0
  /\ \A c \in Captures : file[<<c, 1>>] = NoContent /\ ~Known(<<c, 1>>)

Bounds ==
  /\ Cardinality(detached) <= 1
  /\ detached # {} \/ late # {} => OneJpeg
  /\ LET pressed == Pressed IN
       pressed # {} =>
         /\ OneJpeg /\ OneFrame
         /\ MaxCursor + 1 \in pressed
         /\ pressed # {MaxCursor + 1} =>
              /\ detached = {} /\ late = {} /\ session = "CAPTURING"
              /\ \A c \in Manual : burst[c].idx = 0
===============================================================================
