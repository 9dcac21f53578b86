---------------------------- MODULE MCSessionStart ----------------------------
(* Two requests of one phone with an administrator of profiles or of       *)
(* settings, two of two phones, and two administrators of each.            *)
EXTENDS SessionStart

CONSTANTS c1, c2, g1, g2, a1, a2

MCScene(requests, first, second, kinds, disabled, editors, profilers, v2) ==
  [requests |-> requests, gateway |-> [c \in {c1, c2} |-> IF c = c1 THEN first ELSE second], kinds |-> kinds,
   disabled |-> disabled, editors |-> editors, profilers |-> profilers, v2 |-> v2]

MCScenes ==
  {MCScene(2, g1, g1, {"EXAM"}, {}, {}, {a1}, TRUE),
   MCScene(3, g1, g2, {"EXAM"}, {}, {}, {}, FALSE),
   MCScene(2, g1, g1, {"EXAM", "HANDWRITTEN_WORD", "HEARTBEAT"}, {}, {}, {}, FALSE),
   MCScene(2, g1, g1, {"HANDWRITTEN_WORD"}, {}, {a1}, {}, FALSE),
   MCScene(3, g1, g1, {"EXAM", "END", "CANCEL"}, {}, {}, {}, FALSE),
   MCScene(1, g1, g1, {"HELLO"}, {}, {a1, a2}, {}, FALSE),
   MCScene(1, g1, g1, {"HELLO"}, {}, {}, {a1, a2}, TRUE)}
    \cup {MCScene(2, g1, g1, {"EXAM"}, Devices, {}, {}, FALSE)}
===============================================================================
