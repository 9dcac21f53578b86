-------------------------- MODULE MCCameraDiagnostics --------------------------
(* Two diagnostics that are not filmed, or one of each mode with frames.   *)
EXTENDS CameraDiagnostics

CONSTANTS d1, d2, x, y

MCPlan(mode, frames, bytes, films, bench) ==
  [mode |-> mode, max_frames |-> frames, bytes_limit |-> bytes, films |-> films, bench |-> bench]

MCPlans ==
  {[d \in {d1, d2} |-> MCPlan("PHOTO", 1, 1, {}, {})]}
    \cup {[d \in {d1} |-> p] : p \in {MCPlan("CLIP", 2, 2, {<<0, x>>, <<1, x>>}, {}),
                                      MCPlan("PHOTO", 1, 1, {<<0, x>>, <<0, y>>}, {<<0, y>>}),
                                      MCPlan("PREVIEW", 1, 1, {<<0, x>>, <<1, x>>}, {})}}
===============================================================================
