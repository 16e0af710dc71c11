--------------------------- MODULE MCSubagentRun ---------------------------
(* The runs of one worker, with the counted kinds of a small instance. *)
EXTENDS SubagentRun

MCCounted == <<"iterations", "tool_calls">>
MCToolCalls == <<"tool_calls">>
=============================================================================
