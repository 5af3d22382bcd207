---------------------------- MODULE MCPullCycle -----------------------------
(***************************************************************************)
(* Four days, an age limit of one: a mirror can be fresh, become stale and *)
(* be refreshed; one code upgrade makes its format stale as well.          *)
(***************************************************************************)
EXTENDS PullCycle

MCToday == 0 .. 3
MCDataFormats == {3, 4}
=============================================================================
