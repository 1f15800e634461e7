----------------------------- MODULE MCDeadMan -----------------------------
(***************************************************************************)
(* DeadMan with the hours of the configuration: the timer at 08:15 with 5  *)
(* minutes of spread and at most 30 minutes of run, other messages at      *)
(* six in the morning (30 hours before a noon), just before the look at    *)
(* noon, and in the evening.                                               *)
(***************************************************************************)
EXTENDS DeadMan

MCMornings == {495, 530}
MCOthers == {359, 719, 1200}
=============================================================================
