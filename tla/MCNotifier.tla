----------------------------- MODULE MCNotifier -----------------------------
(***************************************************************************)
(* Notifier with the numbers of notify.go and of the alert automation.     *)
(***************************************************************************)
EXTENDS Notifier

\* The pauses of defaultBackoffs.
MCBackoffs == <<5, 15>>
=============================================================================
