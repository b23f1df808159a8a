--------------------------- MODULE MCProgressLoop ---------------------------
(* A task thread that reports at most three times besides its start and end. *)
EXTENDS ProgressLoop

MCMaxReports == 3
=============================================================================
