--------------------------- MODULE MCJobScheduler ---------------------------
(***************************************************************************)
(* The instance of JobScheduler for TLC: three workers and two jobs, in    *)
(* one burst or two.  No symmetry: the run checks liveness.                *)
(***************************************************************************)
EXTENDS JobScheduler
=============================================================================
