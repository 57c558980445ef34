-------------------------- MODULE MCLaunchPipeline --------------------------
(* Two customers, two plans, three deployments (a rollback needs two to    *)
(* choose from), two overlapping calls.                                    *)
EXTENDS LaunchPipeline, TLC

Symmetry == Permutations(Intakes) \cup Permutations(Calls)

(* No statement of the pipeline reads intakes.status: states that differ   *)
(* in it alone are explored once.                                          *)
ButIntakeStatus == <<now, planColumns, columns, call, cutShort>>
=============================================================================
