---------------------------- MODULE MCJobLifecycle ----------------------------
(* Model-checking instance of JobLifecycle. *)
EXTENDS JobLifecycle, TLC

\* The jobs are interchangeable.
JobSymmetry == Permutations(Jobs)

\* A crash ends every thread: it takes the place of the faults.
FewFailures == faults + 2 * crashes <= 2

=============================================================================
