---------------------------- MODULE MCThreadPool ----------------------------
(* The instances of ThreadPool that TLC checks.                            *)
EXTENDS ThreadPool, TLC

\* Threads are interchangeable, and so are the calls of submit.
Symmetry == Permutations(Workers) \cup Permutations(Tasks)

=============================================================================
