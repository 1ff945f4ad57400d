---------------------------- MODULE MCMemoryPool ----------------------------
(* The instances of MemoryPool that TLC checks.                            *)
EXTENDS MemoryPool

\* used_size, current_usage and original_size are read by no step except to
\* compute the first two, which drift for ever: used_size from the first free
\* of a block that was taken whole.  States that differ in them alone are
\* taken for one, but current_usage and original_size count as long as an
\* invariant speaks of current_usage.
Observed ==
  IF past = {}
    THEN <<blocks, live, past, current_usage>>
    ELSE <<[i \in DOMAIN blocks |-> [blocks[i] EXCEPT !.orig = 0]], live, past>>
=============================================================================
