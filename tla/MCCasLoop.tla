------------------------------ MODULE MCCasLoop ------------------------------
EXTENDS CasLoop

\* atomic_multiply_by_2 of ex25, lock_free_increment of 09_cas_counter.
Double(v) == 2 * v
Increment(v) == v + 1
=============================================================================
