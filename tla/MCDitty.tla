------------------------------ MODULE MCDitty -------------------------------
EXTENDS Transactions, TLC

CONSTANTS c1, c2, c3, l1, l2

\* Any core may access any line.
AnyAccess == Cores \X Lines

\* All share l1; c1 uses l2 too, and the LLC recalls one line for the other.
SharedAndRecalled == (Cores \X {l1}) \cup {<<c1, l2>>}

\* All share l1; of the other lines, l2 is c1's and the rest c2's.
SharedAndOwn == SharedAndRecalled \cup ({c2} \X (Lines \ {l1, l2}))

\* Cores (and lines) that the workload treats alike are interchangeable.
SymmetricAll == Permutations(Cores) \cup Permutations(Lines)
SymmetricSharers == Permutations({c2, c3})
=============================================================================
