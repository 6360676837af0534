------------------------------ MODULE MCPayments ------------------------------
EXTENDS Payments, TLC

Symmetry == Permutations(Txns) \cup Permutations(Reqs)

\* One at a time; overlapping, but for refunds; failing; everything.
Each == {{}, {"overlap"}, {"failure"}, AllPerils}
One == {{}}
=============================================================================
