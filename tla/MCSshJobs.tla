----------------------------- MODULE MCSshJobs -----------------------------
\* Symmetry for the runs of SshJobs that check invariants only.
EXTENDS SshJobs, TLC

CallerSymmetry == Permutations(Callers)
=============================================================================
