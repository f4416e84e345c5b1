----------------------------- MODULE MCSshExec -----------------------------
\* Model constants shared by the runs of SshExec.
EXTENDS SshExec

CONSTANT MaxScript   \* bound: steps of a remote command

\* Every command of up to MaxScript steps.
AllScripts == UNION {[1..n -> {"out", "err", "in"}] : n \in 0..MaxScript}
=============================================================================
