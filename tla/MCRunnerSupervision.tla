------------------------ MODULE MCRunnerSupervision ------------------------
EXTENDS RunnerSupervision

\* A bound: a behaviour starts two processes and crashes the daemon once, or starts
\* one and restarts the broker once.
OneOutage == ticks + crashes + 2 * restarts <= 3
=============================================================================
