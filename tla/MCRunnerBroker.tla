--------------------------- MODULE MCRunnerBroker ---------------------------
EXTENDS RunnerBroker
=============================================================================
