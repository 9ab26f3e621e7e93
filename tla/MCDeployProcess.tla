--------------------------- MODULE MCDeployProcess ---------------------------
EXTENDS DeployProcess, TLC

=============================================================================
