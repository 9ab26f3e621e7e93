---------------------------- MODULE MCDeployHost ----------------------------
EXTENDS DeployHost

=============================================================================

