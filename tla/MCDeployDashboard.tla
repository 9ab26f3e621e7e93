-------------------------- MODULE MCDeployDashboard --------------------------
EXTENDS DeployDashboard

=============================================================================
