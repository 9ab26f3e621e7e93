---------------------------- MODULE MCPartnerPlay ----------------------------
EXTENDS PartnerPlay, TLC

=============================================================================
