-------------------------- MODULE MCProviderTurnQueue --------------------------
EXTENDS ProviderTurnQueue
=============================================================================
