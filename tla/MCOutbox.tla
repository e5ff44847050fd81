------------------------------- MODULE MCOutbox -------------------------------
EXTENDS Outbox
=============================================================================
