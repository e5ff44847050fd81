------------------------------- MODULE MCGateway -------------------------------
EXTENDS Gateway
=============================================================================
