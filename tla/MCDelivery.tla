------------------------------ MODULE MCDelivery ------------------------------
\* Two hubs and two devices of one member.
EXTENDS Delivery

CONSTANTS h1, h2, d1, d2
=============================================================================
