----------------------------- MODULE MCGateway ------------------------------
EXTENDS Gateway, TLC
CONSTANTS c1, c2
MCClients == {c1, c2}
MCOne == {c1}
=============================================================================
