------------------------------- MODULE MCBoard -------------------------------
\* One tab, two connections, two runs that outgrow what is remembered.
EXTENDS Board

Connections == 1 .. 2
Types == {"start", "node", "log", "end", "error"}
=============================================================================
