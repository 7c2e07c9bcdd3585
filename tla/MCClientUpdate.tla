---------------------------- MODULE MCClientUpdate ----------------------------
EXTENDS ClientUpdate
===============================================================================
