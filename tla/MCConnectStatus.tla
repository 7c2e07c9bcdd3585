---------------------------- MODULE MCConnectStatus ----------------------------
EXTENDS ConnectStatus
===============================================================================
