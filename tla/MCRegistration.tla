---------------------------- MODULE MCRegistration ----------------------------
EXTENDS Registration
===============================================================================
