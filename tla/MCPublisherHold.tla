--------------------------- MODULE MCPublisherHold ---------------------------
EXTENDS PublisherHold
===============================================================================
