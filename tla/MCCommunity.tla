---------------------------- MODULE MCCommunity ----------------------------
EXTENDS Community
=============================================================================
