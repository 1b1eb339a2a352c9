---------------------------- MODULE MCRemoteWrite ----------------------------
EXTENDS RemoteWrite
CONSTANTS u1, u2
=============================================================================
