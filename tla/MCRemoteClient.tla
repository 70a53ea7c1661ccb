--------------------------- MODULE MCRemoteClient ---------------------------
(* Model-checking instance of RemoteClient: the constants are in the .cfg.   *)
EXTENDS RemoteClient
=============================================================================
