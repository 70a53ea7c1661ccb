-------------------------- MODULE MCRemoteChannel --------------------------
(* Model-checking instance of RemoteChannel: the constants are in the .cfg.  *)
EXTENDS RemoteChannel
=============================================================================
