------------------------------ MODULE MCWatch ------------------------------
(* Model-checking instance of Watch: the constants are in MCWatch.cfg.      *)
EXTENDS Watch
=============================================================================
