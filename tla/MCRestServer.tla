------------------------------ MODULE MCRestServer ------------------------------
(* RestServer with a few requests at a time.                               *)
EXTENDS RestServer
==============================================================================
