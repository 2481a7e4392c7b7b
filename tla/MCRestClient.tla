---------------------------- MODULE MCRestClient ----------------------------
(* RestClient on small instances. *)
EXTENDS RestClient
=============================================================================
