-------------------------- MODULE MCProviderRescue --------------------------
(* Small instances of ProviderRescue.                                       *)
EXTENDS ProviderRescue
=============================================================================
