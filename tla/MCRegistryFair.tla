--------------------------- MODULE MCRegistryFair ---------------------------
(* The instance of RegistryFair that TLC checks. *)
EXTENDS RegistryFair

OneCapability == {<<"nat_punch">>}

FairKinds == {"REG", "CONNECT", "RELAY_JOIN"}
=============================================================================
