-------------------------- MODULE MCGiftRedemption --------------------------
(***************************************************************************)
(* Instances of GiftRedemption for TLC: one fault of each retry class.     *)
(***************************************************************************)
EXTENDS GiftRedemption, TLC

Fault(service, code) == [service |-> service, code |-> code]
RedemptionFaults ==
  {Fault("General", "LambdaTimeout"), RuntimeException, Fault("Zuora", "LOCK_COMPETITION"),
   Fault("WebService", "DecodingFailure")}
OnlyTimeouts == {Fault("General", "LambdaTimeout")}
Symmetry == Permutations(Requests)
=============================================================================
