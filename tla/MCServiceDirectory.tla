------------------------ MODULE MCServiceDirectory ------------------------
(***************************************************************************)
(* ServiceDirectory for TLC: two addresses, up to three registrations, so  *)
(* one address is registered twice or three times.                         *)
(***************************************************************************)
EXTENDS ServiceDirectory

CONSTANTS a1, a2

TwoAddresses == {a1, a2}
=============================================================================
