--------------------------- MODULE MCVerifiedCache ---------------------------
(* An instance of VerifiedCache: two builds, a package and its keyring.     *)
EXTENDS VerifiedCache, TLC

CONSTANTS b1, b2, deb, keyring

MCPackage == keyring :> deb

MCAnyEntry == {Absent, 0, Wrong, Complete}
=============================================================================
