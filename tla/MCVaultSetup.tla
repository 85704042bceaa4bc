---------------------------- MODULE MCVaultSetup ----------------------------
(* VaultSetup for TLC: two devices, two vaults that may be created.        *)
EXTENDS VaultSetup
=============================================================================
