---------------------------- MODULE MCSigningKeys ----------------------------
(* SigningKeys for overlapping rotations and readers.                          *)
EXTENDS SigningKeys
=============================================================================
