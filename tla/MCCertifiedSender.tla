-------------------------- MODULE MCCertifiedSender --------------------------
(***************************************************************************)
(* The CertifiedSender with a few messages, for TLC.                       *)
(***************************************************************************)
EXTENDS CertifiedSender
=============================================================================
