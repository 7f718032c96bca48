--------------------------- MODULE MCMtpSession -----------------------------
(* MtpSession for TLC. *)
EXTENDS MtpSession
=============================================================================
