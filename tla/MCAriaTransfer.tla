--------------------------- MODULE MCAriaTransfer ---------------------------
(* Model-checking module for AriaTransfer. *)
EXTENDS AriaTransfer
=============================================================================
