------------------------------- MODULE MCRelay -------------------------------
(* One Run of dutctl, directly or over dutserver.                            *)
EXTENDS Relay
==============================================================================
