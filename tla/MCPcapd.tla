------------------------------- MODULE MCPcapd -------------------------------
(***************************************************************************)
(* Captures with the filter of one app.                                    *)
(***************************************************************************)
EXTENDS Pcapd

CONSTANTS app1

OneApp == <<app1>>
=============================================================================
