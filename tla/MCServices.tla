------------------------------ MODULE MCServices ------------------------------
(***************************************************************************)
(* The services beside the capture: the PCAP dumper with its key log, the  *)
(* messages of the decryption add-on, the life of the connection to the    *)
(* add-on, and the reconnection of the VPN.  They share no state, so that  *)
(* a behaviour exercises one of them, part, and leaves the others as they  *)
(* are at the start; none of the fair actions is enabled there.            *)
(***************************************************************************)
EXTENDS PcapDump, MitmReceiver, MitmAddon, VpnReconnect

VARIABLE part

servicesVars == <<part, dumpVars, mitmVars, addonVars, reconnectVars>>

ServicesInit ==
    /\ part \in {"dump", "messages", "addon", "reconnect"}
    /\ DumpInit /\ MitmInit /\ AddonInit /\ ReconnectInit
    /\ part # "dump" => conf = [mode |-> "pcap", snaplen |-> MaxSnaplen, max_dump_size |-> 0]

DumpPart == part = "dump" /\ DumpNext /\ UNCHANGED <<part, mitmVars, addonVars, reconnectVars>>
MessagesPart == part = "messages" /\ MitmNext /\ UNCHANGED <<part, dumpVars, addonVars, reconnectVars>>
AddonPart == part = "addon" /\ AddonNext /\ UNCHANGED <<part, dumpVars, mitmVars, reconnectVars>>
ReconnectPart == part = "reconnect" /\ ReconnectNext /\ UNCHANGED <<part, dumpVars, mitmVars, addonVars>>

ServicesNext == DumpPart \/ MessagesPart \/ AddonPart \/ ReconnectPart

ServicesSpec ==
    /\ ServicesInit /\ [][ServicesNext]_servicesVars
    /\ DumpFairness /\ MitmFairness /\ AddonFairness /\ ReconnectFairness
=============================================================================
