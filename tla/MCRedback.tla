------------------------------ MODULE MCRedback ------------------------------
(* Redback on a small instance: an attribute of each codec but the 64 bit    *)
(* integers, values that are empty, header only, whole, too long for the     *)
(* shortened MaxVendor and too long for MaxValue, and Vendor-Specific        *)
(* attributes that hold two sub-attributes or break off in each way the      *)
(* reading loop looks for.                                                   *)
EXTENDS Redback

MCAttributes == {AgentRemoteID, AgentCircuitID, ClientDNSPri, TunnelHelloTimer, ServiceName}

MCValues ==
    [bytes         |-> {<<>>, <<1, 6>>, <<1, 6, 171>>, <<0, 4, 97, 3, 9, 9, 9>>,
                       <<0, 4, 97, 3, 9, 9, 9, 9>>},
     ipaddr        |-> {<<10, 0, 0, 1>>, <<10>>},
     taggedBytes   |-> {<<>>, <<40, 41>>},
     taggedInteger |-> {<<0, 0, 1, 2>>}]

MCRawVsas ==
    {[vendor |-> OtherVendor, vsa |-> <<96, 4, 8, 8>>]}
      \cup [vendor : {_Redback_VendorID},
            vsa : {<<96, 3>>,                         \* shorter than a sub-attribute
                   <<96, 2, 9>>, <<97, 9, 1, 2>>,     \* length below three, past the end
                   <<1, 3, 5>>,                       \* an address of one byte
                   <<97, 5, 1, 6, 7, 96, 3, 9>>,      \* two sub-attributes
                   <<85, 3, 9, 96, 0, 9>>}]           \* one, then a broken one

(* The model stops when the packet has been read. *)
Over == agent.read /\ UNCHANGED vars

MCSpec == Init /\ [][Next \/ Over]_vars
=============================================================================
