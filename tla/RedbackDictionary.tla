-------------------------- MODULE RedbackDictionary --------------------------
(***************************************************************************)
(* The attributes of the Redback dictionary (redback/generated.go): for     *)
(* each one the number its accessors put into and look for in the           *)
(* Vendor-Specific attributes of a packet, and the codec they use.  The     *)
(* accessors Add, Get, Gets and Lookup of an attribute differ from those of *)
(* the next one in nothing else; module Redback has them once, for a        *)
(* record of this list.                                                     *)
(***************************************************************************)

(* The codecs: bytes (also read and written as a string), a 32 or 64 bit    *)
(* integer, an IPv4 address, and bytes and integers that carry a tag.       *)
Attribute(name, typ, codec) == [name |-> name, typ |-> typ, codec |-> codec]

ClientDNSPri == Attribute("ClientDNSPri", 1, "ipaddr")
ClientDNSSec == Attribute("ClientDNSSec", 2, "ipaddr")
DHCPMaxLeases == Attribute("DHCPMaxLeases", 3, "integer")
ContextName == Attribute("ContextName", 4, "bytes")
BridgeGroup == Attribute("BridgeGroup", 5, "bytes")
BGAgingTime == Attribute("BGAgingTime", 6, "bytes")
BGPathCost == Attribute("BGPathCost", 7, "bytes")
BGSpanDis == Attribute("BGSpanDis", 8, "bytes")
BGTransBPDU == Attribute("BGTransBPDU", 9, "bytes")
RateLimitRate == Attribute("RateLimitRate", 10, "integer")
RateLimitBurst == Attribute("RateLimitBurst", 11, "integer")
PoliceRate == Attribute("PoliceRate", 12, "integer")
PoliceBurst == Attribute("PoliceBurst", 13, "integer")
SourceValidation == Attribute("SourceValidation", 14, "integer")
TunnelDomain == Attribute("TunnelDomain", 15, "integer")
TunnelLocalName == Attribute("TunnelLocalName", 16, "bytes")
TunnelRemoteName == Attribute("TunnelRemoteName", 17, "bytes")
TunnelFunction == Attribute("TunnelFunction", 18, "integer")
TunnelFlowControl == Attribute("TunnelFlowControl", 19, "integer")
TunnelStatic == Attribute("TunnelStatic", 20, "integer")
TunnelMaxSessions == Attribute("TunnelMaxSessions", 21, "integer")
TunnelMaxTunnels == Attribute("TunnelMaxTunnels", 22, "integer")
TunnelSessionAuth == Attribute("TunnelSessionAuth", 23, "integer")
TunnelWindow == Attribute("TunnelWindow", 24, "integer")
TunnelRetransmit == Attribute("TunnelRetransmit", 25, "integer")
TunnelCmdTimeout == Attribute("TunnelCmdTimeout", 26, "integer")
PPPOEURL == Attribute("PPPOEURL", 27, "bytes")
PPPOEMOTM == Attribute("PPPOEMOTM", 28, "bytes")
TunnelGroup == Attribute("TunnelGroup", 29, "integer")
TunnelContext == Attribute("TunnelContext", 30, "bytes")
TunnelAlgorithm == Attribute("TunnelAlgorithm", 31, "integer")
TunnelDeadtime == Attribute("TunnelDeadtime", 32, "integer")
McastSend == Attribute("McastSend", 33, "integer")
McastReceive == Attribute("McastReceive", 34, "integer")
McastMaxGroups == Attribute("McastMaxGroups", 35, "integer")
IPAddressPoolName == Attribute("IPAddressPoolName", 36, "bytes")
TunnelDNIS == Attribute("TunnelDNIS", 37, "integer")
MediumType == Attribute("MediumType", 38, "integer")
PVCEncapsulationType == Attribute("PVCEncapsulationType", 39, "integer")
PVCProfileName == Attribute("PVCProfileName", 40, "bytes")
PVCCircuitPadding == Attribute("PVCCircuitPadding", 41, "integer")
BindType == Attribute("BindType", 42, "integer")
BindAuthProtocol == Attribute("BindAuthProtocol", 43, "integer")
BindAuthMaxSessions == Attribute("BindAuthMaxSessions", 44, "integer")
BindBypassBypass == Attribute("BindBypassBypass", 45, "bytes")
BindAuthContext == Attribute("BindAuthContext", 46, "bytes")
BindAuthServiceGrp == Attribute("BindAuthServiceGrp", 47, "bytes")
BindBypassContext == Attribute("BindBypassContext", 48, "bytes")
BindIntContext == Attribute("BindIntContext", 49, "bytes")
BindTunContext == Attribute("BindTunContext", 50, "bytes")
BindSesContext == Attribute("BindSesContext", 51, "bytes")
BindDot1qSlot == Attribute("BindDot1qSlot", 52, "integer")
BindDot1qPort == Attribute("BindDot1qPort", 53, "integer")
BindDot1qVlanTagID == Attribute("BindDot1qVlanTagID", 54, "integer")
BindIntInterfaceName == Attribute("BindIntInterfaceName", 55, "bytes")
BindL2TPTunnelName == Attribute("BindL2TPTunnelName", 56, "bytes")
BindL2TPFlowControl == Attribute("BindL2TPFlowControl", 57, "integer")
BindSubUserAtContext == Attribute("BindSubUserAtContext", 58, "bytes")
BindSubPassword == Attribute("BindSubPassword", 59, "bytes")
IPHostAddr == Attribute("IPHostAddr", 60, "bytes")
IPTOSField == Attribute("IPTOSField", 61, "integer")
NASRealPort == Attribute("NASRealPort", 62, "integer")
TunnelSessionAuthCtx == Attribute("TunnelSessionAuthCtx", 63, "bytes")
TunnelSessionAuthServiceGrp == Attribute("TunnelSessionAuthServiceGrp", 64, "bytes")
TunnelRateLimitRate == Attribute("TunnelRateLimitRate", 65, "integer")
TunnelRateLimitBurst == Attribute("TunnelRateLimitBurst", 66, "integer")
TunnelPoliceRate == Attribute("TunnelPoliceRate", 67, "integer")
TunnelPoliceBurst == Attribute("TunnelPoliceBurst", 68, "integer")
TunnelL2FSecondPassword == Attribute("TunnelL2FSecondPassword", 69, "bytes")
ACLDefinition == Attribute("ACLDefinition", 70, "bytes")
PPPoEIPRouteAdd == Attribute("PPPoEIPRouteAdd", 71, "bytes")
TTYLevelMax == Attribute("TTYLevelMax", 72, "integer")
TTYLevelStart == Attribute("TTYLevelStart", 73, "integer")
TunnelChecksum == Attribute("TunnelChecksum", 74, "integer")
TunnelProfile == Attribute("TunnelProfile", 75, "bytes")
TunnelClientVPN == Attribute("TunnelClientVPN", 78, "bytes")
TunnelServerVPN == Attribute("TunnelServerVPN", 79, "bytes")
TunnelClientRhost == Attribute("TunnelClientRhost", 80, "bytes")
TunnelServerRhost == Attribute("TunnelServerRhost", 81, "bytes")
TunnelClientIntAddr == Attribute("TunnelClientIntAddr", 82, "ipaddr")
TunnelServerIntAddr == Attribute("TunnelServerIntAddr", 83, "ipaddr")
PPPCompression == Attribute("PPPCompression", 84, "integer")
TunnelHelloTimer == Attribute("TunnelHelloTimer", 85, "taggedInteger")
RedbackReason == Attribute("RedbackReason", 86, "integer")
QosPolicingProfileName == Attribute("QosPolicingProfileName", 87, "bytes")
QosMeteringProfileName == Attribute("QosMeteringProfileName", 88, "bytes")
QosPolicyQueuing == Attribute("QosPolicyQueuing", 89, "bytes")
IGMPServiceProfileName == Attribute("IGMPServiceProfileName", 90, "bytes")
SubscriberProfileName == Attribute("SubscriberProfileName", 91, "bytes")
ForwardPolicy == Attribute("ForwardPolicy", 92, "bytes")
RemotePort == Attribute("RemotePort", 93, "bytes")
Reauth == Attribute("Reauth", 94, "bytes")
ReauthMore == Attribute("ReauthMore", 95, "integer")
AgentRemoteID == Attribute("AgentRemoteID", 96, "bytes")
AgentCircuitIDMistyped == Attribute("AgentCircuitID", 96, "bytes")   \* mutant: the remote id's number
AgentCircuitID == Attribute("AgentCircuitID", 97, "bytes")
PlatformType == Attribute("PlatformType", 98, "integer")
ClientNBNSPri == Attribute("ClientNBNSPri", 99, "ipaddr")
ClientNBNSSec == Attribute("ClientNBNSSec", 100, "ipaddr")
ShapingProfileName == Attribute("ShapingProfileName", 101, "bytes")
BGCctAddrMax == Attribute("BGCctAddrMax", 103, "integer")
IPInterfaceName == Attribute("IPInterfaceName", 104, "bytes")
NATPolicyName == Attribute("NATPolicyName", 105, "bytes")
RBNPMServiceID == Attribute("RBNPMServiceID", 106, "bytes")
HTTPRedirectProfileName == Attribute("HTTPRedirectProfileName", 107, "bytes")
BindAutoSubUser == Attribute("BindAutoSubUser", 108, "bytes")
BindAutoSubContext == Attribute("BindAutoSubContext", 109, "bytes")
BindAutoSubPassword == Attribute("BindAutoSubPassword", 110, "bytes")
CircuitProtocolEncap == Attribute("CircuitProtocolEncap", 111, "integer")
OSVersion == Attribute("OSVersion", 112, "bytes")
SessionTrafficLimit == Attribute("SessionTrafficLimit", 113, "bytes")
QOSReference == Attribute("QOSReference", 114, "bytes")
RateLimitExcessBurst == Attribute("RateLimitExcessBurst", 121, "bytes")
PoliceExcessBurst == Attribute("PoliceExcessBurst", 122, "bytes")
TunnelRateLimitExcessBurst == Attribute("TunnelRateLimitExcessBurst", 123, "bytes")
TunnelPoliceExcessBurst == Attribute("TunnelPoliceExcessBurst", 124, "bytes")
DHCPVendorClassID == Attribute("DHCPVendorClassID", 125, "bytes")
QosRate == Attribute("QosRate", 126, "bytes")
DHCPVendorEncapOption == Attribute("DHCPVendorEncapOption", 127, "bytes")
AcctInputOctets64 == Attribute("AcctInputOctets64", 128, "integer64")
AcctOutputOctets64 == Attribute("AcctOutputOctets64", 129, "integer64")
AcctInputPackets64 == Attribute("AcctInputPackets64", 130, "integer64")
AcctOutputPackets64 == Attribute("AcctOutputPackets64", 131, "integer64")
AssignedIPAddress == Attribute("AssignedIPAddress", 132, "ipaddr")
AcctMcastInOctets64 == Attribute("AcctMcastInOctets64", 133, "integer64")
AcctMcastOutOctets64 == Attribute("AcctMcastOutOctets64", 134, "integer64")
AcctMcastInPackets64 == Attribute("AcctMcastInPackets64", 135, "integer64")
AcctMcastOutPackets64 == Attribute("AcctMcastOutPackets64", 136, "integer64")
LACPort == Attribute("LACPort", 137, "integer")
LACRealPort == Attribute("LACRealPort", 138, "integer")
LACPortType == Attribute("LACPortType", 139, "integer")
LACRealPortType == Attribute("LACRealPortType", 140, "integer")
AcctDynAcEnt == Attribute("AcctDynAcEnt", 141, "bytes")
SessionErrorCode == Attribute("SessionErrorCode", 142, "integer")
SessionErrorMsg == Attribute("SessionErrorMsg", 143, "bytes")
AcctUpdateReason == Attribute("AcctUpdateReason", 144, "integer")
MacAddr == Attribute("MacAddr", 145, "bytes")
VlanSourceInfo == Attribute("VlanSourceInfo", 146, "bytes")
AcctMcastInOctets == Attribute("AcctMcastInOctets", 147, "integer")
AcctMcastOutOctets == Attribute("AcctMcastOutOctets", 148, "integer")
AcctMcastInPackets == Attribute("AcctMcastInPackets", 149, "integer")
AcctMcastOutPackets == Attribute("AcctMcastOutPackets", 150, "integer")
ReauthSessionID == Attribute("ReauthSessionID", 151, "bytes")
QOSRateInbound == Attribute("QOSRateInbound", 156, "bytes")
QOSRateOutbound == Attribute("QOSRateOutbound", 157, "bytes")
RouteTag == Attribute("RouteTag", 158, "integer")
LIID == Attribute("LIID", 159, "integer")
LIMdAddress == Attribute("LIMdAddress", 160, "ipaddr")
LIMdPort == Attribute("LIMdPort", 161, "integer")
LIAction == Attribute("LIAction", 162, "integer")
LIProfile == Attribute("LIProfile", 163, "bytes")
DynamicPolicyFilter == Attribute("DynamicPolicyFilter", 164, "bytes")
HTTPRedirectURL == Attribute("HTTPRedirectURL", 165, "bytes")
DSLActualRateUp == Attribute("DSLActualRateUp", 166, "integer")
DSLActualRateDown == Attribute("DSLActualRateDown", 167, "integer")
DSLMinRateUp == Attribute("DSLMinRateUp", 168, "integer")
DSLMinRateDown == Attribute("DSLMinRateDown", 169, "integer")
DSLAttainableRateUp == Attribute("DSLAttainableRateUp", 170, "integer")
DSLAttainableRateDown == Attribute("DSLAttainableRateDown", 171, "integer")
DSLMaxRateUp == Attribute("DSLMaxRateUp", 172, "integer")
DSLMaxRateDown == Attribute("DSLMaxRateDown", 173, "integer")
DSLMinLowPowerRateUp == Attribute("DSLMinLowPowerRateUp", 174, "integer")
DSLMinLowPowerRateDown == Attribute("DSLMinLowPowerRateDown", 175, "integer")
DSLMaxInterDelayUp == Attribute("DSLMaxInterDelayUp", 176, "integer")
DSLActualInterDelayUp == Attribute("DSLActualInterDelayUp", 177, "integer")
DSLMaxInterDelayDown == Attribute("DSLMaxInterDelayDown", 178, "integer")
DSLActualInterDelayDown == Attribute("DSLActualInterDelayDown", 179, "integer")
DSLLineState == Attribute("DSLLineState", 180, "integer")
DSLL2Encapsulation == Attribute("DSLL2Encapsulation", 181, "integer")
DSLTransmissionSystem == Attribute("DSLTransmissionSystem", 182, "integer")
DSLPPPOAPPPOEInterWorkFlag == Attribute("DSLPPPOAPPPOEInterWorkFlag", 183, "integer")
DSLActualRateDownFactor == Attribute("DSLActualRateDownFactor", 185, "integer")
DSLCombinedLineInfo == Attribute("DSLCombinedLineInfo", 184, "bytes")
ClassVolumeLimit == Attribute("ClassVolumeLimit", 186, "bytes")
ClassVolumeInCounter == Attribute("ClassVolumeInCounter", 187, "bytes")
ClassVolumeOutCounter == Attribute("ClassVolumeOutCounter", 188, "bytes")
FlowFACProfile == Attribute("FlowFACProfile", 189, "bytes")
ServiceName == Attribute("ServiceName", 190, "taggedBytes")
ServiceAction == Attribute("ServiceAction", 191, "taggedInteger")
ServiceParameter == Attribute("ServiceParameter", 192, "taggedBytes")
ServiceErrorCause == Attribute("ServiceErrorCause", 193, "taggedInteger")
DeactivateServiceName == Attribute("DeactivateServiceName", 194, "taggedBytes")
QosProfileOverhead == Attribute("QosProfileOverhead", 195, "bytes")
DynamicQoSParam == Attribute("DynamicQoSParam", 196, "bytes")
AcctAltSessionID == Attribute("AcctAltSessionID", 197, "bytes")
IdleTimeoutThreshold == Attribute("IdleTimeoutThreshold", 198, "integer")
DoubleAuthentication == Attribute("DoubleAuthentication", 199, "integer")
SBCAdjacency == Attribute("SBCAdjacency", 200, "bytes")
DHCPField == Attribute("DHCPField", 201, "bytes")
DHCPOption == Attribute("DHCPOption", 202, "bytes")
SecurityService == Attribute("SecurityService", 203, "bytes")
ReauthServiceName == Attribute("ReauthServiceName", 204, "taggedBytes")
FlowIPProfile == Attribute("FlowIPProfile", 205, "bytes")
RadiusThrottleWatermark == Attribute("RadiusThrottleWatermark", 206, "integer")

Dictionary ==
    {ClientDNSPri, ClientDNSSec, DHCPMaxLeases, ContextName, BridgeGroup,
     BGAgingTime, BGPathCost, BGSpanDis, BGTransBPDU, RateLimitRate,
     RateLimitBurst, PoliceRate, PoliceBurst, SourceValidation,
     TunnelDomain, TunnelLocalName, TunnelRemoteName, TunnelFunction,
     TunnelFlowControl, TunnelStatic, TunnelMaxSessions, TunnelMaxTunnels,
     TunnelSessionAuth, TunnelWindow, TunnelRetransmit, TunnelCmdTimeout,
     PPPOEURL, PPPOEMOTM, TunnelGroup, TunnelContext, TunnelAlgorithm,
     TunnelDeadtime, McastSend, McastReceive, McastMaxGroups,
     IPAddressPoolName, TunnelDNIS, MediumType, PVCEncapsulationType,
     PVCProfileName, PVCCircuitPadding, BindType, BindAuthProtocol,
     BindAuthMaxSessions, BindBypassBypass, BindAuthContext,
     BindAuthServiceGrp, BindBypassContext, BindIntContext, BindTunContext,
     BindSesContext, BindDot1qSlot, BindDot1qPort, BindDot1qVlanTagID,
     BindIntInterfaceName, BindL2TPTunnelName, BindL2TPFlowControl,
     BindSubUserAtContext, BindSubPassword, IPHostAddr, IPTOSField,
     NASRealPort, TunnelSessionAuthCtx, TunnelSessionAuthServiceGrp,
     TunnelRateLimitRate, TunnelRateLimitBurst, TunnelPoliceRate,
     TunnelPoliceBurst, TunnelL2FSecondPassword, ACLDefinition,
     PPPoEIPRouteAdd, TTYLevelMax, TTYLevelStart, TunnelChecksum,
     TunnelProfile, TunnelClientVPN, TunnelServerVPN, TunnelClientRhost,
     TunnelServerRhost, TunnelClientIntAddr, TunnelServerIntAddr,
     PPPCompression, TunnelHelloTimer, RedbackReason,
     QosPolicingProfileName, QosMeteringProfileName, QosPolicyQueuing,
     IGMPServiceProfileName, SubscriberProfileName, ForwardPolicy,
     RemotePort, Reauth, ReauthMore, AgentRemoteID, AgentCircuitID,
     PlatformType, ClientNBNSPri, ClientNBNSSec, ShapingProfileName,
     BGCctAddrMax, IPInterfaceName, NATPolicyName, RBNPMServiceID,
     HTTPRedirectProfileName, BindAutoSubUser, BindAutoSubContext,
     BindAutoSubPassword, CircuitProtocolEncap, OSVersion,
     SessionTrafficLimit, QOSReference, RateLimitExcessBurst,
     PoliceExcessBurst, TunnelRateLimitExcessBurst, TunnelPoliceExcessBurst,
     DHCPVendorClassID, QosRate, DHCPVendorEncapOption, AcctInputOctets64,
     AcctOutputOctets64, AcctInputPackets64, AcctOutputPackets64,
     AssignedIPAddress, AcctMcastInOctets64, AcctMcastOutOctets64,
     AcctMcastInPackets64, AcctMcastOutPackets64, LACPort, LACRealPort,
     LACPortType, LACRealPortType, AcctDynAcEnt, SessionErrorCode,
     SessionErrorMsg, AcctUpdateReason, MacAddr, VlanSourceInfo,
     AcctMcastInOctets, AcctMcastOutOctets, AcctMcastInPackets,
     AcctMcastOutPackets, ReauthSessionID, QOSRateInbound, QOSRateOutbound,
     RouteTag, LIID, LIMdAddress, LIMdPort, LIAction, LIProfile,
     DynamicPolicyFilter, HTTPRedirectURL, DSLActualRateUp,
     DSLActualRateDown, DSLMinRateUp, DSLMinRateDown, DSLAttainableRateUp,
     DSLAttainableRateDown, DSLMaxRateUp, DSLMaxRateDown,
     DSLMinLowPowerRateUp, DSLMinLowPowerRateDown, DSLMaxInterDelayUp,
     DSLActualInterDelayUp, DSLMaxInterDelayDown, DSLActualInterDelayDown,
     DSLLineState, DSLL2Encapsulation, DSLTransmissionSystem,
     DSLPPPOAPPPOEInterWorkFlag, DSLActualRateDownFactor,
     DSLCombinedLineInfo, ClassVolumeLimit, ClassVolumeInCounter,
     ClassVolumeOutCounter, FlowFACProfile, ServiceName, ServiceAction,
     ServiceParameter, ServiceErrorCause, DeactivateServiceName,
     QosProfileOverhead, DynamicQoSParam, AcctAltSessionID,
     IdleTimeoutThreshold, DoubleAuthentication, SBCAdjacency, DHCPField,
     DHCPOption, SecurityService, ReauthServiceName, FlowIPProfile,
     RadiusThrottleWatermark}
=============================================================================
