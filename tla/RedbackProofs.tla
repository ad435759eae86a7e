---------------------------- MODULE RedbackProofs ----------------------------
(***************************************************************************)
(* Proofs about the accessors of the Redback dictionary, for any values,     *)
(* tags, attributes of other vendors and bytes that no accessor wrote.       *)
(***************************************************************************)
EXTENDS Redback, FlattenTheorems

-----------------------------------------------------------------------------
(* The dictionary *)

Codecs == {"bytes", "integer", "integer64", "ipaddr", "taggedBytes", "taggedInteger"}

(* Each attribute has a number of one byte and one of six codecs.            *)
LEMMA DictionaryTypes == \A a \in Dictionary : a.typ \in 1 .. 255 /\ a.codec \in Codecs
BY SMTT(60) DEF Dictionary, Attribute, Codecs,
         ClientDNSPri, ClientDNSSec, DHCPMaxLeases, ContextName, BridgeGroup,
         BGAgingTime, BGPathCost, BGSpanDis, BGTransBPDU, RateLimitRate,
         RateLimitBurst, PoliceRate, PoliceBurst, SourceValidation,
         TunnelDomain, TunnelLocalName, TunnelRemoteName, TunnelFunction,
         TunnelFlowControl, TunnelStatic, TunnelMaxSessions, TunnelMaxTunnels,
         TunnelSessionAuth, TunnelWindow, TunnelRetransmit, TunnelCmdTimeout,
         PPPOEURL, PPPOEMOTM, TunnelGroup, TunnelContext, TunnelAlgorithm,
         TunnelDeadtime, McastSend, McastReceive, McastMaxGroups,
         IPAddressPoolName, TunnelDNIS, MediumType, PVCEncapsulationType,
         PVCProfileName, PVCCircuitPadding, BindType, BindAuthProtocol,
         BindAuthMaxSessions, BindBypassBypass, BindAuthContext,
         BindAuthServiceGrp, BindBypassContext, BindIntContext, BindTunContext,
         BindSesContext, BindDot1qSlot, BindDot1qPort, BindDot1qVlanTagID,
         BindIntInterfaceName, BindL2TPTunnelName, BindL2TPFlowControl,
         BindSubUserAtContext, BindSubPassword, IPHostAddr, IPTOSField,
         NASRealPort, TunnelSessionAuthCtx, TunnelSessionAuthServiceGrp,
         TunnelRateLimitRate, TunnelRateLimitBurst, TunnelPoliceRate,
         TunnelPoliceBurst, TunnelL2FSecondPassword, ACLDefinition,
         PPPoEIPRouteAdd, TTYLevelMax, TTYLevelStart, TunnelChecksum,
         TunnelProfile, TunnelClientVPN, TunnelServerVPN, TunnelClientRhost,
         TunnelServerRhost, TunnelClientIntAddr, TunnelServerIntAddr,
         PPPCompression, TunnelHelloTimer, RedbackReason,
         QosPolicingProfileName, QosMeteringProfileName, QosPolicyQueuing,
         IGMPServiceProfileName, SubscriberProfileName, ForwardPolicy,
         RemotePort, Reauth, ReauthMore, AgentRemoteID, AgentCircuitID,
         PlatformType, ClientNBNSPri, ClientNBNSSec, ShapingProfileName,
         BGCctAddrMax, IPInterfaceName, NATPolicyName, RBNPMServiceID,
         HTTPRedirectProfileName, BindAutoSubUser, BindAutoSubContext,
         BindAutoSubPassword, CircuitProtocolEncap, OSVersion,
         SessionTrafficLimit, QOSReference, RateLimitExcessBurst,
         PoliceExcessBurst, TunnelRateLimitExcessBurst,
         TunnelPoliceExcessBurst, DHCPVendorClassID, QosRate,
         DHCPVendorEncapOption, AcctInputOctets64, AcctOutputOctets64,
         AcctInputPackets64, AcctOutputPackets64, AssignedIPAddress,
         AcctMcastInOctets64, AcctMcastOutOctets64, AcctMcastInPackets64,
         AcctMcastOutPackets64, LACPort, LACRealPort, LACPortType,
         LACRealPortType, AcctDynAcEnt, SessionErrorCode, SessionErrorMsg,
         AcctUpdateReason, MacAddr, VlanSourceInfo, AcctMcastInOctets,
         AcctMcastOutOctets, AcctMcastInPackets, AcctMcastOutPackets,
         ReauthSessionID, QOSRateInbound, QOSRateOutbound, RouteTag, LIID,
         LIMdAddress, LIMdPort, LIAction, LIProfile, DynamicPolicyFilter,
         HTTPRedirectURL, DSLActualRateUp, DSLActualRateDown, DSLMinRateUp,
         DSLMinRateDown, DSLAttainableRateUp, DSLAttainableRateDown,
         DSLMaxRateUp, DSLMaxRateDown, DSLMinLowPowerRateUp,
         DSLMinLowPowerRateDown, DSLMaxInterDelayUp, DSLActualInterDelayUp,
         DSLMaxInterDelayDown, DSLActualInterDelayDown, DSLLineState,
         DSLL2Encapsulation, DSLTransmissionSystem, DSLPPPOAPPPOEInterWorkFlag,
         DSLActualRateDownFactor, DSLCombinedLineInfo, ClassVolumeLimit,
         ClassVolumeInCounter, ClassVolumeOutCounter, FlowFACProfile,
         ServiceName, ServiceAction, ServiceParameter, ServiceErrorCause,
         DeactivateServiceName, QosProfileOverhead, DynamicQoSParam,
         AcctAltSessionID, IdleTimeoutThreshold, DoubleAuthentication,
         SBCAdjacency, DHCPField, DHCPOption, SecurityService,
         ReauthServiceName, FlowIPProfile, RadiusThrottleWatermark

(* No two of the 193 attributes share a number.                              *)
THEOREM DictionaryNumbers == \A a, b \in Dictionary : a.typ = b.typ => a = b
BY SMTT(60) DEF Dictionary, Attribute,
         ClientDNSPri, ClientDNSSec, DHCPMaxLeases, ContextName, BridgeGroup,
         BGAgingTime, BGPathCost, BGSpanDis, BGTransBPDU, RateLimitRate,
         RateLimitBurst, PoliceRate, PoliceBurst, SourceValidation,
         TunnelDomain, TunnelLocalName, TunnelRemoteName, TunnelFunction,
         TunnelFlowControl, TunnelStatic, TunnelMaxSessions, TunnelMaxTunnels,
         TunnelSessionAuth, TunnelWindow, TunnelRetransmit, TunnelCmdTimeout,
         PPPOEURL, PPPOEMOTM, TunnelGroup, TunnelContext, TunnelAlgorithm,
         TunnelDeadtime, McastSend, McastReceive, McastMaxGroups,
         IPAddressPoolName, TunnelDNIS, MediumType, PVCEncapsulationType,
         PVCProfileName, PVCCircuitPadding, BindType, BindAuthProtocol,
         BindAuthMaxSessions, BindBypassBypass, BindAuthContext,
         BindAuthServiceGrp, BindBypassContext, BindIntContext, BindTunContext,
         BindSesContext, BindDot1qSlot, BindDot1qPort, BindDot1qVlanTagID,
         BindIntInterfaceName, BindL2TPTunnelName, BindL2TPFlowControl,
         BindSubUserAtContext, BindSubPassword, IPHostAddr, IPTOSField,
         NASRealPort, TunnelSessionAuthCtx, TunnelSessionAuthServiceGrp,
         TunnelRateLimitRate, TunnelRateLimitBurst, TunnelPoliceRate,
         TunnelPoliceBurst, TunnelL2FSecondPassword, ACLDefinition,
         PPPoEIPRouteAdd, TTYLevelMax, TTYLevelStart, TunnelChecksum,
         TunnelProfile, TunnelClientVPN, TunnelServerVPN, TunnelClientRhost,
         TunnelServerRhost, TunnelClientIntAddr, TunnelServerIntAddr,
         PPPCompression, TunnelHelloTimer, RedbackReason,
         QosPolicingProfileName, QosMeteringProfileName, QosPolicyQueuing,
         IGMPServiceProfileName, SubscriberProfileName, ForwardPolicy,
         RemotePort, Reauth, ReauthMore, AgentRemoteID, AgentCircuitID,
         PlatformType, ClientNBNSPri, ClientNBNSSec, ShapingProfileName,
         BGCctAddrMax, IPInterfaceName, NATPolicyName, RBNPMServiceID,
         HTTPRedirectProfileName, BindAutoSubUser, BindAutoSubContext,
         BindAutoSubPassword, CircuitProtocolEncap, OSVersion,
         SessionTrafficLimit, QOSReference, RateLimitExcessBurst,
         PoliceExcessBurst, TunnelRateLimitExcessBurst,
         TunnelPoliceExcessBurst, DHCPVendorClassID, QosRate,
         DHCPVendorEncapOption, AcctInputOctets64, AcctOutputOctets64,
         AcctInputPackets64, AcctOutputPackets64, AssignedIPAddress,
         AcctMcastInOctets64, AcctMcastOutOctets64, AcctMcastInPackets64,
         AcctMcastOutPackets64, LACPort, LACRealPort, LACPortType,
         LACRealPortType, AcctDynAcEnt, SessionErrorCode, SessionErrorMsg,
         AcctUpdateReason, MacAddr, VlanSourceInfo, AcctMcastInOctets,
         AcctMcastOutOctets, AcctMcastInPackets, AcctMcastOutPackets,
         ReauthSessionID, QOSRateInbound, QOSRateOutbound, RouteTag, LIID,
         LIMdAddress, LIMdPort, LIAction, LIProfile, DynamicPolicyFilter,
         HTTPRedirectURL, DSLActualRateUp, DSLActualRateDown, DSLMinRateUp,
         DSLMinRateDown, DSLAttainableRateUp, DSLAttainableRateDown,
         DSLMaxRateUp, DSLMaxRateDown, DSLMinLowPowerRateUp,
         DSLMinLowPowerRateDown, DSLMaxInterDelayUp, DSLActualInterDelayUp,
         DSLMaxInterDelayDown, DSLActualInterDelayDown, DSLLineState,
         DSLL2Encapsulation, DSLTransmissionSystem, DSLPPPOAPPPOEInterWorkFlag,
         DSLActualRateDownFactor, DSLCombinedLineInfo, ClassVolumeLimit,
         ClassVolumeInCounter, ClassVolumeOutCounter, FlowFACProfile,
         ServiceName, ServiceAction, ServiceParameter, ServiceErrorCause,
         DeactivateServiceName, QosProfileOverhead, DynamicQoSParam,
         AcctAltSessionID, IdleTimeoutThreshold, DoubleAuthentication,
         SBCAdjacency, DHCPField, DHCPOption, SecurityService,
         ReauthServiceName, FlowIPProfile, RadiusThrottleWatermark

-----------------------------------------------------------------------------
(* The loop over the sub-attributes of one Vendor-Specific attribute.        *)

Sub == [typ : Byte, attr : Seq(Byte)]

(* What the loop finds from position i on, when f has what it finds further  *)
(* on.                                                                       *)
Rest(vsa, f, i) ==
    LET left == Len(vsa) - i + 1
    IN  IF left < 3 THEN <<>>
        ELSE IF vsa[i + 1] > left \/ vsa[i + 1] < 3 THEN <<>>
        ELSE <<[typ |-> vsa[i], attr |-> SubSeq(vsa, i + 2, i + vsa[i + 1] - 1)]>>
               \o f[i + vsa[i + 1]]

ReadsFrom(vsa, f, p) == \A i \in p .. Len(vsa) + 1 : f[i] = Rest(vsa, f, i)

(* It finds sub-attributes, and looks further on only.                       *)
LEMMA RestType ==
    ASSUME NEW vsa \in Seq(Byte), NEW i \in 1 .. Len(vsa) + 1, NEW f,
           \A j \in i + 1 .. Len(vsa) + 1 : f[j] \in Seq(Sub)
    PROVE  Rest(vsa, f, i) \in Seq(Sub)
<1> DEFINE left == Len(vsa) - i + 1
           n == vsa[i + 1]
           s == [typ |-> vsa[i], attr |-> SubSeq(vsa, i + 2, i + n - 1)]
<1>1. CASE left < 3 \/ n > left \/ n < 3
  BY <1>1 DEF Rest
<1>2. CASE ~(left < 3 \/ n > left \/ n < 3)
  <2>1. Len(vsa) \in Nat /\ i \in 1 .. Len(vsa) /\ i + 1 \in 1 .. Len(vsa)
    BY <1>2
  <2>2. vsa[i] \in Byte /\ n \in Byte /\ n \in Nat
    <3>1. vsa[i] \in Byte /\ n \in Byte
      BY <2>1
    <3>2. \A x \in Byte : x \in Nat
      BY DEF Byte
    <3>3. QED
      BY <3>1, <3>2
  <2>3. i + n \in i + 1 .. Len(vsa) + 1 /\ i + n - 1 \in 1 .. Len(vsa) /\ i + 2 \in 1 .. Len(vsa) + 1
    BY <1>2, <2>1, <2>2
  <2>4. SubSeq(vsa, i + 2, i + n - 1) \in Seq(Byte)
    BY <2>3, SubSeqProperties
  <2>5. s \in Sub
    BY <2>2, <2>4 DEF Sub
  <2>6. f[i + n] \in Seq(Sub)
    BY <2>3
  <2>7. Rest(vsa, f, i) = <<s>> \o f[i + n]
    BY <1>2 DEF Rest
  <2> HIDE DEF s
  <2>8. QED
    BY <2>5, <2>6, <2>7
<1>3. QED
  BY <1>1, <1>2

(* What it finds depends on what f has further on, and on nothing else.      *)
LEMMA RestSame ==
    ASSUME NEW vsa \in Seq(Byte), NEW i \in 1 .. Len(vsa) + 1, NEW f, NEW g,
           \A j \in i + 1 .. Len(vsa) + 1 : f[j] = g[j]
    PROVE  Rest(vsa, f, i) = Rest(vsa, g, i)
<1> DEFINE left == Len(vsa) - i + 1
           n == vsa[i + 1]
<1>1. CASE left < 3 \/ n > left \/ n < 3
  BY <1>1 DEF Rest
<1>2. CASE ~(left < 3 \/ n > left \/ n < 3)
  <2>1. Len(vsa) \in Nat /\ i + 1 \in 1 .. Len(vsa)
    BY <1>2
  <2>2. n \in Nat
    <3>1. n \in Byte
      BY <2>1
    <3>2. \A x \in Byte : x \in Nat
      BY DEF Byte
    <3>3. QED
      BY <3>1, <3>2
  <2>3. f[i + n] = g[i + n]
    BY <1>2, <2>1, <2>2
  <2>4. QED
    BY <1>2, <2>3 DEF Rest
<1>3. QED
  BY <1>1, <1>2

(* The loop can be run from the end of the bytes back to the first.          *)
LEMMA ReadsSome ==
    ASSUME NEW vsa \in Seq(Byte)
    PROVE  \E f \in [1 .. Len(vsa) + 1 -> Seq(Sub)] : ReadsFrom(vsa, f, 1)
<1> DEFINE n == Len(vsa)
           Found == Seq(Sub)
           T == {k \in 0 .. n + 1 :
                   ~\E f \in [n + 2 - k .. n + 1 -> Found] : ReadsFrom(vsa, f, n + 2 - k)}
<1>0. n \in Nat
  OBVIOUS
<1>1. ASSUME T # {} PROVE FALSE
  <2>1. PICK m \in T : \A k \in T : m <= k
    <3>1. T \subseteq Nat
      OBVIOUS
    <3>2. QED
      BY <3>1, <1>1, LeastNatural
  <2>2. m \in 0 .. n + 1
    BY <2>1
  <2>3. m # 0
    <3>1. n + 2 - 0 .. n + 1 = {}
      BY <1>0
    <3>2. [k \in n + 2 - 0 .. n + 1 |-> <<>>] \in [n + 2 - 0 .. n + 1 -> Found]
      BY <3>1
    <3>3. ReadsFrom(vsa, [k \in n + 2 - 0 .. n + 1 |-> <<>>], n + 2 - 0)
      BY <3>1 DEF ReadsFrom
    <3>4. 0 \notin T
      BY <3>2, <3>3
    <3>5. QED
      BY <2>1, <3>4
  <2>4. m - 1 \in 0 .. n + 1 /\ m - 1 \notin T
    <3>1. m - 1 \in 0 .. n + 1 /\ ~(m <= m - 1)
      BY <1>0, <2>2, <2>3
    <3>2. QED
      BY <2>1, <3>1
  <2> DEFINE p == n + 2 - m
  <2>5. p \in 1 .. n + 1 /\ n + 2 - (m - 1) = p + 1
    BY <1>0, <2>2, <2>3
  <2>6. \E f \in [n + 2 - (m - 1) .. n + 1 -> Found] : ReadsFrom(vsa, f, n + 2 - (m - 1))
    BY <2>4
  <2>7. PICK f \in [p + 1 .. n + 1 -> Found] : ReadsFrom(vsa, f, p + 1)
    BY <2>5, <2>6
  <2>8. ~\E g \in [p .. n + 1 -> Found] : ReadsFrom(vsa, g, p)
    BY <2>1
  <2> HIDE DEF p, T
  <2> DEFINE here == Rest(vsa, f, p)
             g == [k \in p .. n + 1 |-> IF k = p THEN here ELSE f[k]]
  <2>9. here \in Found
    BY <2>5, <2>7, RestType
  <2>10. g \in [p .. n + 1 -> Found]
    <3> HIDE DEF here, Found
    <3>1. \A k \in p .. n + 1 : k # p => k \in p + 1 .. n + 1
      BY <1>0, <2>5
    <3>2. QED
      BY <2>7, <2>9, <3>1
  <2>11. ASSUME NEW k \in p .. n + 1 PROVE g[k] = Rest(vsa, g, k)
    <3>1. k \in 1 .. n + 1 /\ (k # p => k \in p + 1 .. n + 1)
      BY <1>0, <2>5
    <3>2. \A i \in k + 1 .. n + 1 : f[i] = g[i]
      BY <1>0, <2>5
    <3>3. Rest(vsa, f, k) = Rest(vsa, g, k)
      <4> HIDE DEF g
      <4>1. QED
        BY <3>1, <3>2, RestSame
    <3>4. g[k] = Rest(vsa, f, k)
      <4>1. CASE k = p
        BY <4>1
      <4>2. CASE k # p
        BY <2>7, <3>1, <4>2 DEF ReadsFrom
      <4>3. QED
        BY <4>1, <4>2
    <3> HIDE DEF g
    <3>5. QED
      BY <3>3, <3>4
  <2>12. ReadsFrom(vsa, g, p)
    BY <2>11 DEF ReadsFrom
  <2>13. QED
    BY <2>8, <2>10, <2>12
<1>2. n + 1 \in 0 .. n + 1 /\ n + 2 - (n + 1) = 1
  BY <1>0
<1>3. n + 1 \notin T
  BY <1>1
<1>4. \E f \in [n + 2 - (n + 1) .. n + 1 -> Found] : ReadsFrom(vsa, f, n + 2 - (n + 1))
  BY <1>2, <1>3
<1>5. QED
  BY <1>2, <1>4

(* However it is run, it finds sub-attributes.                               *)
LEMMA ReadsType ==
    ASSUME NEW vsa \in Seq(Byte), NEW f, ReadsFrom(vsa, f, 1)
    PROVE  \A i \in 1 .. Len(vsa) + 1 : f[i] \in Seq(Sub)
<1> DEFINE n == Len(vsa)
           T == {k \in 0 .. n : f[n + 1 - k] \notin Seq(Sub)}
<1>0. n \in Nat
  OBVIOUS
<1>1. ASSUME T # {} PROVE FALSE
  <2>1. PICK m \in T : \A k \in T : m <= k
    <3>1. T \subseteq Nat
      OBVIOUS
    <3>2. QED
      BY <3>1, <1>1, LeastNatural
  <2> DEFINE p == n + 1 - m
  <2>2. p \in 1 .. n + 1 /\ m \in 0 .. n
    BY <1>0, <2>1
  <2>3. ASSUME NEW j \in p + 1 .. n + 1 PROVE f[j] \in Seq(Sub)
    <3>1. n + 1 - j \in 0 .. n /\ ~(m <= n + 1 - j) /\ n + 1 - (n + 1 - j) = j
      BY <1>0, <2>2
    <3>2. n + 1 - j \notin T
      BY <2>1, <3>1
    <3>3. f[n + 1 - (n + 1 - j)] \in Seq(Sub)
      BY <3>1, <3>2
    <3>4. QED
      BY <3>1, <3>3
  <2>4. f[p] \notin Seq(Sub)
    BY <2>1
  <2> HIDE DEF p
  <2>5. Rest(vsa, f, p) \in Seq(Sub)
    BY <2>2, <2>3, RestType
  <2>6. f[p] = Rest(vsa, f, p)
    BY <2>2 DEF ReadsFrom
  <2>7. QED
    BY <2>4, <2>5, <2>6
<1>2. ASSUME NEW i \in 1 .. n + 1 PROVE f[i] \in Seq(Sub)
  <2>1. n + 1 - i \in 0 .. n /\ n + 1 - (n + 1 - i) = i
    BY <1>0
  <2>2. n + 1 - i \notin T
    BY <1>1
  <2>3. f[n + 1 - (n + 1 - i)] \in Seq(Sub)
    BY <2>1, <2>2
  <2>4. QED
    BY <2>1, <2>3
<1>3. QED
  BY <1>2

(* SubAttributes is the loop run from the first byte. *)
LEMMA SubAttributesIs ==
    ASSUME NEW vsa \in Seq(Byte)
    PROVE  \E f : /\ ReadsFrom(vsa, f, 1) /\ SubAttributes(vsa) = f[1]
                  /\ \A i \in 1 .. Len(vsa) + 1 : f[i] \in Seq(Sub)
<1> DEFINE n == Len(vsa)
           Fixed(f) == f = [i \in 1 .. n + 1 |-> Rest(vsa, f, i)]
           c == CHOOSE f : Fixed(f)
<1>1. PICK f \in [1 .. n + 1 -> Seq(Sub)] : ReadsFrom(vsa, f, 1)
  BY ReadsSome
<1>2. Fixed(f)
  BY <1>1 DEF ReadsFrom
<1>3. Fixed(c)
  BY <1>2
<1>4. SubAttributes(vsa) = c[1]
  BY DEF SubAttributes, Rest
<1> HIDE DEF c
<1>5. ReadsFrom(vsa, c, 1)
  <2> DEFINE r == [i \in 1 .. n + 1 |-> Rest(vsa, c, i)]
  <2>1. c = r
    BY <1>3
  <2>2. \A i \in 1 .. n + 1 : r[i] = Rest(vsa, c, i)
    OBVIOUS
  <2> HIDE DEF r
  <2>3. QED
    BY <2>1, <2>2 DEF ReadsFrom
<1>6. QED
  BY <1>4, <1>5, ReadsType

(* The loop finds sub-attributes, whatever the bytes. *)
LEMMA SubAttributesType ==
    ASSUME NEW vsa \in Seq(Byte)
    PROVE  SubAttributes(vsa) \in Seq(Sub)
<1>1. PICK f : /\ ReadsFrom(vsa, f, 1) /\ SubAttributes(vsa) = f[1]
               /\ \A i \in 1 .. Len(vsa) + 1 : f[i] \in Seq(Sub)
  BY SubAttributesIs
<1>2. 1 \in 1 .. Len(vsa) + 1
  OBVIOUS
<1>3. QED
  BY <1>1, <1>2

-----------------------------------------------------------------------------
(* The values of one number in a packet.                                     *)

Vsa == [vendor : {_Redback_VendorID, OtherVendor}, vsa : Seq(Byte)]

Written(typ, attr) == [vendor |-> _Redback_VendorID, vsa |-> <<typ, 2 + Len(attr)>> \o attr]

(* Values are found, whatever the bytes. *)
LEMMA HitsType ==
    ASSUME NEW a \in Vsa, NEW typ
    PROVE  Hits(a, typ) \in Seq(Seq(Byte))
<1> DEFINE subs == SubAttributes(a.vsa)
           Value == Seq(Byte)
           parts == [i \in 1 .. Len(subs) |-> IF subs[i].typ = typ THEN <<subs[i].attr>> ELSE <<>>]
<1>1. a.vsa \in Seq(Byte)
  BY DEF Vsa
<1>2. subs \in Seq(Sub)
  BY <1>1, SubAttributesType
<1>3. \A s \in Sub : s.attr \in Value
  BY DEF Sub
<1> HIDE DEF subs, Value
<1>4. parts \in Seq(Seq(Value))
  <2>1. \A i \in 1 .. Len(subs) : subs[i].attr \in Value
    BY <1>2, <1>3
  <2>2. \A i \in 1 .. Len(subs) :
          (IF subs[i].typ = typ THEN <<subs[i].attr>> ELSE <<>>) \in Seq(Value)
    BY <2>1
  <2>3. Len(subs) \in Nat
    BY <1>2
  <2>4. QED
    BY <2>2, <2>3
<1> HIDE DEF parts
<1>5. FlattenSeq(parts) \in Seq(Value)
  BY <1>4, FlattenType
<1>6. Hits(a, typ) = <<>> \/ Hits(a, typ) = FlattenSeq(parts)
  BY DEF Hits, parts, subs
<1>7. Hits(a, typ) \in Seq(Value)
  <2>1. <<>> \in Seq(Value)
    OBVIOUS
  <2>2. QED
    BY <1>5, <1>6, <2>1, Zenon
<1>8. QED
  BY <1>7 DEF Value

(* In an attribute that an Add accessor wrote the loop finds its value under *)
(* its number, and nothing else; it does not find an empty value.            *)
LEMMA SubAttributesOfWritten ==
    ASSUME NEW typ \in Byte, NEW attr \in Seq(Byte), 2 + Len(attr) \in Byte
    PROVE  /\ Written(typ, attr).vsa \in Seq(Byte) /\ Written(typ, attr).vsa # <<>>
           /\ SubAttributes(Written(typ, attr).vsa) =
                IF attr = <<>> THEN <<>> ELSE <<[typ |-> typ, attr |-> attr]>>
<1> DEFINE vsa == <<typ, 2 + Len(attr)>> \o attr
           n == Len(attr)
<1>0. n \in Nat /\ (attr = <<>> <=> n = 0)
  OBVIOUS
<1>1. /\ vsa \in Seq(Byte) /\ Len(vsa) = 2 + n
      /\ vsa[1] = typ /\ vsa[2] = 2 + n /\ \A i \in 1 .. n : vsa[2 + i] = attr[i]
  <2> DEFINE head == <<typ, 2 + Len(attr)>>
  <2>1. head \in Seq(Byte) /\ Len(head) = 2 /\ head[1] = typ /\ head[2] = 2 + n
    OBVIOUS
  <2> HIDE DEF head
  <2>2. /\ head \o attr \in Seq(Byte) /\ Len(head \o attr) = 2 + n
        /\ \A i \in 1 .. 2 + n : (head \o attr)[i] = IF i <= 2 THEN head[i] ELSE attr[i - 2]
    <3>1. /\ head \o attr \in Seq(Byte) /\ Len(head \o attr) = Len(head) + Len(attr)
          /\ \A i \in 1 .. Len(head) + Len(attr) :
               (head \o attr)[i] = IF i <= Len(head) THEN head[i] ELSE attr[i - Len(head)]
      BY <2>1, ConcatProperties
    <3>2. QED
      BY <2>1, <3>1
  <2>3. \A i \in 1 .. n : 2 + i \in 1 .. 2 + n /\ ~(2 + i <= 2) /\ (2 + i) - 2 = i
    BY <1>0
  <2>4. \A i \in 1 .. n : (head \o attr)[2 + i] = attr[i]
    BY <2>2, <2>3
  <2>5. 1 \in 1 .. 2 + n /\ 2 \in 1 .. 2 + n
    BY <1>0
  <2>6. QED
    BY <2>1, <2>2, <2>4, <2>5 DEF head
<1>2. Written(typ, attr).vsa = vsa
  BY DEF Written
<1> HIDE DEF vsa, n
<1>3. PICK f : ReadsFrom(vsa, f, 1) /\ SubAttributes(vsa) = f[1]
  BY <1>1, SubAttributesIs
<1>4. f[1] = Rest(vsa, f, 1)
  BY <1>0, <1>1, <1>3 DEF ReadsFrom
<1>5. CASE n = 0
  <2>1. Rest(vsa, f, 1) = <<>>
    BY <1>1, <1>5 DEF Rest
  <2>2. QED
    BY <1>0, <1>1, <1>2, <1>3, <1>4, <1>5, <2>1
<1>6. CASE n # 0
  <2>1. f[2 + n + 1] = <<>>
    <3>1. f[2 + n + 1] = Rest(vsa, f, 2 + n + 1)
      <4>1. 2 + n + 1 \in 1 .. Len(vsa) + 1
        BY <1>0, <1>1
      <4>2. QED
        BY <1>3, <4>1 DEF ReadsFrom
    <3>2. Len(vsa) - (2 + n + 1) + 1 < 3
      BY <1>0, <1>1
    <3>3. QED
      BY <3>1, <3>2 DEF Rest
  <2>2. SubSeq(vsa, 3, 2 + n) = attr
    <3>1. SubSeq(vsa, 3, 2 + n) \in Seq(Byte) /\ Len(SubSeq(vsa, 3, 2 + n)) = n
      BY <1>0, <1>1, <1>6, SubSeqProperties
    <3>2. \A i \in 1 .. n : SubSeq(vsa, 3, 2 + n)[i] = vsa[2 + i]
      BY <1>0, <1>1, <1>6, SubSeqProperties
    <3>3. \A i \in 1 .. n : SubSeq(vsa, 3, 2 + n)[i] = attr[i]
      BY <1>1, <3>2
    <3>4. QED
      BY <3>1, <3>3, SeqEqual DEF n
  <2>3. /\ ~(Len(vsa) - 1 + 1 < 3) /\ ~(vsa[1 + 1] > Len(vsa) - 1 + 1) /\ ~(vsa[1 + 1] < 3)
        /\ 1 + 2 = 3 /\ 1 + vsa[1 + 1] - 1 = 2 + n /\ 1 + vsa[1 + 1] = 2 + n + 1
    BY <1>0, <1>1, <1>6
  <2>4. Rest(vsa, f, 1) = <<[typ |-> vsa[1], attr |-> SubSeq(vsa, 3, 2 + n)]>> \o f[2 + n + 1]
    <3>1. Rest(vsa, f, 1) =
            <<[typ |-> vsa[1], attr |-> SubSeq(vsa, 1 + 2, 1 + vsa[1 + 1] - 1)]>> \o f[1 + vsa[1 + 1]]
      BY <2>3 DEF Rest
    <3>2. QED
      BY <2>3, <3>1
  <2>5. <<[typ |-> typ, attr |-> attr]>> \o <<>> = <<[typ |-> typ, attr |-> attr]>>
    OBVIOUS
  <2>6. vsa # <<>>
    BY <1>0, <1>1
  <2>7. QED
    BY <1>0, <1>1, <1>2, <1>3, <1>4, <1>6, <2>1, <2>2, <2>4, <2>5, <2>6
<1>7. QED
  BY <1>5, <1>6

(* The same for the values of one number. *)
LEMMA HitsOfWritten ==
    ASSUME NEW typ \in Byte, NEW attr \in Seq(Byte), 2 + Len(attr) \in Byte, NEW t
    PROVE  Hits(Written(typ, attr), t) = IF t = typ /\ attr # <<>> THEN <<attr>> ELSE <<>>
<1> DEFINE a == Written(typ, attr)
           subs == SubAttributes(a.vsa)
           parts == [i \in 1 .. Len(subs) |-> IF subs[i].typ = t THEN <<subs[i].attr>> ELSE <<>>]
           Value == Seq(Byte)
<1>1. subs = IF attr = <<>> THEN <<>> ELSE <<[typ |-> typ, attr |-> attr]>>
  BY SubAttributesOfWritten
<1>2. a.vendor = _Redback_VendorID /\ a.vsa # <<>>
  BY SubAttributesOfWritten DEF Written
<1>3. Hits(a, t) = FlattenSeq(parts)
  BY <1>2 DEF Hits
<1>4. CASE attr = <<>>
  <2>1. parts = <<>>
    BY <1>1, <1>4
  <2>2. QED
    BY <1>3, <1>4, <2>1, FlattenNothing
<1>5. CASE attr # <<>>
  <2> DEFINE x == IF t = typ THEN <<attr>> ELSE <<>>
  <2>1. subs = <<[typ |-> typ, attr |-> attr]>>
    BY <1>1, <1>5
  <2>2. Len(subs) = 1 /\ subs[1].typ = typ /\ subs[1].attr = attr
    BY <2>1
  <2> HIDE DEF subs
  <2>3. parts = <<x>>
    BY <2>2
  <2>4. attr \in Value
    OBVIOUS
  <2> HIDE DEF Value
  <2>5. x \in Seq(Value)
    BY <2>4
  <2>6. FlattenSeq(<<x>>) = x
    BY <2>5, FlattenOne
  <2>7. QED
    BY <1>3, <1>5, <2>3, <2>6
<1>6. QED
  BY <1>4, <1>5

(* The parts that GetsVendor puts together. *)
HitsIn(p, typ) == [i \in 1 .. Len(p) |-> Hits(p[i], typ)]

(* They are values, too. *)
LEMMA HitsInType ==
    ASSUME NEW p \in Seq(Vsa), NEW typ
    PROVE  HitsIn(p, typ) \in Seq(Seq(Seq(Byte))) /\ Len(HitsIn(p, typ)) = Len(p)
<1>1. \A i \in 1 .. Len(p) : Hits(p[i], typ) \in Seq(Seq(Byte))
  BY HitsType
<1> DEFINE Values1 == Seq(Seq(Byte))
<1> HIDE DEF Values1
<1>2. \A i \in 1 .. Len(p) : Hits(p[i], typ) \in Values1
  BY <1>1 DEF Values1
<1>3. HitsIn(p, typ) \in Seq(Values1) /\ Len(HitsIn(p, typ)) = Len(p)
  BY <1>2 DEF HitsIn
<1>4. QED
  BY <1>3 DEF Values1

(* GetsVendor finds values. *)
LEMMA GetsVendorType ==
    ASSUME NEW p \in Seq(Vsa), NEW typ
    PROVE  GetsVendor(p, typ) \in Seq(Seq(Byte))
  BY HitsInType, FlattenType DEF GetsVendor, HitsIn

(* One more Vendor-Specific attribute adds its values at the end.            *)
LEMMA GetsVendorAppend ==
    ASSUME NEW p \in Seq(Vsa), NEW a \in Vsa, NEW typ
    PROVE  GetsVendor(Append(p, a), typ) = GetsVendor(p, typ) \o Hits(a, typ)
<1>1. HitsIn(Append(p, a), typ) = Append(HitsIn(p, typ), Hits(a, typ))
  <2>1. \A i \in 1 .. Len(p) + 1 : Append(p, a)[i] = IF i = Len(p) + 1 THEN a ELSE p[i]
    OBVIOUS
  <2>2. Len(p) \in Nat /\ Len(Append(p, a)) = Len(p) + 1
    OBVIOUS
  <2>3. HitsIn(Append(p, a), typ) =
          [i \in 1 .. Len(p) + 1 |-> IF i = Len(p) + 1 THEN Hits(a, typ) ELSE HitsIn(p, typ)[i]]
    BY <2>1, <2>2 DEF HitsIn
  <2>4. HitsIn(p, typ) \in Seq(Seq(Seq(Byte))) /\ Len(HitsIn(p, typ)) = Len(p)
    BY HitsInType
  <2>5. ASSUME NEW V, NEW s \in Seq(V), NEW x \in V, Len(s) = Len(p)
        PROVE  Append(s, x) = [i \in 1 .. Len(p) + 1 |-> IF i = Len(p) + 1 THEN x ELSE s[i]]
    <3>1. Append(s, x) \in Seq(V) /\ Len(Append(s, x)) = Len(p) + 1
      BY <2>5
    <3>2. \A t \in Seq(V) : t = [i \in 1 .. Len(t) |-> t[i]]
      OBVIOUS
    <3>3. Append(s, x) = [i \in 1 .. Len(Append(s, x)) |-> Append(s, x)[i]]
      BY <3>1, <3>2, Zenon
    <3>4. Append(s, x) = [i \in 1 .. Len(p) + 1 |-> Append(s, x)[i]]
      BY <3>1, <3>3, Zenon
    <3>5. \A i \in 1 .. Len(p) + 1 : Append(s, x)[i] = IF i = Len(p) + 1 THEN x ELSE s[i]
      BY <2>2, <2>5
    <3>6. QED
      BY <3>4, <3>5, Zenon
  <2>6. Hits(a, typ) \in Seq(Seq(Byte))
    BY HitsType
  <2>7. QED
    BY <2>3, <2>4, <2>5, <2>6
<1>2. FlattenSeq(Append(HitsIn(p, typ), Hits(a, typ))) = FlattenSeq(HitsIn(p, typ)) \o Hits(a, typ)
  BY HitsInType, HitsType, FlattenAppend
<1>3. QED
  BY <1>1, <1>2 DEF GetsVendor, HitsIn

(* LookupVendor finds the first of what GetsVendor finds, or as little.      *)
LEMMA LookupVendorIs ==
    ASSUME NEW p \in Seq(Vsa), NEW typ
    PROVE  LookupVendor(p, typ) = IF GetsVendor(p, typ) = <<>> THEN [ok |-> FALSE, attr |-> <<>>]
                                  ELSE [ok |-> TRUE, attr |-> GetsVendor(p, typ)[1]]
<1> DEFINE with == {i \in 1 .. Len(p) : Hits(p[i], typ) # <<>>}
           k == CHOOSE i \in with : \A j \in with : i <= j
<1>1. /\ HitsIn(p, typ) \in Seq(Seq(Seq(Byte))) /\ Len(HitsIn(p, typ)) = Len(p)
      /\ \A i \in 1 .. Len(p) : HitsIn(p, typ)[i] = Hits(p[i], typ)
      /\ GetsVendor(p, typ) = FlattenSeq(HitsIn(p, typ))
  BY HitsInType DEF HitsIn, GetsVendor
<1>2. CASE with = {}
  <2>1. \A i \in 1 .. Len(HitsIn(p, typ)) : HitsIn(p, typ)[i] = <<>>
    BY <1>1, <1>2
  <2>2. GetsVendor(p, typ) = <<>>
    BY <1>1, <2>1, FlattenEmpties
  <2>3. QED
    BY <1>2, <2>2 DEF LookupVendor
<1>3. CASE with # {}
  <2>1. \E i \in with : \A j \in with : i <= j
    <3>1. with \subseteq Nat
      OBVIOUS
    <3>2. QED
      BY <1>3, <3>1, LeastNatural
  <2>2. k \in with /\ \A j \in with : k <= j
    BY <2>1
  <2>3. LookupVendor(p, typ) = [ok |-> TRUE, attr |-> Hits(p[k], typ)[1]]
    BY <1>3 DEF LookupVendor
  <2> HIDE DEF k
  <2>4. k \in 1 .. Len(p) /\ Hits(p[k], typ) # <<>> /\ \A j \in 1 .. k - 1 : j \notin with
    BY <2>2
  <2>5. \A j \in 1 .. k - 1 : j \in 1 .. Len(p) /\ Hits(p[j], typ) = <<>>
    BY <2>4
  <2>6. /\ k \in 1 .. Len(HitsIn(p, typ)) /\ HitsIn(p, typ)[k] # <<>>
        /\ \A j \in 1 .. k - 1 : HitsIn(p, typ)[j] = <<>>
    BY <1>1, <2>4, <2>5
  <2>7. GetsVendor(p, typ) # <<>> /\ GetsVendor(p, typ)[1] = HitsIn(p, typ)[k][1]
    BY <1>1, <2>6, FlattenFirst
  <2>8. QED
    BY <1>1, <2>3, <2>4, <2>7
<1>4. QED
  BY <1>2, <1>3

-----------------------------------------------------------------------------
(* The codecs, and the accessors of one attribute.                           *)

(* An encoded value is bytes. *)
LEMMA EncodeType ==
    ASSUME NEW codec \in Codecs, NEW tag \in Byte, NEW v \in Seq(Byte), Encodable(codec, v)
    PROVE  Encode(codec, tag, v) \in Seq(Byte)
<1>1. CASE codec = "taggedBytes"
  <2>1. <<tag>> \in Seq(Byte)
    OBVIOUS
  <2>2. <<tag>> \o v \in Seq(Byte)
    BY <2>1
  <2>3. QED
    BY <1>1, <2>2 DEF Encode
<1>2. CASE codec = "taggedInteger"
  <2> DEFINE first == IF tag \in 1 .. 31 THEN tag ELSE 0
  <2>1. first \in Byte
    BY DEF Byte
  <2>2. Encode(codec, tag, v) = [v EXCEPT ![1] = first]
    BY <1>2 DEF Encode
  <2>3. Len(v) = 4
    BY <1>2 DEF Encodable, FixedWidth, Width
  <2> HIDE DEF first
  <2>4. [v EXCEPT ![1] = first] \in Seq(Byte)
    BY <2>1, <2>3, ExceptSeq
  <2>5. QED
    BY <2>2, <2>4
<1>3. CASE codec \notin {"taggedBytes", "taggedInteger"}
  BY <1>3 DEF Encode
<1>4. QED
  BY <1>1, <1>2, <1>3

(* What comes back is of the right type, whatever the bytes. *)
LEMMA DecodeType ==
    ASSUME NEW codec \in Codecs, NEW attr \in Seq(Byte)
    PROVE  /\ Decode(codec, attr).value \in Seq(Byte)
           /\ codec = "bytes" => Decode(codec, attr) = [tag |-> 0, value |-> attr]
<1>1. CASE ~(codec \in Tagged /\ Len(attr) >= 1 /\ attr[1] <= 31)
  BY <1>1 DEF Decode
<1>2. CASE codec \in Tagged /\ Len(attr) >= 1 /\ attr[1] <= 31
  <2>1. Tail(attr) \in Seq(Byte)
    <3>1. attr # <<>>
      BY <1>2
    <3>2. QED
      BY <3>1
  <2>2. [attr EXCEPT ![1] = 0] \in Seq(Byte)
    <3>1. 1 \in 1 .. Len(attr) /\ 0 \in Byte
      BY <1>2 DEF Byte
    <3>2. QED
      BY <3>1, ExceptSeq
  <2>3. QED
    BY <1>2, <2>1, <2>2 DEF Decode, Tagged
<1>3. QED
  BY <1>1, <1>2

(* Decoding undoes encoding: tag and value come back, where the encoding     *)
(* keeps them.                                                               *)
THEOREM DecodeEncode ==
    ASSUME NEW codec \in Codecs, NEW tag \in Byte, NEW v \in Seq(Byte), Encodable(codec, v),
           codec = "taggedBytes" => tag <= 31,
           codec = "taggedInteger" => tag <= 31 /\ v[1] = 0
    PROVE  /\ Decodable(codec, Encode(codec, tag, v))
           /\ Decode(codec, Encode(codec, tag, v)) =
                [tag |-> IF codec \in Tagged THEN tag ELSE 0, value |-> v]
<1>0. tag \in Nat
  BY DEF Byte
<1>1. CASE codec = "taggedBytes"
  <2> DEFINE x == <<tag>> \o v
  <2>1. <<tag>> \in Seq(Byte)
    OBVIOUS
  <2>2. x \in Seq(Byte) /\ x[1] = tag /\ Len(x) >= 1 /\ Tail(x) = v
    BY <2>1
  <2>3. Encode(codec, tag, v) = x
    BY <1>1 DEF Encode
  <2> HIDE DEF x
  <2>4. Decode(codec, x) = [tag |-> tag, value |-> v]
    BY <1>1, <2>2 DEF Decode, Tagged
  <2>5. QED
    BY <1>1, <2>3, <2>4 DEF Decodable, FixedWidth, Tagged
<1>2. CASE codec = "taggedInteger"
  <2> DEFINE x == [v EXCEPT ![1] = tag]
  <2>1. Len(v) = 4
    BY <1>2 DEF Encodable, FixedWidth, Width
  <2>2. (IF tag \in 1 .. 31 THEN tag ELSE 0) = tag
    BY <1>0, <1>2
  <2>3. Encode(codec, tag, v) = x
    BY <1>2, <2>2 DEF Encode
  <2>4. x \in Seq(Byte) /\ Len(x) = 4 /\ x[1] = tag
    BY <2>1, ExceptSeq
  <2>5. [x EXCEPT ![1] = 0] = v
    <3>1. v = [i \in 1 .. 4 |-> v[i]] /\ v[1] = 0
      BY <1>2, <2>1
    <3>2. QED
      BY <3>1
  <2> HIDE DEF x
  <2>6. Decode(codec, x) = [tag |-> tag, value |-> v]
    BY <1>2, <2>4, <2>5 DEF Decode, Tagged
  <2>7. QED
    BY <1>2, <2>3, <2>4, <2>6 DEF Decodable, FixedWidth, Width, Tagged
<1>3. CASE codec \notin Tagged
  <2>1. Encode(codec, tag, v) = v
    BY <1>3 DEF Encode, Tagged
  <2>2. Decodable(codec, v)
    BY DEF Decodable, Encodable
  <2>3. Decode(codec, v) = [tag |-> 0, value |-> v]
    BY <1>3 DEF Decode
  <2>4. QED
    BY <1>3, <2>1, <2>2, <2>3
<1>4. QED
  BY <1>1, <1>2, <1>3 DEF Tagged

(* Lookup and Gets, with the values of the packet in between.                *)
LEMMA LookupIs ==
    ASSUME NEW p \in Seq(Vsa), NEW a \in Dictionary
    PROVE  LET raw == GetsVendor(p, a.typ)
           IN  Lookup(p, a) = IF raw # <<>> /\ Decodable(a.codec, raw[1])
                              THEN [ok |-> TRUE, got |-> Decode(a.codec, raw[1])]
                              ELSE [ok |-> FALSE, got |-> [tag |-> 0, value |-> <<>>]]
<1> DEFINE raw == GetsVendor(p, a.typ)
           hit == LookupVendor(p, a.typ)
<1>1. hit = IF raw = <<>> THEN [ok |-> FALSE, attr |-> <<>>] ELSE [ok |-> TRUE, attr |-> raw[1]]
  BY LookupVendorIs
<1>2. Lookup(p, a) = IF hit.ok /\ Decodable(a.codec, hit.attr)
                     THEN [ok |-> TRUE, got |-> Decode(a.codec, hit.attr)]
                     ELSE [ok |-> FALSE, got |-> [tag |-> 0, value |-> <<>>]]
  BY DEF Lookup
<1> HIDE DEF raw, hit
<1>3. CASE raw = <<>>
  BY <1>1, <1>2, <1>3 DEF raw
<1>4. CASE raw # <<>>
  <2>1. hit.ok /\ hit.attr = raw[1]
    BY <1>1, <1>4
  <2>2. QED
    BY <1>2, <1>4, <2>1 DEF raw
<1>5. QED
  BY <1>3, <1>4

(* Lookup finds the first of what Gets finds. *)
LEMMA LookupIsFirst ==
    ASSUME NEW p \in Seq(Vsa), NEW a \in Dictionary
    PROVE  LET one == Lookup(p, a)
               all == Gets(p, a)
           IN  IF all = <<>> THEN ~one.ok ELSE one = [ok |-> TRUE, got |-> all[1]]
<1> DEFINE raw == GetsVendor(p, a.typ)
           bad == {i \in 1 .. Len(raw) : ~Decodable(a.codec, raw[i])}
           end == IF bad = {} THEN Len(raw) ELSE (CHOOSE i \in bad : \A j \in bad : i <= j) - 1
<1>1. /\ raw \in Seq(Seq(Byte))
      /\ Lookup(p, a) = IF raw # <<>> /\ Decodable(a.codec, raw[1])
                        THEN [ok |-> TRUE, got |-> Decode(a.codec, raw[1])]
                        ELSE [ok |-> FALSE, got |-> [tag |-> 0, value |-> <<>>]]
  BY GetsVendorType, LookupIs
<1>2. Gets(p, a) = [i \in 1 .. end |-> Decode(a.codec, raw[i])]
  BY DEF Gets
<1>3. /\ end \in 0 .. Len(raw)
      /\ end = 0 <=> raw = <<>> \/ ~Decodable(a.codec, raw[1])
  <2>1. Len(raw) \in Nat /\ (raw = <<>> <=> Len(raw) = 0)
    BY <1>1
  <2>2. CASE bad = {}
    <3>1. Len(raw) # 0 => Decodable(a.codec, raw[1])
      BY <2>1, <2>2
    <3>2. QED
      BY <2>1, <2>2, <3>1
  <2>3. CASE bad # {}
    <3>1. \E i \in bad : \A j \in bad : i <= j
      <4>1. bad \subseteq Nat
        OBVIOUS
      <4>2. QED
        BY <2>3, <4>1, LeastNatural
    <3>2. PICK k \in bad : end = k - 1 /\ \A j \in bad : k <= j
      BY <2>3, <3>1
    <3>3. k \in 1 .. Len(raw) /\ Len(raw) # 0
      BY <2>1, <3>2
    <3>4. k = 1 <=> 1 \in bad
      BY <2>1, <3>2, <3>3
    <3>5. 1 \in bad <=> ~Decodable(a.codec, raw[1])
      BY <2>1, <3>3
    <3> HIDE DEF end, bad, raw
    <3>6. QED
      BY <2>1, <3>2, <3>3, <3>4, <3>5
  <2>4. QED
    BY <2>2, <2>3
<1> HIDE DEF end, raw, bad
<1>4. CASE end = 0
  <2>1. Gets(p, a) = <<>>
    BY <1>2, <1>4
  <2>2. ~Lookup(p, a).ok
    BY <1>1, <1>3, <1>4
  <2>3. QED
    BY <2>1, <2>2
<1>5. CASE end # 0
  <2>1. Gets(p, a) # <<>> /\ Gets(p, a)[1] = Decode(a.codec, raw[1])
    <3>1. end \in Nat /\ 1 \in 1 .. end
      BY <1>1, <1>3, <1>5
    <3>2. Gets(p, a)[1] = Decode(a.codec, raw[1])
      BY <1>2, <3>1
    <3>3. DOMAIN Gets(p, a) = 1 .. end /\ DOMAIN <<>> = {}
      BY <1>2
    <3>4. QED
      BY <3>1, <3>2, <3>3
  <2>2. Lookup(p, a) = [ok |-> TRUE, got |-> Decode(a.codec, raw[1])]
    BY <1>1, <1>3, <1>5
  <2>3. QED
    BY <2>1, <2>2
<1>6. QED
  BY <1>4, <1>5

-----------------------------------------------------------------------------
(* What was added, and what is read.                                         *)

Entry == {e \in [at : Nat, attr : Attributes, tag : Byte, value : Seq(Byte)] :
            Encodable(e.attr.codec, e.value)}

Encoded(e) == Encode(e.attr.codec, e.tag, e.value)

(* The entries that an Add accessor of a made and that have a value.         *)
Shown(a) == {e \in Entry : e.attr = a /\ Encoded(e) # <<>>}

Showing(a) == [e \in Entry |-> IF e \in Shown(a) THEN <<e>> ELSE <<>>]

(* A constant stands for what the types of the constants say. *)
LEMMA AttributeTypes ==
    /\ Attributes \subseteq Dictionary
    /\ \A a \in Attributes : /\ a.codec \in Codecs /\ a.typ \in Byte
                             /\ Values[a.codec] \subseteq Seq(Byte)
    /\ Tags \cup {0} \subseteq Byte
    /\ RawVsas \subseteq Vsa /\ \A r \in RawVsas : Len(r.vsa) <= MaxVendor
    /\ MaxVendor \in 2 .. 249
<1>1. 1 .. 255 \subseteq Byte /\ {0} \subseteq Byte
  BY DEF Byte
<1>2. \A a \in Attributes : a.codec \in Codecs /\ a.typ \in Byte
  BY <1>1, DictionaryTypes, RedbackAssumption
<1>3. QED
  BY <1>1, <1>2, RedbackAssumption DEF Vsa

(* So is an encoded entry. *)
LEMMA EncodedType ==
    ASSUME NEW e \in Entry
    PROVE  Encoded(e) \in Seq(Byte)
  BY AttributeTypes, EncodeType DEF Entry, Encoded

(* Put selects the entries that have a value. *)
LEMMA PutIs ==
    ASSUME added \in Seq(Entry), NEW a
    PROVE  Put(a) = Spread(Showing(a), added)
<1>1. ASSUME NEW i \in 1 .. Len(added)
      PROVE  (IF added[i].attr = a /\ Encode(a.codec, added[i].tag, added[i].value) # <<>>
              THEN <<added[i]>> ELSE <<>>) = Showing(a)[added[i]]
  BY DEF Showing, Shown, Encoded
<1>2. [i \in 1 .. Len(added) |->
         IF added[i].attr = a /\ Encode(a.codec, added[i].tag, added[i].value) # <<>>
         THEN <<added[i]>> ELSE <<>>] = [i \in 1 .. Len(added) |-> Showing(a)[added[i]]]
  BY <1>1
<1>3. QED
  BY <1>2 DEF Put, Spread

(* Each entry shows itself or nothing. *)
LEMMA ShowingType ==
    ASSUME NEW a
    PROVE  Showing(a) \in [Entry -> Seq(Shown(a))]
<1>1. \A e \in Entry : (IF e \in Shown(a) THEN <<e>> ELSE <<>>) \in Seq(Shown(a))
  OBVIOUS
<1>2. QED
  BY <1>1 DEF Showing

(* Put holds entries of this attribute that have a value. *)
LEMMA PutType ==
    ASSUME added \in Seq(Entry), NEW a
    PROVE  Put(a) \in Seq(Shown(a))
  BY PutIs, ShowingType, SpreadType

(* Every attribute of the packet that no accessor of a wrote holds nothing   *)
(* under its number, or what GetsVendor finds is what they put in.           *)
PutsAreRead ==
    \A a \in Dictionary :
        ~RawOffers(a.typ) =>
          GetsVendor(packet, a.typ) = [i \in 1 .. Len(Put(a)) |-> Encoded(Put(a)[i])]

Inv ==
    /\ packet \in Seq(Vsa) /\ \A i \in 1 .. Len(packet) : Len(packet[i].vsa) <= MaxVendor
    /\ added \in Seq(Entry) /\ \A i \in 1 .. Len(added) : added[i].at \in 1 .. Len(packet)
    /\ agent \in [read : BOOLEAN, RemoteId : Seq(Byte), RawCircuitId : Seq(Byte)]
    /\ PutsAreRead
    /\ AgentIsFirstAdded

(* An empty packet. *)
LEMMA InvInit == Init => Inv
<1> SUFFICES ASSUME Init PROVE Inv
  OBVIOUS
<1>1. /\ packet = <<>> /\ added = <<>> /\ Len(packet) = 0 /\ Len(added) = 0
      /\ agent = [read |-> FALSE, RemoteId |-> <<>>, RawCircuitId |-> <<>>]
  BY DEF Init, Unread
<1>2. packet \in Seq(Vsa) /\ added \in Seq(Entry)
  BY <1>1
<1>3. ASSUME NEW a \in Dictionary
      PROVE  GetsVendor(packet, a.typ) = [i \in 1 .. Len(Put(a)) |-> Encoded(Put(a)[i])]
  <2>1. Put(a) = <<>>
    BY <1>1, <1>2, PutIs, SpreadNothing
  <2>2. [i \in 1 .. Len(packet) |-> Hits(packet[i], a.typ)] = <<>>
    BY <1>1
  <2>3. GetsVendor(packet, a.typ) = <<>>
    BY <2>2, FlattenNothing DEF GetsVendor
  <2>4. QED
    BY <2>1, <2>3
<1>4. agent \in [read : BOOLEAN, RemoteId : Seq(Byte), RawCircuitId : Seq(Byte)]
  BY <1>1
<1>5. QED
  BY <1>1, <1>2, <1>3, <1>4 DEF Inv, PutsAreRead, AgentIsFirstAdded

(* Nothing is done.                                                          *)
LEMMA InvStutters == ASSUME Inv, UNCHANGED vars PROVE Inv'
  BY DEF Inv, vars, PutsAreRead, AgentIsFirstAdded, Put, RawOffers

(* The packet gets one more Vendor-Specific attribute that no accessor       *)
(* wrote: if nothing is offered afterwards, it offers nothing.               *)
LEMMA AddRawStep ==
    ASSUME Inv, NEW r \in RawVsas, AddRaw(r)
    PROVE  Inv'
<1>0. /\ packet' = Append(packet, r) /\ added' = added /\ agent' = agent /\ ~agent.read
      /\ packet \in Seq(Vsa) /\ r \in Vsa /\ Len(r.vsa) <= MaxVendor /\ Len(packet) \in Nat
  BY AttributeTypes DEF AddRaw, Room, Inv
<1>1. /\ packet' \in Seq(Vsa) /\ Len(packet') = Len(packet) + 1
      /\ packet'[Len(packet) + 1] = r /\ \A i \in 1 .. Len(packet) : packet'[i] = packet[i]
  BY <1>0
<1>2. \A i \in 1 .. Len(packet') : Len(packet'[i].vsa) <= MaxVendor
  <2>1. \A i \in 1 .. Len(packet') : i \in 1 .. Len(packet) \/ i = Len(packet) + 1
    BY <1>0, <1>1
  <2>2. QED
    BY <1>0, <1>1, <2>1 DEF Inv
<1>3. \A i \in 1 .. Len(added) : added[i].at \in 1 .. Len(packet) /\ added[i].at \in 1 .. Len(packet')
  BY <1>0, <1>1 DEF Inv
<1>4. ASSUME NEW a \in Dictionary, ~RawOffers(a.typ)'
      PROVE  (GetsVendor(packet, a.typ) = [i \in 1 .. Len(Put(a)) |-> Encoded(Put(a)[i])])'
  <2>1. ASSUME NEW i \in 1 .. Len(packet'), \A j \in 1 .. Len(added) : added[j].at # i
        PROVE  Hits(packet'[i], a.typ) = <<>>
    BY <1>0, <1>4, <2>1 DEF RawOffers
  <2>2. Hits(r, a.typ) = <<>>
    <3>1. Len(packet) + 1 \in 1 .. Len(packet')
      BY <1>0, <1>1
    <3>2. \A j \in 1 .. Len(added) : added[j].at # Len(packet) + 1
      BY <1>0, <1>3
    <3>3. QED
      BY <1>1, <2>1, <3>1, <3>2
  <2>3. ~RawOffers(a.typ)
    <3>1. \A i \in 1 .. Len(packet) : i \in 1 .. Len(packet')
      BY <1>0, <1>1
    <3>2. QED
      BY <1>1, <2>1, <3>1 DEF RawOffers
  <2>4. GetsVendor(packet', a.typ) = GetsVendor(packet, a.typ)
    <3>1. GetsVendor(packet', a.typ) = GetsVendor(packet, a.typ) \o <<>>
      BY <1>0, <2>2, GetsVendorAppend
    <3>2. GetsVendor(packet, a.typ) \in Seq(Seq(Byte))
      BY <1>0, GetsVendorType
    <3>3. QED
      BY <3>1, <3>2
  <2>5. Put(a)' = Put(a)
    BY <1>0 DEF Put
  <2>6. QED
    BY <2>3, <2>4, <2>5 DEF Inv, PutsAreRead
<1>5. QED
  BY <1>0, <1>1, <1>2, <1>3, <1>4 DEF Inv, PutsAreRead, AgentIsFirstAdded

(* What an Add accessor does: nothing, or it writes one attribute.           *)
LEMMA AddIs ==
    ASSUME Inv, NEW a \in Attributes, NEW tag \in Byte, NEW v \in Seq(Byte),
           AddAttribute(a, tag, v)
    PROVE  \/ UNCHANGED vars
           \/ /\ Encodable(a.codec, v) /\ 2 + Len(Encode(a.codec, tag, v)) <= MaxVendor
              /\ packet' = Append(packet, Written(a.typ, Encode(a.codec, tag, v)))
              /\ added' = Append(added, [at |-> Len(packet) + 1, attr |-> a,
                                         tag |-> tag, value |-> v])
              /\ ~agent.read /\ agent' = agent
<1> DEFINE w == Written(a.typ, Encode(a.codec, tag, v))
<1>0. /\ packet' = Add(packet, a, tag, v) /\ ~agent.read /\ agent' = agent
      /\ added' = IF packet' = packet THEN added
                  ELSE Append(added, [at |-> Len(packet'), attr |-> a, tag |-> tag, value |-> v])
  BY DEF AddAttribute, Room
<1>1. CASE ~(Encodable(a.codec, v) /\ 2 + Len(Encode(a.codec, tag, v)) <= MaxVendor)
  <2>1. Encodable(a.codec, v) => 2 + Len(Encode(a.codec, tag, v)) > MaxVendor
    <3>1. Encodable(a.codec, v) => Len(Encode(a.codec, tag, v)) \in Nat
      BY AttributeTypes, EncodeType
    <3>2. MaxVendor \in Nat
      BY AttributeTypes
    <3>3. QED
      BY <1>1, <3>1, <3>2
  <2>2. packet' = packet
    BY <1>0, <2>1 DEF Add, AddVendor
  <2>3. QED
    BY <1>0, <2>2 DEF vars
<1>2. CASE Encodable(a.codec, v) /\ 2 + Len(Encode(a.codec, tag, v)) <= MaxVendor
  <2>1. ~(2 + Len(Encode(a.codec, tag, v)) > MaxVendor)
    <3>1. Len(Encode(a.codec, tag, v)) \in Nat
      BY <1>2, AttributeTypes, EncodeType
    <3>2. MaxVendor \in Nat
      BY AttributeTypes
    <3>3. QED
      BY <1>2, <3>1, <3>2
  <2>2. packet' = Append(packet, w)
    BY <1>0, <1>2, <2>1 DEF Add, AddVendor, Written
  <2> HIDE DEF w
  <2>3. Len(packet') = Len(packet) + 1 /\ Len(packet) \in Nat
    BY <2>2 DEF Inv
  <2>4. packet' # packet
    BY <2>3
  <2>5. QED
    BY <1>0, <1>2, <2>2, <2>3, <2>4 DEF w
<1>3. QED
  BY <1>1, <1>2

(* One attribute is written: what is read of it is what was put in, and      *)
(* nothing changes for another attribute of the dictionary.                  *)
LEMMA WrittenStep ==
    ASSUME Inv, NEW a \in Attributes, NEW tag \in Byte, NEW v \in Seq(Byte),
           Encodable(a.codec, v), 2 + Len(Encode(a.codec, tag, v)) <= MaxVendor,
           packet' = Append(packet, Written(a.typ, Encode(a.codec, tag, v))),
           added' = Append(added, [at |-> Len(packet) + 1, attr |-> a, tag |-> tag, value |-> v]),
           ~agent.read, agent' = agent
    PROVE  /\ Inv'
           /\ \A b \in Dictionary : b.typ # a.typ =>
                 GetsVendor(packet', b.typ) = GetsVendor(packet, b.typ)
<1> DEFINE enc == Encode(a.codec, tag, v)
           w == Written(a.typ, enc)
           e == [at |-> Len(packet) + 1, attr |-> a, tag |-> tag, value |-> v]
<1>1. /\ a \in Dictionary /\ a.typ \in Byte /\ enc \in Seq(Byte) /\ 2 + Len(enc) \in Byte
      /\ packet \in Seq(Vsa) /\ Len(packet) \in Nat /\ added \in Seq(Entry) /\ Len(added) \in Nat
  <2>1. a \in Dictionary /\ a.typ \in Byte /\ a.codec \in Codecs /\ MaxVendor \in 2 .. 249
    BY AttributeTypes
  <2>2. enc \in Seq(Byte)
    BY <2>1, EncodeType
  <2>3. Len(enc) \in Nat
    BY <2>2
  <2>4. 2 + Len(enc) \in Byte
    <3>1. \A k \in Nat, m \in 2 .. 249 : 2 + k <= m => 2 + k \in Byte
      BY DEF Byte
    <3>2. 2 + Len(enc) <= MaxVendor
      OBVIOUS
    <3> HIDE DEF enc
    <3>3. QED
      BY <2>1, <2>3, <3>1, <3>2, Zenon
  <2>5. QED
    BY <2>1, <2>2, <2>4 DEF Inv
<1>2. w \in Vsa /\ Len(w.vsa) <= MaxVendor
  <2>1. w.vsa \in Seq(Byte) /\ w.vendor = _Redback_VendorID
    BY <1>1, SubAttributesOfWritten DEF Written
  <2>2. Len(w.vsa) = 2 + Len(enc)
    <3>1. <<a.typ, 2 + Len(enc)>> \in Seq(Byte) /\ Len(<<a.typ, 2 + Len(enc)>>) = 2
      BY <1>1
    <3>2. w.vsa = <<a.typ, 2 + Len(enc)>> \o enc
      BY DEF Written
    <3> HIDE DEF w, enc
    <3>3. QED
      BY <1>1, <3>1, <3>2, ConcatProperties
  <2>3. w \in Vsa
    BY <2>1 DEF Vsa, Written
  <2>4. QED
    BY <2>2, <2>3
<1>3. e \in Entry /\ Encoded(e) = enc /\ e.at = Len(packet) + 1 /\ e.attr = a
  BY <1>1 DEF Entry, Encoded
<1>4. \A t : Hits(w, t) = IF t = a.typ /\ enc # <<>> THEN <<enc>> ELSE <<>>
  BY <1>1, HitsOfWritten
<1> HIDE DEF w, e, enc
<1>5. packet' = Append(packet, w) /\ added' = Append(added, e)
  BY DEF w, e, enc
<1>6. /\ packet' \in Seq(Vsa) /\ Len(packet') = Len(packet) + 1
      /\ packet'[Len(packet) + 1] = w /\ \A i \in 1 .. Len(packet) : packet'[i] = packet[i]
  BY <1>1, <1>2, <1>5
<1>7. /\ added' \in Seq(Entry) /\ Len(added') = Len(added) + 1
      /\ added'[Len(added) + 1] = e /\ \A i \in 1 .. Len(added) : added'[i] = added[i]
  BY <1>1, <1>3, <1>5
<1>8. \A i \in 1 .. Len(packet') : Len(packet'[i].vsa) <= MaxVendor
  <2>1. \A i \in 1 .. Len(packet') : i \in 1 .. Len(packet) \/ i = Len(packet) + 1
    BY <1>1, <1>6
  <2>2. QED
    BY <1>2, <1>6, <2>1 DEF Inv
<1>9. \A i \in 1 .. Len(added') : added'[i].at \in 1 .. Len(packet')
  <2>1. \A i \in 1 .. Len(added') : i \in 1 .. Len(added) \/ i = Len(added) + 1
    BY <1>1, <1>7
  <2>2. \A i \in 1 .. Len(added) : added[i].at \in 1 .. Len(packet')
    BY <1>1, <1>6 DEF Inv
  <2>3. Len(packet) + 1 \in 1 .. Len(packet')
    BY <1>1, <1>6
  <2>4. QED
    BY <1>3, <1>7, <2>1, <2>2, <2>3
<1>10. \A t : GetsVendor(packet', t) =
                GetsVendor(packet, t) \o (IF t = a.typ /\ enc # <<>> THEN <<enc>> ELSE <<>>)
  BY <1>1, <1>2, <1>4, <1>5, GetsVendorAppend
<1>11. ASSUME NEW t, ~RawOffers(t)' PROVE ~RawOffers(t)
  <2>1. SUFFICES ASSUME NEW i \in 1 .. Len(packet), \A j \in 1 .. Len(added) : added[j].at # i
                 PROVE  Hits(packet[i], t) = <<>>
    BY DEF RawOffers
  <2>2. i \in 1 .. Len(packet') /\ i # Len(packet) + 1
    BY <1>1, <1>6
  <2>3. \A j \in 1 .. Len(added') : added'[j].at # i
    <3>1. \A j \in 1 .. Len(added') : j \in 1 .. Len(added) \/ j = Len(added) + 1
      BY <1>1, <1>7
    <3>2. QED
      BY <1>3, <1>7, <2>1, <2>2, <3>1
  <2>4. Hits(packet'[i], t) = <<>>
    BY <1>11, <2>2, <2>3 DEF RawOffers
  <2>5. QED
    BY <1>6, <2>4
<1>12. ASSUME NEW b \in Dictionary
       PROVE  Put(b)' = Put(b) \o (IF b = a /\ enc # <<>> THEN <<e>> ELSE <<>>)
  <2>1. Put(b) = Spread(Showing(b), added)
    BY <1>1, PutIs
  <2>2. Put(b)' = Spread(Showing(b), added')
    <3>1. ASSUME NEW i \in 1 .. Len(added')
          PROVE  (IF added'[i].attr = b /\ Encode(b.codec, added'[i].tag, added'[i].value) # <<>>
                  THEN <<added'[i]>> ELSE <<>>) = Showing(b)[added'[i]]
      BY <1>7 DEF Showing, Shown, Encoded
    <3>2. [i \in 1 .. Len(added') |->
             IF added'[i].attr = b /\ Encode(b.codec, added'[i].tag, added'[i].value) # <<>>
             THEN <<added'[i]>> ELSE <<>>] = [i \in 1 .. Len(added') |-> Showing(b)[added'[i]]]
      BY <3>1
    <3>3. QED
      BY <3>2 DEF Put, Spread
  <2>3. Spread(Showing(b), Append(added, e)) = Spread(Showing(b), added) \o Showing(b)[e]
    <3>1. Showing(b) \in [Entry -> Seq(Shown(b))] /\ added \in Seq(Entry) /\ e \in Entry
      BY <1>1, <1>3, ShowingType
    <3>2. QED
      BY <3>1, SpreadAppend, Zenon
  <2>4. Showing(b)[e] = IF b = a /\ enc # <<>> THEN <<e>> ELSE <<>>
    BY <1>3 DEF Showing, Shown
  <2>5. QED
    BY <1>5, <2>1, <2>2, <2>3, <2>4
<1>13. ASSUME NEW b \in Dictionary, ~RawOffers(b.typ)'
       PROVE  (GetsVendor(packet, b.typ) = [i \in 1 .. Len(Put(b)) |-> Encoded(Put(b)[i])])'
  <2> DEFINE put == Put(b)
             one == IF b = a /\ enc # <<>> THEN <<e>> ELSE <<>>
             got == IF b.typ = a.typ /\ enc # <<>> THEN <<enc>> ELSE <<>>
  <2>1. GetsVendor(packet, b.typ) = [i \in 1 .. Len(put) |-> Encoded(put[i])]
    BY <1>11, <1>13 DEF Inv, PutsAreRead
  <2>2. b.typ = a.typ <=> b = a
    BY <1>1, DictionaryNumbers
  <2>3. put \in Seq(Entry)
    <3>1. put \in Seq(Shown(b)) /\ Shown(b) \subseteq Entry
      BY <1>1, PutType DEF Shown
    <3>2. QED
      BY <3>1
  <2> HIDE DEF put
  <2>4. GetsVendor(packet', b.typ) = [i \in 1 .. Len(put) |-> Encoded(put[i])] \o got
    BY <1>10, <2>1
  <2>5. CASE one = <<>>
    <3>1. got = <<>>
      BY <2>2, <2>5
    <3>2. [i \in 1 .. Len(put) |-> Encoded(put[i])] \in Seq(Seq(Byte))
      BY <2>1, GetsVendorType, <1>1
    <3>3. [i \in 1 .. Len(put) |-> Encoded(put[i])] \o <<>> = [i \in 1 .. Len(put) |-> Encoded(put[i])]
      BY <3>2
    <3>4. put \o <<>> = put
      BY <2>3
    <3>5. Put(b)' = put
      BY <1>12, <2>5, <3>4 DEF put
    <3>6. QED
      BY <2>4, <3>1, <3>3, <3>5
  <2>6. CASE one # <<>>
    <3>1. b = a /\ one = <<e>> /\ got = <<enc>>
      BY <2>2, <2>6
    <3>2. Put(b)' = Append(put, e)
      <4>1. Put(b)' = put \o <<e>>
        BY <1>12, <3>1 DEF put
      <4>2. QED
        BY <1>3, <2>3, <4>1
    <3>3. GetsVendor(packet', b.typ) = [i \in 1 .. Len(put) |-> Encoded(put[i])] \o <<enc>>
      BY <2>4, <3>1
    <3>4. Len(put) \in Nat /\ Len(Append(put, e)) = Len(put) + 1
      BY <1>3, <2>3
    <3>5. \A i \in 1 .. Len(put) + 1 : Append(put, e)[i] = IF i <= Len(put) THEN put[i] ELSE e
      BY <1>3, <2>3
    <3>6. [i \in 1 .. Len(put) |-> Encoded(put[i])] \o <<enc>>
            = [i \in 1 .. Len(put) + 1 |-> IF i <= Len(put) THEN Encoded(put[i]) ELSE enc]
      <4> DEFINE s == [i \in 1 .. Len(put) |-> Encoded(put[i])]
                 Value == Seq(Byte)
      <4>1. s \in Seq(Value) /\ enc \in Value
        BY <1>1, <2>1, GetsVendorType
      <4>2. Len(s) = Len(put) /\ \A i \in 1 .. Len(put) : s[i] = Encoded(put[i])
        BY <3>4
      <4> HIDE DEF s, Value
      <4>3. s \o <<enc>> \in Seq(Value) /\ Len(s \o <<enc>>) = Len(put) + 1
        BY <3>4, <4>1, <4>2
      <4>4. \A i \in 1 .. Len(put) + 1 :
              (s \o <<enc>>)[i] = IF i <= Len(put) THEN Encoded(put[i]) ELSE enc
        <5>1. \A i \in 1 .. Len(put) + 1 : (s \o <<enc>>)[i] = IF i <= Len(put) THEN s[i] ELSE enc
          BY <3>4, <4>1, <4>2
        <5>2. \A i \in 1 .. Len(put) + 1 : i <= Len(put) => i \in 1 .. Len(put)
          BY <3>4
        <5>3. QED
          BY <4>2, <5>1, <5>2
      <4>5. \A t \in Seq(Value) : t = [i \in 1 .. Len(t) |-> t[i]]
        OBVIOUS
      <4>6. s \o <<enc>> = [i \in 1 .. Len(s \o <<enc>>) |-> (s \o <<enc>>)[i]]
        BY <4>3, <4>5, Zenon
      <4>7. s \o <<enc>> = [i \in 1 .. Len(put) + 1 |-> (s \o <<enc>>)[i]]
        BY <4>3, <4>6, Zenon
      <4>8. QED
        BY <4>4, <4>7, Zenon DEF s
    <3>7. [i \in 1 .. Len(Append(put, e)) |-> Encoded(Append(put, e)[i])]
            = [i \in 1 .. Len(put) + 1 |-> IF i <= Len(put) THEN Encoded(put[i]) ELSE enc]
      BY <1>3, <3>4, <3>5
    <3>8. QED
      BY <3>2, <3>3, <3>6, <3>7
  <2>7. QED
    BY <2>5, <2>6
<1>14. Inv'
  BY <1>6, <1>7, <1>8, <1>9, <1>13 DEF Inv, PutsAreRead, AgentIsFirstAdded
<1>15. ASSUME NEW b \in Dictionary, b.typ # a.typ
       PROVE  GetsVendor(packet', b.typ) = GetsVendor(packet, b.typ)
  <2>1. GetsVendor(packet', b.typ) = GetsVendor(packet, b.typ) \o <<>>
    BY <1>10, <1>15
  <2>2. GetsVendor(packet, b.typ) \in Seq(Seq(Byte))
    BY <1>1, GetsVendorType
  <2>3. QED
    BY <2>1, <2>2
<1>16. QED
  BY <1>14, <1>15

(* Dropping the two header bytes. *)
LEMMA Header ==
    ASSUME NEW v \in Seq(Byte)
    PROVE  /\ SubSeq(v, 3, Len(v)) \in Seq(Byte)
           /\ ~(Len(v) > 2) => SubSeq(v, 3, Len(v)) = <<>>
           /\ ParseRemoteId(v) = SubSeq(v, 3, Len(v))
<1>1. Len(v) \in Nat
  OBVIOUS
<1>2. CASE Len(v) <= 2
  <2>1. SubSeq(v, 3, Len(v)) = <<>>
    BY <1>1, <1>2, SubSeqEmpty
  <2>2. QED
    BY <1>1, <1>2, <2>1 DEF ParseRemoteId
<1>3. CASE ~(Len(v) <= 2)
  <2>1. SubSeq(v, 3, Len(v)) \in Seq(Byte)
    BY <1>1, <1>3, SubSeqProperties
  <2>2. Len(v) > 2
    BY <1>1, <1>3
  <2>3. QED
    BY <1>3, <2>1, <2>2 DEF ParseRemoteId
<1>4. QED
  BY <1>2, <1>3

(* What the handler finds for an attribute of bytes. *)
LEMMA LookupFirstPut ==
    ASSUME Inv, NEW a \in Dictionary, a.codec = "bytes"
    PROVE  /\ Lookup(packet, a).got.value \in Seq(Byte)
           /\ ~RawOffers(a.typ) => Lookup(packet, a).got.value =
                                     IF Put(a) = <<>> THEN <<>> ELSE Put(a)[1].value
<1> DEFINE raw == GetsVendor(packet, a.typ)
<1>1. packet \in Seq(Vsa) /\ raw \in Seq(Seq(Byte)) /\ added \in Seq(Entry)
  BY GetsVendorType DEF Inv
<1>2. Lookup(packet, a).got = IF raw # <<>> /\ Decodable(a.codec, raw[1])
                              THEN Decode(a.codec, raw[1]) ELSE [tag |-> 0, value |-> <<>>]
  BY <1>1, LookupIs
<1>3. \A x : Decodable(a.codec, x)
  BY DEF Decodable, FixedWidth
<1>4. raw # <<>> => raw[1] \in Seq(Byte)
  <2> DEFINE V == Seq(Byte)
  <2>1. raw \in Seq(V)
    BY <1>1
  <2> HIDE DEF V, raw
  <2>2. raw # <<>> => raw[1] \in V
    BY <2>1
  <2>3. QED
    BY <2>2 DEF V
<1>5. raw # <<>> => Decode(a.codec, raw[1]) = [tag |-> 0, value |-> raw[1]]
  BY <1>4, DecodeType DEF Codecs
<1>6. Lookup(packet, a).got.value = IF raw = <<>> THEN <<>> ELSE raw[1]
  BY <1>2, <1>3, <1>5
<1>7. Lookup(packet, a).got.value \in Seq(Byte)
  BY <1>4, <1>6
<1>8. ASSUME ~RawOffers(a.typ)
      PROVE  Lookup(packet, a).got.value = IF Put(a) = <<>> THEN <<>> ELSE Put(a)[1].value
  <2> DEFINE put == Put(a)
  <2>1. raw = [i \in 1 .. Len(put) |-> Encoded(put[i])]
    BY <1>8 DEF Inv, PutsAreRead
  <2>2. put \in Seq(Shown(a))
    BY <1>1, PutType
  <2> HIDE DEF put, raw
  <2>3. CASE put = <<>>
    <3>1. raw = <<>>
      BY <2>1, <2>3
    <3>2. QED
      BY <1>6, <2>3, <3>1 DEF put
  <2>4. CASE put # <<>>
    <3>1. Len(put) \in Nat /\ 1 \in 1 .. Len(put) /\ put[1] \in Shown(a)
      BY <2>2, <2>4
    <3>2. raw[1] = Encoded(put[1])
      BY <2>1, <3>1
    <3>3. raw # <<>>
      <4>1. DOMAIN raw = 1 .. Len(put) /\ DOMAIN <<>> = {}
        BY <2>1
      <4>2. QED
        BY <3>1, <4>1
    <3>4. Encoded(put[1]) = put[1].value
      BY <3>1 DEF Shown, Encoded, Encode
    <3>5. QED
      BY <1>6, <2>4, <3>2, <3>3, <3>4 DEF put
  <2>5. QED
    BY <2>3, <2>4
<1>9. QED
  BY <1>7, <1>8

(* The handler reads option 82, and reports what was added first.            *)
LEMMA ParseStep == ASSUME Inv, ParseAuthRequest PROVE Inv'
<1> DEFINE remote == Lookup(packet, AgentRemoteID).got.value
           circuit == Lookup(packet, AgentCircuitID).got.value
           first(a) == IF Put(a) = <<>> THEN <<>> ELSE Put(a)[1].value
<1>0. /\ packet' = packet /\ added' = added
      /\ agent' = [read         |-> TRUE,
                   RemoteId     |-> ParseRemoteId(remote),
                   RawCircuitId |-> IF Len(circuit) > 2 THEN SubSeq(circuit, 3, Len(circuit))
                                    ELSE <<>>]
  BY DEF ParseAuthRequest
<1>1. /\ AgentRemoteID \in Dictionary /\ AgentRemoteID.codec = "bytes"
      /\ AgentCircuitID \in Dictionary /\ AgentCircuitID.codec = "bytes"
  BY DEF Dictionary, AgentRemoteID, AgentCircuitID, Attribute
<1>2. /\ remote \in Seq(Byte) /\ (~RawOffers(AgentRemoteID.typ) => remote = first(AgentRemoteID))
      /\ circuit \in Seq(Byte) /\ (~RawOffers(AgentCircuitID.typ) => circuit = first(AgentCircuitID))
  BY <1>1, LookupFirstPut
<1> HIDE DEF remote, circuit
<1>3. /\ agent'.read /\ agent'.RemoteId = SubSeq(remote, 3, Len(remote))
      /\ agent'.RawCircuitId = SubSeq(circuit, 3, Len(circuit))
      /\ agent' \in [read : BOOLEAN, RemoteId : Seq(Byte), RawCircuitId : Seq(Byte)]
  <2>1. /\ SubSeq(remote, 3, Len(remote)) \in Seq(Byte)
        /\ ParseRemoteId(remote) = SubSeq(remote, 3, Len(remote))
    BY <1>2, Header
  <2>2. /\ SubSeq(circuit, 3, Len(circuit)) \in Seq(Byte)
        /\ ~(Len(circuit) > 2) => SubSeq(circuit, 3, Len(circuit)) = <<>>
    BY <1>2, Header
  <2>3. QED
    BY <1>0, <2>1, <2>2
<1>4. SubSeq(<<>>, 3, Len(<<>>)) = <<>>
  BY Header
<1>5. ASSUME NEW a
      PROVE  SubSeq(first(a), 3, Len(first(a))) =
               IF Put(a) = <<>> THEN <<>> ELSE SubSeq(Put(a)[1].value, 3, Len(Put(a)[1].value))
  BY <1>4
<1>6. AgentIsFirstAdded'
  <2>1. ~RawOffers(AgentRemoteID.typ) =>
          agent'.RemoteId = IF Put(AgentRemoteID) = <<>> THEN <<>>
                            ELSE SubSeq(Put(AgentRemoteID)[1].value, 3,
                                        Len(Put(AgentRemoteID)[1].value))
    BY <1>2, <1>3, <1>5
  <2>2. ~RawOffers(AgentCircuitID.typ) =>
          agent'.RawCircuitId = IF Put(AgentCircuitID) = <<>> THEN <<>>
                                ELSE SubSeq(Put(AgentCircuitID)[1].value, 3,
                                            Len(Put(AgentCircuitID)[1].value))
    BY <1>2, <1>3, <1>5
  <2>3. \A a : Put(a)' = Put(a) /\ \A t : RawOffers(t)' = RawOffers(t)
    BY <1>0 DEF Put, RawOffers
  <2>4. QED
    BY <2>1, <2>2, <2>3 DEF AgentIsFirstAdded
<1>7. PutsAreRead'
  BY <1>0 DEF Inv, PutsAreRead, Put, RawOffers
<1>8. QED
  BY <1>0, <1>3, <1>6, <1>7 DEF Inv

-----------------------------------------------------------------------------
(* The specification *)

(* A step stutters, writes one attribute, adds raw bytes or reads.           *)
LEMMA StepIs ==
    ASSUME Inv, [Next]_vars
    PROVE  \/ UNCHANGED vars
           \/ \E r \in RawVsas : AddRaw(r)
           \/ ParseAuthRequest
           \/ \E a \in Attributes, tag \in Byte, v \in Seq(Byte) :
                /\ Encodable(a.codec, v) /\ 2 + Len(Encode(a.codec, tag, v)) <= MaxVendor
                /\ packet' = Append(packet, Written(a.typ, Encode(a.codec, tag, v)))
                /\ added' = Append(added, [at |-> Len(packet) + 1, attr |-> a,
                                           tag |-> tag, value |-> v])
                /\ ~agent.read /\ agent' = agent
<1>1. ASSUME NEW a \in Attributes, NEW v \in Values[a.codec],
             NEW tag \in IF a.codec \in Tagged THEN Tags ELSE {0}, AddAttribute(a, tag, v)
      PROVE  \/ UNCHANGED vars
             \/ /\ Encodable(a.codec, v) /\ 2 + Len(Encode(a.codec, tag, v)) <= MaxVendor
                /\ packet' = Append(packet, Written(a.typ, Encode(a.codec, tag, v)))
                /\ added' = Append(added, [at |-> Len(packet) + 1, attr |-> a,
                                           tag |-> tag, value |-> v])
                /\ ~agent.read /\ agent' = agent /\ tag \in Byte /\ v \in Seq(Byte)
  <2>1. tag \in Byte /\ v \in Seq(Byte)
    BY AttributeTypes
  <2>2. QED
    BY <1>1, <2>1, AddIs
<1>2. CASE Next
  BY <1>1, <1>2 DEF Next
<1>3. QED
  BY <1>2

(* Every step keeps the invariant. *)
LEMMA InvNext == Inv /\ [Next]_vars => Inv'
<1> SUFFICES ASSUME Inv, [Next]_vars PROVE Inv'
  OBVIOUS
<1>1. CASE UNCHANGED vars
  BY <1>1, InvStutters
<1>2. ASSUME NEW r \in RawVsas, AddRaw(r) PROVE Inv'
  BY <1>2, AddRawStep
<1>3. CASE ParseAuthRequest
  BY <1>3, ParseStep
<1>4. ASSUME NEW a \in Attributes, NEW tag \in Byte, NEW v \in Seq(Byte),
             Encodable(a.codec, v), 2 + Len(Encode(a.codec, tag, v)) <= MaxVendor,
             packet' = Append(packet, Written(a.typ, Encode(a.codec, tag, v))),
             added' = Append(added, [at |-> Len(packet) + 1, attr |-> a, tag |-> tag, value |-> v]),
             ~agent.read, agent' = agent
      PROVE  Inv'
  BY <1>4, WrittenStep
<1>5. QED
  BY <1>1, <1>2, <1>3, <1>4, StepIs

(* In every reachable state the values that GetsVendor finds are those that  *)
(* were added, where nothing else offers any.                                *)
THEOREM RedbackInv == Spec => []Inv
<1>1. QED
  BY InvInit, InvNext, PTL DEF Spec

(* Type correctness: attributes are bytes, and never longer than a           *)
(* Vendor-Specific attribute can be.                                         *)
THEOREM RedbackTypeOK == Spec => []TypeOK
<1>1. Inv => TypeOK
  <2> SUFFICES ASSUME Inv PROVE TypeOK
    OBVIOUS
  <2>1. ASSUME NEW i \in 1 .. Len(packet)
        PROVE  /\ packet[i].vendor \in {_Redback_VendorID, OtherVendor}
               /\ packet[i].vsa \in Seq(Byte) /\ Len(packet[i].vsa) <= MaxVendor
    <3>1. packet[i] \in Vsa
      BY DEF Inv
    <3>2. QED
      BY <3>1 DEF Inv, Vsa
  <2>2. QED
    BY <2>1 DEF Inv, TypeOK
<1>2. QED
  BY <1>1, RedbackInv, PTL

(* What the accessors Get and Gets of an attribute find agrees, for all 193  *)
(* attributes and for every packet, also of bytes that no accessor wrote.    *)
THEOREM RedbackLookupIsFirstOfGets == Spec => []LookupIsFirstOfGets
<1>1. Inv => LookupIsFirstOfGets
  BY LookupIsFirst DEF Inv, LookupIsFirstOfGets
<1>2. QED
  BY <1>1, RedbackInv, PTL

(* An Add accessor changes what its own attribute's accessors find and       *)
(* nothing else: no two attributes share a number, and the loop over the     *)
(* bytes never takes a value for a sub-attribute.                            *)
THEOREM RedbackAccessorsIndependent == Spec => AccessorsIndependent
<1> DEFINE Independent ==
      \A i \in (Len(added) + 1) .. Len(added') :
         \A b \in Dictionary :
            b.name # added'[i].attr.name =>
                GetsVendor(packet', b.typ) = GetsVendor(packet, b.typ)
<1>1. Inv /\ [Next]_vars => [Independent]_vars
  <2> SUFFICES ASSUME Inv, [Next]_vars, NEW i \in (Len(added) + 1) .. Len(added'),
                      NEW b \in Dictionary, b.name # added'[i].attr.name
               PROVE  GetsVendor(packet', b.typ) = GetsVendor(packet, b.typ)
    OBVIOUS
  <2>0. added \in Seq(Entry) /\ Len(added) \in Nat
    BY DEF Inv
  <2>1. CASE UNCHANGED vars
    BY <2>1 DEF vars
  <2>2. CASE \/ \E r \in RawVsas : AddRaw(r)
             \/ ParseAuthRequest
    <3>1. added' = added
      BY <2>2 DEF AddRaw, ParseAuthRequest
    <3>2. QED
      BY <2>0, <3>1
  <2>3. ASSUME NEW a \in Attributes, NEW tag \in Byte, NEW v \in Seq(Byte),
               Encodable(a.codec, v), 2 + Len(Encode(a.codec, tag, v)) <= MaxVendor,
               packet' = Append(packet, Written(a.typ, Encode(a.codec, tag, v))),
               added' = Append(added, [at |-> Len(packet) + 1, attr |-> a, tag |-> tag, value |-> v]),
               ~agent.read, agent' = agent
        PROVE  GetsVendor(packet', b.typ) = GetsVendor(packet, b.typ)
    <3>1. \A c \in Dictionary : c.typ # a.typ =>
                 GetsVendor(packet', c.typ) = GetsVendor(packet, c.typ)
      BY <2>3, WrittenStep
    <3>2. added'[i].attr = a
      <4> DEFINE e == [at |-> Len(packet) + 1, attr |-> a, tag |-> tag, value |-> v]
      <4>1. added' = Append(added, e) /\ e.attr = a
        BY <2>3
      <4> HIDE DEF e
      <4>2. Len(added') = Len(added) + 1 /\ added'[Len(added) + 1] = e
        BY <2>0, <4>1
      <4>3. i = Len(added) + 1
        BY <2>0, <4>2
      <4>4. QED
        BY <4>1, <4>2, <4>3
    <3>3. b.typ # a.typ
      BY <3>2, AttributeTypes, DictionaryNumbers
    <3>4. QED
      BY <3>1, <3>3
  <2>4. QED
    BY <2>1, <2>2, <2>3, StepIs
<1>2. QED
  BY <1>1, RedbackInv, PTL DEF Spec, AccessorsIndependent

(* Values that are added are read back, all of them and in order, with their *)
(* tags, between whatever other bytes the packet has.                        *)
THEOREM RedbackAddedIsFound == Spec => []AddedIsFound
<1>1. Inv => AddedIsFound
  <2> SUFFICES ASSUME Inv, NEW a \in Attributes, ~RawOffers(a.typ),
                      \A i \in 1 .. Len(Put(a)) : Keeps(Put(a)[i])
               PROVE  Gets(packet, a) = [i \in 1 .. Len(Put(a)) |-> Read(Put(a)[i])]
    BY DEF AddedIsFound
  <2> DEFINE put == Put(a)
             raw == GetsVendor(packet, a.typ)
             bad == {i \in 1 .. Len(raw) : ~Decodable(a.codec, raw[i])}
  <2>1. a \in Dictionary /\ a.codec \in Codecs
    BY AttributeTypes
  <2>2. raw = [i \in 1 .. Len(put) |-> Encoded(put[i])]
    BY <2>1 DEF Inv, PutsAreRead
  <2>3. put \in Seq(Shown(a))
    BY PutType DEF Inv
  <2>4. \A i \in 1 .. Len(put) : Keeps(put[i])
    OBVIOUS
  <2> HIDE DEF put, raw
  <2>5. Len(put) \in Nat /\ Len(raw) = Len(put)
    BY <2>2, <2>3
  <2>6. ASSUME NEW i \in 1 .. Len(put)
        PROVE  Decodable(a.codec, raw[i]) /\ Decode(a.codec, raw[i]) = Read(put[i])
    <3> DEFINE e == put[i]
    <3>1. /\ e.attr = a /\ e.tag \in Byte /\ e.value \in Seq(Byte)
          /\ Encodable(a.codec, e.value) /\ Keeps(e)
      <4>1. e \in Shown(a)
        BY <2>3
      <4>2. QED
        BY <2>4, <4>1 DEF Shown, Entry
    <3>2. raw[i] = Encode(a.codec, e.tag, e.value)
      BY <2>2, <3>1 DEF Encoded
    <3> HIDE DEF e
    <3>3. /\ a.codec = "taggedBytes" => e.tag <= 31
          /\ a.codec = "taggedInteger" => e.tag <= 31 /\ e.value[1] = 0
      BY <3>1 DEF Keeps
    <3>4. /\ Decodable(a.codec, raw[i])
          /\ Decode(a.codec, raw[i]) =
               [tag |-> IF a.codec \in Tagged THEN e.tag ELSE 0, value |-> e.value]
      BY <2>1, <3>1, <3>2, <3>3, DecodeEncode
    <3>5. QED
      BY <3>1, <3>4 DEF Read, e
  <2>7. bad = {}
    BY <2>5, <2>6
  <2>8. Gets(packet, a) = [i \in 1 .. Len(raw) |-> Decode(a.codec, raw[i])]
    BY <2>7 DEF Gets, raw
  <2>9. QED
    BY <2>5, <2>6, <2>8 DEF put
<1>2. QED
  BY <1>1, RedbackInv, PTL

(* The handler reports the remote id and the circuit id that were added      *)
(* first, each without its header and neither in the place of the other.     *)
THEOREM RedbackAgentIsFirstAdded == Spec => []AgentIsFirstAdded
<1>1. Inv => AgentIsFirstAdded
  BY DEF Inv
<1>2. QED
  BY <1>1, RedbackInv, PTL
=============================================================================
