------------------------------- MODULE Redback -------------------------------
(***************************************************************************)
(* Reading option 82 out of a packet: the accessors of the Redback          *)
(* dictionary (redback/generated.go), which keep their values as            *)
(* sub-attributes <<number, length, value ...>> inside Vendor-Specific      *)
(* attributes, and what the handler makes of two of them                    *)
(* (redback_agent_parsers, radius/handler.go).  Everything is bytes here:   *)
(* which bytes belong to which value is what can go wrong.                  *)
(*                                                                         *)
(* A packet is built by its sender, with Vendor-Specific attributes that    *)
(* the Add accessors write, with those of other vendors, and with bytes no  *)
(* accessor would write; then the server reads it.  The accessors Set and   *)
(* Del, which the program never calls, are not modelled.                    *)
(***************************************************************************)
EXTENDS RedbackDictionary, Naturals, Sequences, SequencesExt

CONSTANTS
    Attributes,    \* the attributes senders add
    Values,        \* the values they add, per codec
    Tags,          \* the tags they add them with
    RawVsas,       \* Vendor-Specific attributes not written by Add
    OtherVendor,   \* another vendor's number
    MaxVendor,     \* so many bytes fit into a Vendor-Specific attribute (249)
    MaxValue,      \* so many bytes fit into an attribute (253)
    MaxVsas        \* bound of the model: Vendor-Specific attributes per packet

Byte == 0 .. 255

_Redback_VendorID == 2352

ASSUME RedbackAssumption ==
    /\ Attributes \subseteq Dictionary
    /\ \A a \in Attributes : Values[a.codec] \subseteq Seq(Byte)
    /\ Tags \subseteq Byte
    /\ RawVsas \subseteq [vendor : {_Redback_VendorID, OtherVendor}, vsa : Seq(Byte)]
    /\ \A r \in RawVsas : Len(r.vsa) <= MaxVendor
    /\ OtherVendor # _Redback_VendorID
    /\ MaxVendor \in 2 .. 249 /\ MaxValue \in Nat /\ MaxVsas \in Nat

VARIABLES
    packet,   \* the Vendor-Specific attributes, in order
    agent,    \* the handler's AgentOption, once it has read the packet
    added     \* history: what the Add accessors put in, and where

vars == <<packet, agent, added>>

Unread == [read |-> FALSE, RemoteId |-> <<>>, RawCircuitId |-> <<>>]

TypeOK ==
    /\ \A i \in 1 .. Len(packet) :
         /\ packet[i].vendor \in {_Redback_VendorID, OtherVendor}
         /\ packet[i].vsa \in Seq(Byte) /\ Len(packet[i].vsa) <= MaxVendor
    /\ agent.read \in BOOLEAN
    /\ agent.RemoteId \in Seq(Byte) /\ agent.RawCircuitId \in Seq(Byte)
    /\ \A i \in 1 .. Len(added) : added[i].at \in 1 .. Len(packet)

-----------------------------------------------------------------------------
(* Sub-attributes *)

(* The loop over the contents of one Vendor-Specific attribute: it stops at  *)
(* the first length that can not be right.                                   *)
SubAttributes(vsa) ==
    LET from[i \in 1 .. Len(vsa) + 1] ==
          LET left == Len(vsa) - i + 1
          IN  IF left < 3 THEN <<>>
              ELSE IF vsa[i + 1] > left \/ vsa[i + 1] < 3 THEN <<>>
              ELSE <<[typ |-> vsa[i], attr |-> SubSeq(vsa, i + 2, i + vsa[i + 1] - 1)]>>
                     \o from[i + vsa[i + 1]]
    IN  from[1]

(* The values of one number inside one Vendor-Specific attribute.            *)
Hits(a, typ) ==
    IF a.vendor # _Redback_VendorID \/ a.vsa = <<>> THEN <<>>
    ELSE LET subs == SubAttributes(a.vsa)
         IN  FlattenSeq([i \in 1 .. Len(subs) |->
                IF subs[i].typ = typ THEN <<subs[i].attr>> ELSE <<>>])

GetsVendorStops(p, typ) ==                          \* mutant: stops at another vendor
    LET foreign == {i \in 1 .. Len(p) : p[i].vendor # _Redback_VendorID}
        end == IF foreign = {} THEN Len(p) ELSE (CHOOSE i \in foreign : \A j \in foreign : i <= j) - 1
    IN  FlattenSeq([i \in 1 .. end |-> Hits(p[i], typ)])
GetsVendor(p, typ) == FlattenSeq([i \in 1 .. Len(p) |-> Hits(p[i], typ)])

LookupVendorLast(p, typ) ==                         \* mutant: the last one
    LET with == {i \in 1 .. Len(p) : Hits(p[i], typ) # <<>>}
    IN  IF with = {} THEN [ok |-> FALSE, attr |-> <<>>]
        ELSE [ok |-> TRUE, attr |-> Hits(p[CHOOSE i \in with : \A j \in with : i >= j], typ)[1]]
LookupVendor(p, typ) ==
    LET with == {i \in 1 .. Len(p) : Hits(p[i], typ) # <<>>}
    IN  IF with = {} THEN [ok |-> FALSE, attr |-> <<>>]
        ELSE [ok |-> TRUE, attr |-> Hits(p[CHOOSE i \in with : \A j \in with : i <= j], typ)[1]]

AddVendorUnchecked(p, typ, attr) ==                 \* mutant: no limit
    Append(p, [vendor |-> _Redback_VendorID, vsa |-> <<typ, 2 + Len(attr)>> \o attr])
(* A value that does not fit is an error and leaves the packet as it was. *)
AddVendor(p, typ, attr) ==
    IF 2 + Len(attr) > MaxVendor THEN p
    ELSE Append(p, [vendor |-> _Redback_VendorID, vsa |-> <<typ, 2 + Len(attr)>> \o attr])

-----------------------------------------------------------------------------
(* Codecs.  An integer stands as its big-endian bytes. *)

Width(codec) == CASE codec \in {"ipaddr", "integer", "taggedInteger"} -> 4
                  [] codec = "integer64" -> 8

Tagged == {"taggedBytes", "taggedInteger"}

FixedWidth == {"ipaddr", "integer", "integer64", "taggedInteger"}

(* What an Add accessor makes of a value, before AddVendor: an address that  *)
(* is no IPv4 address, or bytes that are too many, are an error.             *)
Encodable(codec, v) ==
    IF codec \in FixedWidth THEN Len(v) = Width(codec) ELSE Len(v) <= MaxValue

Encode(codec, tag, v) ==
    CASE codec = "taggedBytes"   -> IF tag <= 31 THEN <<tag>> \o v ELSE v
      [] codec = "taggedInteger" -> [v EXCEPT ![1] = IF tag \in 1 .. 31 THEN tag ELSE 0]
      [] OTHER                   -> v

Decodable(codec, attr) == codec \in FixedWidth => Len(attr) = Width(codec)

Decode(codec, attr) ==
    IF codec \in Tagged /\ Len(attr) >= 1 /\ attr[1] <= 31
    THEN [tag   |-> attr[1],
          value |-> IF codec = "taggedBytes" THEN Tail(attr) ELSE [attr EXCEPT ![1] = 0]]
    ELSE [tag |-> 0, value |-> attr]

-----------------------------------------------------------------------------
(* The accessors of one attribute. *)

Add(p, a, tag, v) ==
    IF Encodable(a.codec, v) THEN AddVendor(p, a.typ, Encode(a.codec, tag, v)) ELSE p

(* Gets ends at the first value that does not decode and returns what it has.*)
Gets(p, a) ==
    LET raw == GetsVendor(p, a.typ)
        bad == {i \in 1 .. Len(raw) : ~Decodable(a.codec, raw[i])}
        end == IF bad = {} THEN Len(raw) ELSE (CHOOSE i \in bad : \A j \in bad : i <= j) - 1
    IN  [i \in 1 .. end |-> Decode(a.codec, raw[i])]

(* Get is Lookup without the error: nothing found reads as the empty value.  *)
Lookup(p, a) ==
    LET hit == LookupVendor(p, a.typ)
    IN  IF hit.ok /\ Decodable(a.codec, hit.attr)
        THEN [ok |-> TRUE, got |-> Decode(a.codec, hit.attr)]
        ELSE [ok |-> FALSE, got |-> [tag |-> 0, value |-> <<>>]]

(* ParseRemoteId drops the two header bytes; the rest is written as hex with *)
(* colons, here as the bytes.                                                *)
ParseRemoteIdWhole(bts) == IF Len(bts) <= 2 THEN <<>> ELSE bts   \* mutant: header kept
ParseRemoteId(bts) == IF Len(bts) <= 2 THEN <<>> ELSE SubSeq(bts, 3, Len(bts))

-----------------------------------------------------------------------------

Init ==
    /\ packet = <<>>
    /\ agent = Unread
    /\ added = <<>>

Room == ~agent.read /\ Len(packet) < MaxVsas

AddAttribute(a, tag, v) ==
    /\ Room
    /\ packet' = Add(packet, a, tag, v)
    /\ added' = IF packet' = packet THEN added
                ELSE Append(added, [at |-> Len(packet'), attr |-> a, tag |-> tag, value |-> v])
    /\ UNCHANGED agent

(* Bytes that no accessor wrote, of this vendor or of another one. *)
AddRaw(a) ==
    /\ Room
    /\ packet' = Append(packet, a)
    /\ UNCHANGED <<agent, added>>

ParseAuthRequest ==
    /\ ~agent.read
    /\ LET circuit == Lookup(packet, AgentCircuitID).got.value
       IN  agent' = [read         |-> TRUE,
                     RemoteId     |-> ParseRemoteId(Lookup(packet, AgentRemoteID).got.value),
                     RawCircuitId |-> IF Len(circuit) > 2 THEN SubSeq(circuit, 3, Len(circuit))
                                      ELSE <<>>]
    /\ UNCHANGED <<packet, added>>

Next ==
    \/ \E a \in Attributes : \E v \in Values[a.codec] :
          \E tag \in IF a.codec \in Tagged THEN Tags ELSE {0} : AddAttribute(a, tag, v)
    \/ \E a \in RawVsas : AddRaw(a)
    \/ ParseAuthRequest

Spec == Init /\ [][Next]_vars

-----------------------------------------------------------------------------
(* Properties *)

(* What was added under an attribute, empty values left out: a sub-attribute *)
(* without a value is shorter than the readers accept and is never found.    *)
Put(a) ==
    FlattenSeq([i \in 1 .. Len(added) |->
        IF added[i].attr = a /\ Encode(a.codec, added[i].tag, added[i].value) # <<>>
        THEN <<added[i]>> ELSE <<>>])

(* Bytes not written by an accessor contain a value under this number. *)
RawOffers(typ) ==
    \E i \in 1 .. Len(packet) :
        /\ \A j \in 1 .. Len(added) : added[j].at # i
        /\ Hits(packet[i], typ) # <<>>

(* Values that survive: a tag above 31 is not written, and a tag takes the   *)
(* place of an integer's first byte.                                         *)
Keeps(e) ==
    CASE e.attr.codec = "taggedBytes"   -> e.tag <= 31
      [] e.attr.codec = "taggedInteger" -> e.tag <= 31 /\ e.value[1] = 0
      [] OTHER                          -> TRUE

Read(e) == [tag   |-> IF e.attr.codec \in Tagged THEN e.tag ELSE 0,
            value |-> e.value]

(* Values added to a packet are read back, all of them, in order and with    *)
(* their tags, whatever other attributes, other vendors' attributes and      *)
(* broken Vendor-Specific attributes stand before, between and after them.   *)
AddedIsFound ==
    \A a \in Attributes :
        LET put == Put(a)
        IN  (~RawOffers(a.typ) /\ \A i \in 1 .. Len(put) : Keeps(put[i])) =>
              Gets(packet, a) = [i \in 1 .. Len(put) |-> Read(put[i])]

(* Get and Gets, two loops over the same bytes, agree: what Get finds is the *)
(* first of what Gets finds, for every attribute of the dictionary, whoever  *)
(* wrote the bytes; Get fails when Gets finds nothing it can decode first.   *)
LookupIsFirstOfGets ==
    \A a \in Dictionary :
        LET one == Lookup(packet, a)
            all == Gets(packet, a)
        IN  IF all = <<>> THEN ~one.ok
            ELSE one = [ok |-> TRUE, got |-> all[1]]

(* An accessor touches its own attribute only: no two of the 193 attributes  *)
(* share a number, and a value's bytes are never taken for another           *)
(* attribute.                                                                *)
AccessorsIndependent ==
    [][\A i \in (Len(added) + 1) .. Len(added') :
         \A b \in Dictionary :
            b.name # added'[i].attr.name =>
                GetsVendor(packet', b.typ) = GetsVendor(packet, b.typ)]_vars

(* The handler reports the remote id and the circuit id that the sender      *)
(* added first, without their two header bytes, and does not mix them up;    *)
(* a packet without option 82 reports neither.                               *)
AgentIsFirstAdded ==
    agent.read =>
        LET header(a) == IF Put(a) = <<>> THEN <<>>
                         ELSE SubSeq(Put(a)[1].value, 3, Len(Put(a)[1].value))
        IN  /\ ~RawOffers(AgentRemoteID.typ)  => agent.RemoteId = header(AgentRemoteID)
            /\ ~RawOffers(AgentCircuitID.typ) => agent.RawCircuitId = header(AgentCircuitID)
=============================================================================
