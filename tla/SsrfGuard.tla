----------------------------- MODULE SsrfGuard ------------------------------
(***************************************************************************)
(* egress/ssrf.rs: the class of an address.  An IPv4 address is its four   *)
(* octets, an IPv6 address its eight groups of 16 bits.                    *)
(***************************************************************************)
EXTENDS Naturals, Sequences

Octet == {x \in Nat : x <= 255}
V4 == [v : {4}, o : [1..4 -> Octet]]
Group == {x \in Nat : x <= 65535}
Groups == 1..8
V6 == [v : {6}, o : [Groups -> Group]]

classify_v4(o) ==
    IF o = <<169, 254, 169, 254>> THEN "Metadata"
    ELSE IF o[1] = 127 THEN "Loopback"
    ELSE IF \/ o[1] = 10
            \/ o[1] = 172 /\ o[2] \in 16..31
            \/ o[1] = 192 /\ o[2] = 168 THEN "Private"
    ELSE IF o[1] = 169 /\ o[2] = 254 THEN "LinkLocal"
    ELSE IF o[1] \in 224..239 THEN "Multicast"
    ELSE IF \/ o \in {<<255, 255, 255, 255>>, <<0, 0, 0, 0>>}
            \/ <<o[1], o[2], o[3]>> \in {<<192, 0, 2>>, <<198, 51, 100>>, <<203, 0, 113>>}
         THEN "Reserved"
    ELSE IF o[1] = 100 /\ o[2] \in 64..127 THEN "CarrierGradeNat"
    ELSE IF \/ o[1] >= 240
            \/ o[1] = 192 /\ o[2] = 0 /\ o[3] = 0
            \/ o[1] = 198 /\ o[2] \in 18..19 THEN "Reserved"
    ELSE "Public"

\* to_ipv4_mapped: ::ffff:a.b.c.d, and the address embedded in it.
IsMapped(g) == (\A i \in 1..5 : g[i] = 0) /\ g[6] = 65535
Embedded(g) == <<g[7] \div 256, g[7] % 256, g[8] \div 256, g[8] % 256>>

\* AWS_V6_METADATA, and the tests of Ipv6Addr that the guard uses or spells out.
IsMetadata6(g) == g = <<64768, 3778, 0, 0, 0, 0, 0, 596>>
IsLoopback6(g) == g = <<0, 0, 0, 0, 0, 0, 0, 1>>
IsUnspecified6(g) == g = <<0, 0, 0, 0, 0, 0, 0, 0>>
IsMulticast6(g) == g[1] >= 65280
IsLinkLocal6(g) == g[1] \in 65152..65215
IsUniqueLocal6(g) == g[1] \in 64512..65023
IsDocumentation6(g) == g[1] = 8193 /\ g[2] = 3512

classify_v6(g) ==
    IF IsMetadata6(g) THEN "Metadata"
    ELSE IF IsLoopback6(g) THEN "Loopback"
    ELSE IF IsUnspecified6(g) THEN "Reserved"
    ELSE IF IsMulticast6(g) THEN "Multicast"
    ELSE IF IsMapped(g) THEN classify_v4(Embedded(g))
    ELSE IF IsLinkLocal6(g) THEN "LinkLocal"
    ELSE IF IsUniqueLocal6(g) THEN "UniqueLocal"
    ELSE IF IsDocumentation6(g) THEN "Reserved"
    ELSE "Public"

is_private_or_metadata(a) ==
    (IF a.v = 4 THEN classify_v4(a.o) ELSE classify_v6(a.o)) # "Public"
-----------------------------------------------------------------------------
(***************************************************************************)
(* The documented list (docs/network-egress.md, "SSRF + private network    *)
(* defense") as networks: the words of the prefix, of which the last       *)
(* counts only in units of "unit" (16 for 172.16/12: four bits of the      *)
(* second octet are not part of the prefix).                               *)
(***************************************************************************)
Net(words, unit) == [words |-> words, unit |-> unit]

InNet(o, net) ==
    \A i \in 1..Len(net.words) :
        IF i < Len(net.words) THEN o[i] = net.words[i]
        ELSE o[i] \div net.unit = net.words[i] \div net.unit

Documented4 ==
    { Net(<<10>>, 1), Net(<<172, 16>>, 16), Net(<<192, 168>>, 1), Net(<<127>>, 1),
      Net(<<169, 254>>, 1), Net(<<100, 64>>, 64), Net(<<224>>, 16), Net(<<240>>, 16),
      Net(<<0, 0, 0, 0>>, 1), Net(<<192, 0, 0>>, 1), Net(<<192, 0, 2>>, 1),
      Net(<<198, 18>>, 2), Net(<<198, 51, 100>>, 1), Net(<<203, 0, 113>>, 1) }

Documented6 ==
    { Net(<<0, 0, 0, 0, 0, 0, 0, 0>>, 2), Net(<<65152>>, 64), Net(<<64512>>, 512),
      Net(<<65280>>, 256), Net(<<8193, 3512>>, 1) }

\* An address is on the list by itself, or as an IPv4 address mapped into IPv6.
InDocumentedNet(a) ==
    \/ a.v = 4 /\ \E n \in Documented4 : InNet(a.o, n)
    \/ a.v = 6 /\ \E n \in Documented6 : InNet(a.o, n)
    \/ /\ a.v = 6 /\ InNet(a.o, Net(<<0, 0, 0, 0, 0, 65535>>, 1))
       /\ \E n \in Documented4 : InNet(Embedded(a.o), n)
=============================================================================
