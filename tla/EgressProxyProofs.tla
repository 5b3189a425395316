-------------------------- MODULE EgressProxyProofs -------------------------
(***************************************************************************)
(* Theorems about EgressProxy, for any connections, addresses, requests    *)
(* and policies, and for any reading of strings and patterns.              *)
(***************************************************************************)
EXTENDS EgressProxy, SequenceTheorems, FiniteSetTheorems, WellFoundedInduction, TLAPS

-----------------------------------------------------------------------------
(* The SSRF guard *)

\* Prefixes of one, two, three and four words.
LEMMA InNetShort ==
    ASSUME NEW o, NEW u
    PROVE  /\ \A a : InNet(o, Net(<<a>>, u)) <=> o[1] \div u = a \div u
           /\ \A a, b : InNet(o, Net(<<a, b>>, u)) <=> o[1] = a /\ o[2] \div u = b \div u
           /\ \A a, b, c : InNet(o, Net(<<a, b, c>>, u)) <=> o[1] = a /\ o[2] = b /\ o[3] \div u = c \div u
<1>1. ASSUME NEW a PROVE InNet(o, Net(<<a>>, u)) <=> o[1] \div u = a \div u
  <2>1. Len(<<a>>) = 1 /\ 1..1 = {1} OBVIOUS
  <2> QED BY <2>1 DEF InNet, Net
<1>2. ASSUME NEW a, NEW b PROVE InNet(o, Net(<<a, b>>, u)) <=> o[1] = a /\ o[2] \div u = b \div u
  <2>1. Len(<<a, b>>) = 2 /\ 1..2 = {1, 2} OBVIOUS
  <2> QED BY <2>1 DEF InNet, Net
<1>3. ASSUME NEW a, NEW b, NEW c
      PROVE  InNet(o, Net(<<a, b, c>>, u)) <=> o[1] = a /\ o[2] = b /\ o[3] \div u = c \div u
  <2>1. Len(<<a, b, c>>) = 3 /\ 1..3 = {1, 2, 3} OBVIOUS
  <2> QED BY <2>1 DEF InNet, Net
<1> QED BY <1>1, <1>2, <1>3

\* Division by the units of the list.
LEMMA Units ==
    ASSUME NEW x \in Nat
    PROVE  /\ x \div 1 = x
           /\ x \div 16 = 16 \div 16 <=> 16 <= x /\ x <= 31
           /\ x \div 16 = 224 \div 16 <=> 224 <= x /\ x <= 239
           /\ x \div 16 = 240 \div 16 <=> 240 <= x /\ x <= 255
           /\ x \div 64 = 64 \div 64 <=> 64 <= x /\ x <= 127
           /\ x \div 2 = 18 \div 2 <=> 18 <= x /\ x <= 19
           /\ x \div 2 = 0 \div 2 <=> 0 <= x /\ x <= 1
           /\ x \div 64 = 65152 \div 64 <=> 65152 <= x /\ x <= 65215
           /\ x \div 512 = 64512 \div 512 <=> 64512 <= x /\ x <= 65023
           /\ x \div 256 = 65280 \div 256 <=> 65280 <= x /\ x <= 65535
<1>1. x \div 1 = x OBVIOUS
<1>2. x \div 16 = 16 \div 16 <=> 16 <= x /\ x <= 31 OBVIOUS
<1>3. x \div 16 = 224 \div 16 <=> 224 <= x /\ x <= 239 OBVIOUS
<1>4. x \div 16 = 240 \div 16 <=> 240 <= x /\ x <= 255 OBVIOUS
<1>5. x \div 64 = 64 \div 64 <=> 64 <= x /\ x <= 127 OBVIOUS
<1>6. x \div 2 = 18 \div 2 <=> 18 <= x /\ x <= 19 OBVIOUS
<1>7. x \div 2 = 0 \div 2 <=> 0 <= x /\ x <= 1 OBVIOUS
<1>8. x \div 64 = 65152 \div 64 <=> 65152 <= x /\ x <= 65215 OBVIOUS
<1>9. x \div 512 = 64512 \div 512 <=> 64512 <= x /\ x <= 65023 OBVIOUS
<1>10. x \div 256 = 65280 \div 256 <=> 65280 <= x /\ x <= 65535 OBVIOUS
<1> QED BY <1>1, <1>2, <1>3, <1>4, <1>5, <1>6, <1>7, <1>8, <1>9, <1>10

\* An IPv4 address the guard lets pass is in no documented network.
LEMMA Guard4 ==
    ASSUME NEW o \in [1..4 -> Octet], classify_v4(o) = "Public"
    PROVE  \A n \in Documented4 : ~InNet(o, n)
<1>0. 1 \in 1..4 /\ 2 \in 1..4 /\ 3 \in 1..4 /\ 4 \in 1..4 OBVIOUS
<1>1. o[1] \in 0..255 /\ o[2] \in 0..255 /\ o[3] \in 0..255 /\ o[4] \in 0..255 BY <1>0 DEF Octet
<1>n. o[1] \in Nat /\ o[2] \in Nat /\ o[3] \in Nat /\ o[4] \in Nat BY <1>1
<1>z. o # <<0, 0, 0, 0>> BY DEF classify_v4
<1>2. o[1] # 10 /\ o[1] # 127 /\ ~(224 <= o[1] /\ o[1] <= 239) /\ ~(240 <= o[1] /\ o[1] <= 255)
  BY <1>1 DEF classify_v4
<1>3. /\ o[1] = 172 => ~(16 <= o[2] /\ o[2] <= 31)
      /\ o[1] = 192 => o[2] # 168
      /\ o[1] = 169 => o[2] # 254
      /\ o[1] = 100 => ~(64 <= o[2] /\ o[2] <= 127)
      /\ o[1] = 198 => ~(18 <= o[2] /\ o[2] <= 19)
  BY <1>1 DEF classify_v4
<1>4. <<o[1], o[2], o[3]>> \notin {<<192, 0, 0>>, <<192, 0, 2>>, <<198, 51, 100>>, <<203, 0, 113>>}
  BY <1>1 DEF classify_v4
<1>5. /\ ~InNet(o, Net(<<10>>, 1)) /\ ~InNet(o, Net(<<127>>, 1))
      /\ ~InNet(o, Net(<<224>>, 16)) /\ ~InNet(o, Net(<<240>>, 16))
  <2>1. InNet(o, Net(<<10>>, 1)) <=> o[1] \div 1 = 10 \div 1 BY InNetShort
  <2>2. InNet(o, Net(<<127>>, 1)) <=> o[1] \div 1 = 127 \div 1 BY InNetShort
  <2>3. InNet(o, Net(<<224>>, 16)) <=> o[1] \div 16 = 224 \div 16 BY InNetShort
  <2>4. InNet(o, Net(<<240>>, 16)) <=> o[1] \div 16 = 240 \div 16 BY InNetShort
  <2>5. o[1] \div 1 = o[1] /\ 10 \div 1 = 10 /\ 127 \div 1 = 127 BY <1>n, Units
  <2> QED BY <1>n, <1>2, <2>1, <2>2, <2>3, <2>4, <2>5, Units
<1>6. /\ ~InNet(o, Net(<<172, 16>>, 16)) /\ ~InNet(o, Net(<<192, 168>>, 1)) /\ ~InNet(o, Net(<<169, 254>>, 1))
      /\ ~InNet(o, Net(<<100, 64>>, 64)) /\ ~InNet(o, Net(<<198, 18>>, 2))
  <2>1. InNet(o, Net(<<172, 16>>, 16)) <=> o[1] = 172 /\ o[2] \div 16 = 16 \div 16 BY InNetShort
  <2>2. InNet(o, Net(<<192, 168>>, 1)) <=> o[1] = 192 /\ o[2] \div 1 = 168 \div 1 BY InNetShort
  <2>3. InNet(o, Net(<<169, 254>>, 1)) <=> o[1] = 169 /\ o[2] \div 1 = 254 \div 1 BY InNetShort
  <2>4. InNet(o, Net(<<100, 64>>, 64)) <=> o[1] = 100 /\ o[2] \div 64 = 64 \div 64 BY InNetShort
  <2>5. InNet(o, Net(<<198, 18>>, 2)) <=> o[1] = 198 /\ o[2] \div 2 = 18 \div 2 BY InNetShort
  <2>6. o[2] \div 1 = o[2] /\ 168 \div 1 = 168 /\ 254 \div 1 = 254 BY <1>n, Units
  <2> QED BY <1>n, <1>3, <2>1, <2>2, <2>3, <2>4, <2>5, <2>6, Units
<1>7. /\ ~InNet(o, Net(<<192, 0, 0>>, 1)) /\ ~InNet(o, Net(<<192, 0, 2>>, 1))
      /\ ~InNet(o, Net(<<198, 51, 100>>, 1)) /\ ~InNet(o, Net(<<203, 0, 113>>, 1))
  <2>1. InNet(o, Net(<<192, 0, 0>>, 1)) <=> o[1] = 192 /\ o[2] = 0 /\ o[3] \div 1 = 0 \div 1
    BY InNetShort
  <2>2. InNet(o, Net(<<192, 0, 2>>, 1)) <=> o[1] = 192 /\ o[2] = 0 /\ o[3] \div 1 = 2 \div 1
    BY InNetShort
  <2>3. InNet(o, Net(<<198, 51, 100>>, 1)) <=> o[1] = 198 /\ o[2] = 51 /\ o[3] \div 1 = 100 \div 1
    BY InNetShort
  <2>4. InNet(o, Net(<<203, 0, 113>>, 1)) <=> o[1] = 203 /\ o[2] = 0 /\ o[3] \div 1 = 113 \div 1
    BY InNetShort
  <2>5. o[3] \div 1 = o[3] /\ 0 \div 1 = 0 /\ 2 \div 1 = 2 /\ 100 \div 1 = 100 /\ 113 \div 1 = 113 BY <1>n, Units
  <2> QED BY <1>4, <2>1, <2>2, <2>3, <2>4, <2>5
<1>8. ~InNet(o, Net(<<0, 0, 0, 0>>, 1))
  <2>1. Len(<<0, 0, 0, 0>>) = 4 /\ 1..4 = {1, 2, 3, 4} /\ 0 \div 1 = 0 /\ o[4] \div 1 = o[4] BY <1>1
  <2>2. SUFFICES ASSUME InNet(o, Net(<<0, 0, 0, 0>>, 1)) PROVE FALSE OBVIOUS
  <2>3. o[1] = 0 /\ o[2] = 0 /\ o[3] = 0 /\ o[4] = 0 BY <2>1, <2>2 DEF InNet, Net
  <2> QED BY <1>z, <2>1, <2>3
<1> QED BY <1>5, <1>6, <1>7, <1>8 DEF Documented4

\* Eight groups as a sequence.  (The provers do not cope with intervals as the
\* domain and the range of a function.)
LEMMA GroupIs == ASSUME NEW x \in Group PROVE x \in Nat /\ 0 <= x /\ x <= 65535
BY DEF Group

\* The address embedded in an IPv6 address is four octets.
LEMMA EmbeddedIs == ASSUME NEW g, g[7] \in Group, g[8] \in Group PROVE Embedded(g) \in [1..4 -> Octet]
<1>1. ASSUME NEW x \in Group PROVE x \div 256 \in Octet /\ x % 256 \in Octet BY DEF Group, Octet
<1>2. ASSUME NEW a \in Octet, NEW b \in Octet, NEW c \in Octet, NEW d \in Octet
      PROVE  <<a, b, c, d>> \in [1..4 -> Octet]
  OBVIOUS
<1> QED BY <1>1, <1>2 DEF Embedded

LEMMA GroupsAre ==
    Groups = 1..8 /\ \A i : i \in Groups <=> i \in {1, 2, 3, 4, 5, 6, 7, 8}
BY DEF Groups

LEMMA GroupsSeq ==
    ASSUME NEW n \in Nat, Groups = 1..n, NEW g \in [Groups -> Group]
    PROVE  g \in Seq(Nat) /\ Len(g) = n
BY GroupIs

LEMMA ZeroGroups ==
    ASSUME NEW g \in Seq(Nat), Len(g) = 8, NEW x \in Nat,
           g[1] = 0, g[2] = 0, g[3] = 0, g[4] = 0, g[5] = 0, g[6] = 0, g[7] = 0, g[8] = x
    PROVE  g = <<0, 0, 0, 0, 0, 0, 0, x>>
<1> DEFINE t == <<0, 0, 0, 0, 0, 0, 0, x>>
<1>1. t \in Seq(Nat) /\ Len(t) = 8 OBVIOUS
<1>2. t[1] = 0 /\ t[2] = 0 /\ t[3] = 0 /\ t[4] = 0 /\ t[5] = 0 /\ t[6] = 0 /\ t[7] = 0 /\ t[8] = x OBVIOUS
<1> HIDE DEF t
<1>3. \A i \in 1..Len(g) : i \in {1, 2, 3, 4, 5, 6, 7, 8} OBVIOUS
<1>4. \A i \in 1..Len(g) : g[i] = t[i] BY <1>2, <1>3
<1>5. g = t BY <1>1, <1>4, SeqEqual
<1> QED BY <1>5 DEF t

\* Nor is an IPv6 address it lets pass, by itself or as an IPv4 address.
LEMMA Guard6 ==
    ASSUME NEW g \in [Groups -> Group], classify_v6(g) = "Public"
    PROVE  /\ \A n \in Documented6 : ~InNet(g, n)
           /\ InNet(g, Net(<<0, 0, 0, 0, 0, 65535>>, 1)) => \A n \in Documented4 : ~InNet(Embedded(g), n)
<1>1. g[1] \in Group /\ g[2] \in Group /\ g[6] \in Group /\ g[7] \in Group /\ g[8] \in Group BY GroupsAre
<1>n. g[1] \in Nat /\ g[2] \in Nat /\ g[6] \in Nat /\ g[8] \in Nat BY <1>1, GroupIs
<1>c. /\ ~IsLoopback6(g) /\ ~IsUnspecified6(g) /\ ~IsMulticast6(g)
      /\ \/ IsMapped(g) /\ classify_v4(Embedded(g)) = "Public"
         \/ ~IsMapped(g) /\ ~IsLinkLocal6(g) /\ ~IsUniqueLocal6(g) /\ ~IsDocumentation6(g)
  BY DEF classify_v6
<1>z. g # <<0, 0, 0, 0, 0, 0, 0, 0>> /\ g # <<0, 0, 0, 0, 0, 0, 0, 1>>
  BY <1>c DEF IsLoopback6, IsUnspecified6
<1>2. g[1] < 65280 BY <1>n, <1>c DEF IsMulticast6
<1>3. \/ IsMapped(g) /\ classify_v4(Embedded(g)) = "Public"
      \/ /\ ~IsMapped(g)
         /\ ~(65152 <= g[1] /\ g[1] <= 65215) /\ ~(64512 <= g[1] /\ g[1] <= 65023)
         /\ ~(g[1] = 8193 /\ g[2] = 3512)
  BY <1>n, <1>c DEF IsLinkLocal6, IsUniqueLocal6, IsDocumentation6
<1>m. IsMapped(g) => g[1] = 0 BY DEF IsMapped
<1>4. ~InNet(g, Net(<<65152>>, 64)) /\ ~InNet(g, Net(<<64512>>, 512)) /\ ~InNet(g, Net(<<65280>>, 256))
  <2>1. InNet(g, Net(<<65152>>, 64)) <=> g[1] \div 64 = 65152 \div 64 BY InNetShort
  <2>2. InNet(g, Net(<<64512>>, 512)) <=> g[1] \div 512 = 64512 \div 512 BY InNetShort
  <2>3. InNet(g, Net(<<65280>>, 256)) <=> g[1] \div 256 = 65280 \div 256 BY InNetShort
  <2> QED BY <1>n, <1>2, <1>3, <1>m, <2>1, <2>2, <2>3, Units
<1>5. ~InNet(g, Net(<<8193, 3512>>, 1))
  <2>1. InNet(g, Net(<<8193, 3512>>, 1)) <=> g[1] = 8193 /\ g[2] \div 1 = 3512 \div 1 BY InNetShort
  <2>2. g[2] \div 1 = g[2] /\ 3512 \div 1 = 3512 BY <1>n, Units
  <2> QED BY <1>3, <1>m, <2>1, <2>2
<1>6. ~InNet(g, Net(<<0, 0, 0, 0, 0, 0, 0, 0>>, 2))
  <2>1. /\ Len(<<0, 0, 0, 0, 0, 0, 0, 0>>) = 8 /\ 1..8 = {1, 2, 3, 4, 5, 6, 7, 8}
    OBVIOUS
  <2>2. SUFFICES ASSUME InNet(g, Net(<<0, 0, 0, 0, 0, 0, 0, 0>>, 2)) PROVE FALSE OBVIOUS
  <2>3. /\ g[1] = 0 /\ g[2] = 0 /\ g[3] = 0 /\ g[4] = 0 /\ g[5] = 0 /\ g[6] = 0 /\ g[7] = 0
        /\ g[8] \div 2 = 0 \div 2
    BY <2>1, <2>2 DEF InNet, Net
  <2>4. g[8] = 0 \/ g[8] = 1 BY <1>n, <2>3, Units
  <2>5. g \in Seq(Nat) /\ Len(g) = 8 BY GroupsAre, GroupsSeq
  <2> QED BY <1>z, <2>3, <2>4, <2>5, ZeroGroups
<1>7. InNet(g, Net(<<0, 0, 0, 0, 0, 65535>>, 1)) => IsMapped(g)
  <2>1. Len(<<0, 0, 0, 0, 0, 65535>>) = 6 /\ 1..6 = {1, 2, 3, 4, 5, 6} OBVIOUS
  <2>2. SUFFICES ASSUME InNet(g, Net(<<0, 0, 0, 0, 0, 65535>>, 1)) PROVE IsMapped(g) OBVIOUS
  <2>3. /\ g[1] = 0 /\ g[2] = 0 /\ g[3] = 0 /\ g[4] = 0 /\ g[5] = 0 /\ g[6] \div 1 = 65535 \div 1
    BY <2>1, <2>2 DEF InNet, Net
  <2>4. g[6] \div 1 = g[6] /\ 65535 \div 1 = 65535 BY <1>n, Units
  <2>5. 1..5 = {1, 2, 3, 4, 5} OBVIOUS
  <2> QED BY <2>3, <2>4, <2>5 DEF IsMapped
<1>8. IsMapped(g) => \A n \in Documented4 : ~InNet(Embedded(g), n)
  <2>1. Embedded(g) \in [1..4 -> Octet] BY <1>1, EmbeddedIs
  <2> QED BY <1>3, <2>1, Guard4
<1>9. \A n \in Documented6 : ~InNet(g, n) BY <1>4, <1>5, <1>6 DEF Documented6
<1> QED BY <1>7, <1>8, <1>9

\* The SSRF guard covers the documented networks.
LEMMA Guard ==
    ASSUME NEW a \in V4 \cup V6, ~is_private_or_metadata(a) PROVE ~InDocumentedNet(a)
<1>1. CASE a \in V4
  <2>1. a.v = 4 /\ a.o \in [1..4 -> Octet] BY <1>1 DEF V4
  <2>2. classify_v4(a.o) = "Public" BY <2>1 DEF is_private_or_metadata
  <2> QED BY <2>1, <2>2, Guard4 DEF InDocumentedNet
<1>2. CASE a \in V6
  <2>1. a.v = 6 /\ a.o \in [Groups -> Group] BY <1>2 DEF V6
  <2>2. classify_v6(a.o) = "Public" BY <2>1 DEF is_private_or_metadata
  <2> QED BY <2>1, <2>2, Guard6 DEF InDocumentedNet
<1> QED BY <1>1, <1>2

\* An IPv4 address the guard blocks is in a documented network.
LEMMA Blocked4 ==
    ASSUME NEW o \in [1..4 -> Octet], classify_v4(o) # "Public"
    PROVE  \E n \in Documented4 : InNet(o, n)
<1>0. 1 \in 1..4 /\ 2 \in 1..4 /\ 3 \in 1..4 /\ 4 \in 1..4 OBVIOUS
<1>1. o[1] \in 0..255 /\ o[2] \in 0..255 /\ o[3] \in 0..255 /\ o[4] \in 0..255 BY <1>0 DEF Octet
<1>n. o[1] \in Nat /\ o[2] \in Nat /\ o[3] \in Nat /\ o[4] \in Nat BY <1>1
<1>w. /\ o[1] \div 1 = o[1] /\ o[2] \div 1 = o[2] /\ o[3] \div 1 = o[3]
      /\ 10 \div 1 = 10 /\ 127 \div 1 = 127 /\ 168 \div 1 = 168 /\ 254 \div 1 = 254
      /\ 0 \div 1 = 0 /\ 2 \div 1 = 2 /\ 100 \div 1 = 100 /\ 113 \div 1 = 113
  BY <1>n
<1>2. CASE o[1] \in {10, 127} \/ o[1] \in 224..255
  <2>1. CASE o[1] = 10
    <3>1. InNet(o, Net(<<10>>, 1)) BY <1>w, <2>1, InNetShort
    <3> QED BY <3>1 DEF Documented4
  <2>2. CASE o[1] = 127
    <3>1. InNet(o, Net(<<127>>, 1)) BY <1>w, <2>2, InNetShort
    <3> QED BY <3>1 DEF Documented4
  <2>3. CASE 224 <= o[1] /\ o[1] <= 239
    <3>1. o[1] \div 16 = 224 \div 16 BY <1>n, <2>3, Units
    <3>2. InNet(o, Net(<<224>>, 16)) BY <3>1, InNetShort
    <3> QED BY <3>2 DEF Documented4
  <2>4. CASE 240 <= o[1] /\ o[1] <= 255
    <3>1. o[1] \div 16 = 240 \div 16 BY <1>n, <2>4, Units
    <3>2. InNet(o, Net(<<240>>, 16)) BY <3>1, InNetShort
    <3> QED BY <3>2 DEF Documented4
  <2> QED BY <1>n, <1>2, <2>1, <2>2, <2>3, <2>4
<1>3. CASE \/ o[1] = 172 /\ o[2] \in 16..31
           \/ o[1] = 100 /\ o[2] \in 64..127
           \/ o[1] = 198 /\ o[2] \in 18..19
  <2>1. CASE o[1] = 172 /\ o[2] \in 16..31
    <3>1. o[2] \div 16 = 16 \div 16 BY <1>n, <2>1, Units
    <3>2. InNet(o, Net(<<172, 16>>, 16)) BY <2>1, <3>1, InNetShort
    <3> QED BY <3>2 DEF Documented4
  <2>2. CASE o[1] = 100 /\ o[2] \in 64..127
    <3>1. o[2] \div 64 = 64 \div 64 BY <1>n, <2>2, Units
    <3>2. InNet(o, Net(<<100, 64>>, 64)) BY <2>2, <3>1, InNetShort
    <3> QED BY <3>2 DEF Documented4
  <2>3. CASE o[1] = 198 /\ o[2] \in 18..19
    <3>1. o[2] \div 2 = 18 \div 2 BY <1>n, <2>3, Units
    <3>2. InNet(o, Net(<<198, 18>>, 2)) BY <2>3, <3>1, InNetShort
    <3> QED BY <3>2 DEF Documented4
  <2> QED BY <1>3, <2>1, <2>2, <2>3
<1>4. CASE \/ o[1] = 192 /\ o[2] = 168
           \/ o[1] = 169 /\ o[2] = 254
  <2>1. CASE o[1] = 192 /\ o[2] = 168
    <3>1. InNet(o, Net(<<192, 168>>, 1)) BY <1>w, <2>1, InNetShort
    <3> QED BY <3>1 DEF Documented4
  <2>2. CASE o[1] = 169 /\ o[2] = 254
    <3>1. InNet(o, Net(<<169, 254>>, 1)) BY <1>w, <2>2, InNetShort
    <3> QED BY <3>1 DEF Documented4
  <2> QED BY <1>4, <2>1, <2>2
<1>5. CASE <<o[1], o[2], o[3]>> \in {<<192, 0, 0>>, <<192, 0, 2>>, <<198, 51, 100>>, <<203, 0, 113>>}
  <2>0. \/ o[1] = 192 /\ o[2] = 0 /\ (o[3] = 0 \/ o[3] = 2)
        \/ o[1] = 198 /\ o[2] = 51 /\ o[3] = 100
        \/ o[1] = 203 /\ o[2] = 0 /\ o[3] = 113
    BY <1>5
  <2>1. CASE o[1] = 192 /\ o[2] = 0 /\ o[3] = 0
    <3>1. InNet(o, Net(<<192, 0, 0>>, 1)) BY <1>w, <2>1, InNetShort
    <3> QED BY <3>1 DEF Documented4
  <2>2. CASE o[1] = 192 /\ o[2] = 0 /\ o[3] = 2
    <3>1. InNet(o, Net(<<192, 0, 2>>, 1)) BY <1>w, <2>2, InNetShort
    <3> QED BY <3>1 DEF Documented4
  <2>3. CASE o[1] = 198 /\ o[2] = 51 /\ o[3] = 100
    <3>1. InNet(o, Net(<<198, 51, 100>>, 1)) BY <1>w, <2>3, InNetShort
    <3> QED BY <3>1 DEF Documented4
  <2>4. CASE o[1] = 203 /\ o[2] = 0 /\ o[3] = 113
    <3>1. InNet(o, Net(<<203, 0, 113>>, 1)) BY <1>w, <2>4, InNetShort
    <3> QED BY <3>1 DEF Documented4
  <2> QED BY <2>0, <2>1, <2>2, <2>3, <2>4
<1>6. CASE o = <<0, 0, 0, 0>>
  <2>1. Len(<<0, 0, 0, 0>>) = 4 /\ 1..4 = {1, 2, 3, 4} OBVIOUS
  <2>2. o[1] = 0 /\ o[2] = 0 /\ o[3] = 0 /\ o[4] = 0 BY <1>6
  <2>3. InNet(o, Net(<<0, 0, 0, 0>>, 1)) BY <2>1, <2>2 DEF InNet, Net
  <2> QED BY <2>3 DEF Documented4
<1>7. o \in {<<169, 254, 169, 254>>, <<255, 255, 255, 255>>} => (o[1] = 169 /\ o[2] = 254) \/ o[1] = 255 OBVIOUS
<1> QED BY <1>1, <1>2, <1>3, <1>4, <1>5, <1>6, <1>7 DEF classify_v4

\* And so is an IPv6 address, by itself or as an IPv4 address.
LEMMA Blocked6 ==
    ASSUME NEW g \in [Groups -> Group], classify_v6(g) # "Public"
    PROVE  \/ \E n \in Documented6 : InNet(g, n)
           \/ /\ InNet(g, Net(<<0, 0, 0, 0, 0, 65535>>, 1))
              /\ \E n \in Documented4 : InNet(Embedded(g), n)
<1>1. g[1] \in Group /\ g[2] \in Group /\ g[6] \in Group /\ g[7] \in Group /\ g[8] \in Group BY GroupsAre
<1>n. g[1] \in Nat /\ g[1] <= 65535 /\ g[2] \in Nat /\ g[6] \in Nat /\ g[8] \in Nat BY <1>1, GroupIs
<1>2. CASE IsLoopback6(g) \/ IsUnspecified6(g)
  <2>1. Len(<<0, 0, 0, 0, 0, 0, 0, 0>>) = 8 /\ 1..8 = {1, 2, 3, 4, 5, 6, 7, 8} OBVIOUS
  <2>2. g[1] = 0 /\ g[2] = 0 /\ g[3] = 0 /\ g[4] = 0 /\ g[5] = 0 /\ g[6] = 0 /\ g[7] = 0 /\ (g[8] = 0 \/ g[8] = 1)
    BY <1>2 DEF IsLoopback6, IsUnspecified6
  <2>3. g[8] \div 2 = 0 \div 2 BY <1>n, <2>2, Units
  <2>4. InNet(g, Net(<<0, 0, 0, 0, 0, 0, 0, 0>>, 2)) BY <2>1, <2>2, <2>3 DEF InNet, Net
  <2> QED BY <2>4 DEF Documented6
<1>3. CASE IsMulticast6(g)
  <2>1. g[1] \div 256 = 65280 \div 256 BY <1>n, <1>3, Units DEF IsMulticast6
  <2>2. InNet(g, Net(<<65280>>, 256)) BY <2>1, InNetShort
  <2> QED BY <2>2 DEF Documented6
<1>4. CASE IsMapped(g) /\ classify_v4(Embedded(g)) # "Public"
  <2>1. Len(<<0, 0, 0, 0, 0, 65535>>) = 6 /\ 1..6 = {1, 2, 3, 4, 5, 6} /\ 1..5 = {1, 2, 3, 4, 5} OBVIOUS
  <2>2. g[1] = 0 /\ g[2] = 0 /\ g[3] = 0 /\ g[4] = 0 /\ g[5] = 0 /\ g[6] = 65535 BY <1>4, <2>1 DEF IsMapped
  <2>3. InNet(g, Net(<<0, 0, 0, 0, 0, 65535>>, 1)) BY <2>1, <2>2 DEF InNet, Net
  <2>4. Embedded(g) \in [1..4 -> Octet] BY <1>1, EmbeddedIs
  <2> QED BY <1>4, <2>3, <2>4, Blocked4
<1>5. CASE IsLinkLocal6(g)
  <2>1. g[1] \div 64 = 65152 \div 64 BY <1>n, <1>5, Units DEF IsLinkLocal6
  <2>2. InNet(g, Net(<<65152>>, 64)) BY <2>1, InNetShort
  <2> QED BY <2>2 DEF Documented6
<1>6. CASE IsUniqueLocal6(g) \/ IsMetadata6(g)
  <2>1. 64512 <= g[1] /\ g[1] <= 65023 BY <1>n, <1>6 DEF IsUniqueLocal6, IsMetadata6
  <2>2. g[1] \div 512 = 64512 \div 512 BY <1>n, <2>1, Units
  <2>3. InNet(g, Net(<<64512>>, 512)) BY <2>2, InNetShort
  <2> QED BY <2>3 DEF Documented6
<1>7. CASE IsDocumentation6(g)
  <2>1. g[2] \div 1 = 3512 \div 1 /\ g[1] = 8193 BY <1>7 DEF IsDocumentation6
  <2>2. InNet(g, Net(<<8193, 3512>>, 1)) BY <2>1, InNetShort
  <2> QED BY <2>2 DEF Documented6
<1> QED BY <1>2, <1>3, <1>4, <1>5, <1>6, <1>7 DEF classify_v6

\* The SSRF guard of ssrf.rs blocks exactly the documented networks: of all 2^32
\* IPv4 and 2^128 IPv6 addresses it lets none on the list pass, in either
\* notation, and blocks none outside it.
THEOREM GuardIsExact == \A a \in V4 \cup V6 : is_private_or_metadata(a) <=> InDocumentedNet(a)
<1> SUFFICES ASSUME NEW a \in V4 \cup V6, is_private_or_metadata(a) PROVE InDocumentedNet(a) BY Guard
<1>1. CASE a \in V4
  <2>1. a.v = 4 /\ a.o \in [1..4 -> Octet] BY <1>1 DEF V4
  <2>2. classify_v4(a.o) # "Public" BY <2>1 DEF is_private_or_metadata
  <2> QED BY <2>1, <2>2, Blocked4 DEF InDocumentedNet
<1>2. CASE a \in V6
  <2>1. a.v = 6 /\ a.o \in [Groups -> Group] BY <1>2 DEF V6
  <2>2. classify_v6(a.o) # "Public" BY <2>1 DEF is_private_or_metadata
  <2> QED BY <2>1, <2>2, Blocked6 DEF InDocumentedNet
<1> QED BY <1>1, <1>2
-----------------------------------------------------------------------------
(* Rules *)

\* A set of numbers has a least one.
LEMMA Least == ASSUME NEW T \in SUBSET Nat, T # {} PROVE \E i \in T : \A j \in T : i <= j
<1> DEFINE Below == {ss \in Nat \X Nat : ss[1] < ss[2]}
<1>1. IsWellFoundedOn(Below, Nat) BY NatLessThanWellFounded DEF OpToRel
<1>2. \A x, y \in Nat : y < x => <<y, x>> \in Below OBVIOUS
<1> HIDE DEF Below
<1>3. PICK x \in T : \A y \in T : <<y, x>> \notin Below BY <1>1, WFMin
<1>4. \A y \in T : ~(y < x) BY <1>2, <1>3
<1> QED BY <1>4

\* An evaluation ends in the action of the default or of a rule that matches.
LEMMA EvaluateType == ASSUME NEW p \in Policy, NEW q PROVE evaluate(p, q) \in Action
<1> DEFINE hits == {i \in DOMAIN p.rules : rule_matches(p.rules[i], q)}
           first == CHOOSE i \in hits : \A j \in hits : i <= j
<1>1. p.default_action \in Action /\ p.rules \in Seq(Rule) BY DEF Policy
<1>2. evaluate(p, q) = IF hits = {} THEN p.default_action ELSE p.rules[first].action BY DEF evaluate
<1>3. ASSUME hits # {} PROVE first \in DOMAIN p.rules
  <2>1. hits \in SUBSET Nat BY <1>1
  <2>2. \E i \in hits : \A j \in hits : i <= j BY <1>3, <2>1, Least
  <2> QED BY <2>2
<1> HIDE DEF hits, first
<1>r. \A r \in Rule : r.action \in Action BY DEF Rule
<1>4. \A i \in DOMAIN p.rules : p.rules[i].action \in Action BY <1>1, <1>r
<1> QED BY <1>1, <1>2, <1>3, <1>4

\* Compiling keeps a policy a policy.
LEMMA CompileType == ASSUME NEW p \in Policy PROVE compile(p) \in Policy
<1>1. p.rules \in Seq(Rule) BY DEF Policy
<1>2. ASSUME NEW r \in Rule PROVE compile_rule(r) \in Rule
  BY StrAssumption DEF compile_rule, Rule, HostMatch
<1>3. [i \in DOMAIN p.rules |-> compile_rule(p.rules[i])] \in Seq(Rule)
  BY <1>1, <1>2
<1> QED BY <1>3 DEF compile, Policy
-----------------------------------------------------------------------------
(* The life of a connection *)

\* Places between the first decision and the last byte.
Admitted == {"connect", "tls", "forward", "log", "copy"}
InTunnel == {"tunnel", "leaf", "generate", "handshake", "inner"}
Going == {"judge"} \cup InTunnel \cup Admitted

Life(c) ==
    /\ pc[c] \notin {"idle", "head", "done"} => req[c] # None
    /\ pc[c] \in {"idle", "head"} => req[c] = None
    /\ req[c] = None => action[c] = None
    /\ pc[c] \in {"idle", "head", "resolve"} \cup InTunnel => inner[c] = None
    /\ pc[c] \in InTunnel => IsConnect(c)
    /\ pc[c] \in Admitted => (IsConnect(c) <=> inner[c] # None)
    /\ inner[c] # None => req[c] # None /\ IsConnect(c)
    /\ action[c] = "Deny" => pc[c] \in {"refuse", "done"}
    /\ up[c] # None => pc[c] \in {"tls", "forward", "log", "copy", "done"}
    /\ sent[c] => pc[c] \in {"log", "copy", "done"}
    /\ pc[c] \in {"log", "copy"} => sent[c]

Lives == TypeOK /\ \A c \in Conn : Life(c)

Step(c) == TaskStep(c) \/ PeerStep(c)

\* A step of one task leaves the state of the others alone.
Same(d) ==
    /\ pc'[d] = pc[d] /\ req'[d] = req[d] /\ inner'[d] = inner[d] /\ ip'[d] = ip[d]
    /\ action'[d] = action[d] /\ leaf'[d] = leaf[d] /\ up'[d] = up[d] /\ sent'[d] = sent[d]

LEMMA StepFrame ==
    ASSUME TypeOK, NEW c \in Conn, Step(c), NEW d \in Conn, d # c
    PROVE  Same(d) /\ UNCHANGED <<policy, handle, report>>
<1>t. /\ pc \in [Conn -> Places] /\ req \in [Conn -> FirstHead \cup {None}]
      /\ inner \in [Conn -> Inner \cup {None}] /\ ip \in [Conn -> Addr \cup {None}]
  BY DEF TypeOK
<1>s. /\ action \in [Conn -> Action \cup {None}] /\ leaf \in [Conn -> Leaf \cup {None}]
      /\ up \in [Conn -> Addr \cup {None}] /\ sent \in [Conn -> BOOLEAN]
  BY DEF TypeOK
<1>1. CASE TaskStep(c)
  BY <1>1, <1>t, <1>s DEF TaskStep, Same, Goto, ResolveFails, resolve_and_eval, resolve_judge, Refuse, OpenTunnel,
     LookupLeaf, InsertLeaf, TimeOut, Forward, LogForwarded
<1>2. CASE PeerStep(c)
  BY <1>2, <1>t, <1>s DEF PeerStep, Same, Goto, Accept, ReadHead, Handshake, ReadInner, ConnectUpstream,
     UpstreamTls, EndCopy
<1> QED BY <1>1, <1>2 DEF Step
\* What a task knows at each of its places.
LEMMA LifeStep ==
    ASSUME Lives, NEW c \in Conn, Step(c) PROVE Life(c)'
<1>t. /\ pc \in [Conn -> Places] /\ req \in [Conn -> FirstHead \cup {None}]
      /\ inner \in [Conn -> Inner \cup {None}] /\ action \in [Conn -> Action \cup {None}]
      /\ up \in [Conn -> Addr \cup {None}] /\ sent \in [Conn -> BOOLEAN]
  BY DEF Lives, TypeOK
<1>l. Life(c) BY DEF Lives
<1>n. None \notin FirstHead /\ None \notin Inner /\ None # "Deny" BY ProxyAssumption DEF Action
<1> USE DEF Life, Goto, IsConnect, InTunnel, Admitted
<1>1. CASE Accept(c) BY <1>1, <1>t, <1>l, <1>n DEF Accept
<1>2. CASE ReadHead(c) BY <1>2, <1>t, <1>l, <1>n DEF ReadHead
<1>3. CASE ResolveFails(c) BY <1>3, <1>t, <1>l, <1>n DEF ResolveFails
<1>4. CASE resolve_and_eval(c) BY <1>4, <1>t, <1>l, <1>n DEF resolve_and_eval, After, Phase
<1>5. CASE resolve_judge(c) BY <1>5, <1>t, <1>l, <1>n DEF resolve_judge, After, Phase
<1>6. CASE Refuse(c) BY <1>6, <1>t, <1>l, <1>n DEF Refuse
<1>7. CASE OpenTunnel(c) BY <1>7, <1>t, <1>l, <1>n DEF OpenTunnel
<1>8. CASE LookupLeaf(c) BY <1>8, <1>t, <1>l, <1>n DEF LookupLeaf
<1>9. CASE InsertLeaf(c) BY <1>9, <1>t, <1>l, <1>n DEF InsertLeaf
<1>10. CASE Handshake(c) BY <1>10, <1>t, <1>l, <1>n DEF Handshake
<1>11. CASE ReadInner(c) BY <1>11, <1>t, <1>l, <1>n DEF ReadInner
<1>12. CASE ConnectUpstream(c) BY <1>12, <1>t, <1>l, <1>n DEF ConnectUpstream
<1>13. CASE UpstreamTls(c) BY <1>13, <1>t, <1>l, <1>n DEF UpstreamTls
<1>14. CASE TimeOut(c) BY <1>14, <1>t, <1>l, <1>n DEF TimeOut
<1>15. CASE Forward(c) BY <1>15, <1>t, <1>l, <1>n DEF Forward
<1>16. CASE LogForwarded(c) BY <1>16, <1>t, <1>l, <1>n DEF LogForwarded
<1>17. CASE EndCopy(c) BY <1>17, <1>t, <1>l, <1>n DEF EndCopy
<1> QED BY <1>1, <1>2, <1>3, <1>4, <1>5, <1>6, <1>7, <1>8, <1>9, <1>10, <1>11, <1>12, <1>13, <1>14, <1>15, <1>16, <1>17 DEF Step, TaskStep, PeerStep
\* An entry as log_decision writes it.
EntryOf(c, decision) ==
    [conn |-> c, phase |-> Phase(c), method |-> Current(c).method, host |-> req[c].host,
     path |-> Current(c).path, decision |-> decision]

LEMMA EntryType ==
    ASSUME Lives, NEW c \in Conn, req[c] # None, NEW decision \in {"Allow", "Deny"}
    PROVE  EntryOf(c, decision) \in Entry
<1>1. req[c] \in [method : Method \cup {"other"}, host : Str, path : Str]
  BY ProxyAssumption DEF Lives, TypeOK
<1>2. inner[c] # None => inner[c] \in [method : Method \cup {"other"}, host : Str, path : Str]
  BY ProxyAssumption DEF Lives, TypeOK
<1>3. ASSUME NEW h \in [method : Method \cup {"other"}, host : Str, path : Str]
      PROVE  RequestIn(c, h).method \in Method /\ RequestIn(c, h).path \in Str
  BY <1>3, ProxyAssumption DEF RequestIn, parse_method, Method
<1>4. Current(c).method \in Method /\ Current(c).path \in Str BY <1>1, <1>2, <1>3 DEF Current
<1>5. Phase(c) \in {"plain", "connect", "inner"} BY DEF Phase
<1> QED BY <1>1, <1>4, <1>5 DEF EntryOf, Entry

\* The log only grows, by an entry of the task that takes the step.
LogStep(c) ==
    \/ UNCHANGED audit
    \/ /\ pc[c] \in {"refuse", "tunnel", "log"}
       /\ audit' = Append(audit, EntryOf(c, IF pc[c] = "refuse" THEN "Deny" ELSE "Allow"))

LEMMA StepLogs == ASSUME NEW c \in Conn, Step(c) PROVE LogStep(c)
<1>1. Refuse(c) \/ OpenTunnel(c) \/ LogForwarded(c) => LogStep(c)
  BY DEF Refuse, OpenTunnel, LogForwarded, LogStep, log_decision, EntryOf
<1>2. \/ ResolveFails(c) \/ resolve_and_eval(c) \/ resolve_judge(c) \/ LookupLeaf(c) \/ InsertLeaf(c)
      \/ TimeOut(c) \/ Forward(c) \/ PeerStep(c)
      => UNCHANGED audit
  BY DEF ResolveFails, resolve_and_eval, resolve_judge, LookupLeaf, InsertLeaf, TimeOut, Forward, PeerStep,
         Accept, ReadHead, Handshake, ReadInner, ConnectUpstream, UpstreamTls, EndCopy
<1> QED BY <1>1, <1>2 DEF Step, TaskStep, LogStep

LEMMA StepType == ASSUME Lives, NEW c \in Conn, Step(c) PROVE TypeOK'
<1>t. /\ pc \in [Conn -> Places] /\ req \in [Conn -> FirstHead \cup {None}]
      /\ inner \in [Conn -> Inner \cup {None}] /\ ip \in [Conn -> Addr \cup {None}]
      /\ up \in [Conn -> Addr \cup {None}] /\ sent \in [Conn -> BOOLEAN]
  BY DEF Lives, TypeOK
<1>a. action \in [Conn -> Action \cup {None}] BY DEF Lives, TypeOK
<1>f. leaf \in [Conn -> Leaf \cup {None}] /\ cache \in [Str -> Leaf \cup {None}] BY DEF Lives, TypeOK
<1>p. policy \in Policy /\ policy.fallback \in Action /\ policy.default_action \in Action
  BY DEF Lives, TypeOK, Policy
<1>d. "Allow" \in Action /\ "Deny" \in Action BY DEF Action
<1>e. \A q : Decided(evaluate(policy, q)) \in Action \cup {None} BY <1>p, EvaluateType DEF Decided
<1>l. /\ pc[c] \notin {"idle", "head", "done"} => req[c] # None
  BY DEF Lives, Life
<1>1. audit' \in Seq(Entry)
  <2>1. audit \in Seq(Entry) BY DEF Lives, TypeOK
  <2>2. CASE UNCHANGED audit BY <2>1, <2>2
  <2>3. CASE /\ pc[c] \in {"refuse", "tunnel", "log"}
             /\ audit' = Append(audit, EntryOf(c, IF pc[c] = "refuse" THEN "Deny" ELSE "Allow"))
    <3>1. EntryOf(c, IF pc[c] = "refuse" THEN "Deny" ELSE "Allow") \in Entry BY <1>l, <2>3, EntryType
    <3> QED BY <2>1, <2>3, <3>1
  <2> QED BY <2>2, <2>3, StepLogs DEF LogStep
<1>2. pc' \in [Conn -> Places]
  <2>1. \A x : After(c, x) \in Places BY DEF After, Places
  <2>2. CASE resolve_and_eval(c) \/ resolve_judge(c) BY <1>t, <2>1, <2>2 DEF resolve_and_eval, resolve_judge, Goto
  <2>3. CASE ~(resolve_and_eval(c) \/ resolve_judge(c))
    BY <1>t, <2>3 DEF Step, TaskStep, PeerStep, Goto, Places, Accept, ReadHead, ResolveFails, Refuse, OpenTunnel,
       LookupLeaf, InsertLeaf, Handshake, ReadInner, ConnectUpstream, UpstreamTls, TimeOut, Forward, LogForwarded, EndCopy
  <2> QED BY <2>2, <2>3
<1>3. action' \in [Conn -> Action \cup {None}]
  BY <1>a, <1>p, <1>d, <1>e DEF Step, TaskStep, PeerStep, Accept, ReadHead, ResolveFails, resolve_and_eval, resolve_judge,
       judge_outcomes, Refuse, OpenTunnel, LookupLeaf, InsertLeaf, Handshake, ReadInner, ConnectUpstream, UpstreamTls,
       TimeOut, Forward, LogForwarded, EndCopy
<1>4. leaf' \in [Conn -> Leaf \cup {None}] /\ cache' \in [Str -> Leaf \cup {None}]
  <2>1. pc[c] \in {"leaf", "generate"} => req[c].host \in Str BY <1>l, <1>t, ProxyAssumption
  <2>2. CASE LookupLeaf(c)
    <3>1. cache[req[c].host] \in Leaf \cup {None} BY <1>f, <2>1, <2>2 DEF LookupLeaf
    <3> QED BY <1>f, <2>2, <3>1 DEF LookupLeaf
  <2>3. CASE InsertLeaf(c)
    <3>1. [host |-> req[c].host, by |-> c] \in Leaf BY <2>1, <2>3 DEF InsertLeaf, Leaf
    <3> QED BY <1>f, <2>1, <2>3, <3>1 DEF InsertLeaf
  <2>4. CASE ~(LookupLeaf(c) \/ InsertLeaf(c))
    BY <1>f, <2>4 DEF Step, TaskStep, PeerStep, Accept, ReadHead, ResolveFails, resolve_and_eval, resolve_judge,
       Refuse, OpenTunnel, Handshake, ReadInner, ConnectUpstream, UpstreamTls, TimeOut, Forward, LogForwarded, EndCopy
  <2> QED BY <2>2, <2>3, <2>4
<1>5. /\ req' \in [Conn -> FirstHead \cup {None}] /\ inner' \in [Conn -> Inner \cup {None}]
      /\ ip' \in [Conn -> Addr \cup {None}] /\ up' \in [Conn -> Addr \cup {None}] /\ sent' \in [Conn -> BOOLEAN]
  BY <1>t, ZenonT(60) DEF Step, TaskStep, PeerStep, Accept, ReadHead, ResolveFails, resolve_and_eval, resolve_judge,
       Refuse, OpenTunnel, LookupLeaf, InsertLeaf, Handshake, ReadInner, ConnectUpstream, UpstreamTls, TimeOut,
       Forward, LogForwarded, EndCopy
<1>6. UNCHANGED <<policy, handle, report>>
  BY DEF Step, TaskStep, PeerStep, Accept, ReadHead, ResolveFails, resolve_and_eval, resolve_judge,
       Refuse, OpenTunnel, LookupLeaf, InsertLeaf, Handshake, ReadInner, ConnectUpstream, UpstreamTls, TimeOut,
       Forward, LogForwarded, EndCopy
<1> QED BY <1>1, <1>2, <1>3, <1>4, <1>5, <1>6 DEF Lives, TypeOK
LEMMA InitLives == Init => Lives
<1> SUFFICES ASSUME Init PROVE Lives OBVIOUS
<1>1. policy \in Policy BY ProxyAssumption, CompileType DEF Init
<1>2. TypeOK BY <1>1 DEF Init, TypeOK, Places
<1>3. \A c \in Conn : Life(c) BY ProxyAssumption DEF Init, Life, InTunnel, Admitted, Action
<1> QED BY <1>2, <1>3 DEF Lives

LEMMA NextLives == ASSUME Lives, [Next]_vars PROVE Lives'
<1>1. ASSUME NEW c \in Conn, Step(c) PROVE Lives'
  <2>1. TypeOK' BY <1>1, StepType
  <2>2. Life(c)' BY <1>1, LifeStep
  <2>3. ASSUME NEW d \in Conn, d # c PROVE Life(d)'
    <3>1. Same(d) /\ Life(d) BY <1>1, <2>3, StepFrame DEF Lives
    <3> QED BY <3>1 DEF Same, Life, IsConnect
  <2> QED BY <2>1, <2>2, <2>3 DEF Lives
<1>2. CASE drain_audit_log
  BY <1>2 DEF drain_audit_log, conns, Lives, TypeOK, Life, IsConnect
<1>3. CASE UNCHANGED vars
  BY <1>3 DEF vars, conns, Lives, TypeOK, Life, IsConnect
<1> QED BY <1>1, <1>2, <1>3 DEF Next, Step

\* Every variable of the proxy keeps its type; in particular every decision is
\* an action and every logged entry that of a request that was read.
THEOREM TypeCorrect == Spec => []TypeOK
<1>1. Lives => TypeOK BY DEF Lives
<1> QED BY <1>1, InitLives, NextLives, PTL DEF Spec

LEMMA AlwaysLives == Spec => []Lives
BY InitLives, NextLives, PTL DEF Spec
-----------------------------------------------------------------------------
(* What is connected to *)

\* The address is not blocked, and no rule refuses the request or its tunnel.
Safe(c) ==
    /\ ip[c] \in Addr /\ (policy.block_private_networks => ~is_private_or_metadata(ip[c]))
    /\ evaluate(policy, RequestIn(c, req[c])) # "Deny"
    /\ inner[c] # None => evaluate(policy, RequestIn(c, inner[c])) # "Deny"

Vet(c) ==
    /\ pc[c] \in Going => Safe(c)
    /\ up[c] # None => /\ Safe(c) /\ up[c] = ip[c] /\ action[c] # "Deny"
                       /\ IsConnect(c) => inner[c] # None

LEMMA SameVet == ASSUME NEW d \in Conn, Same(d), UNCHANGED policy, Vet(d) PROVE Vet(d)'
BY DEF Same, Vet, Safe, RequestIn, IsConnect

LEMMA VetStep ==
    ASSUME Lives, NEW c \in Conn, Step(c), Vet(c) PROVE Vet(c)'
<1>t. /\ pc \in [Conn -> Places] /\ req \in [Conn -> FirstHead \cup {None}]
      /\ inner \in [Conn -> Inner \cup {None}] /\ ip \in [Conn -> Addr \cup {None}]
      /\ action \in [Conn -> Action \cup {None}] /\ up \in [Conn -> Addr \cup {None}]
  BY DEF Lives, TypeOK
<1>l. Life(c) BY DEF Lives
<1>p. UNCHANGED policy
  BY DEF Step, TaskStep, PeerStep, Accept, ReadHead, ResolveFails, resolve_and_eval, resolve_judge,
       Refuse, OpenTunnel, LookupLeaf, InsertLeaf, Handshake, ReadInner, ConnectUpstream, UpstreamTls, TimeOut,
       Forward, LogForwarded, EndCopy
<1>n. None \notin FirstHead /\ None \notin Inner /\ None \notin Addr /\ None # "Deny"
  BY ProxyAssumption DEF Action
<1>1. CASE UNCHANGED <<req, inner, ip, action, up>> /\ (pc'[c] \in Going => pc[c] \in Going)
  BY <1>1, <1>p DEF Vet, Safe, RequestIn, IsConnect
<1>2. CASE ReadHead(c) BY <1>2, <1>t, <1>l DEF ReadHead, Goto, Vet, Going, InTunnel, Admitted, Life
<1>3. CASE ResolveFails(c) BY <1>3, <1>t, <1>l DEF ResolveFails, Goto, Vet, Going, InTunnel, Admitted, Life
<1>4. CASE resolve_and_eval(c)
  <2>1. up'[c] = None BY <1>4, <1>l DEF resolve_and_eval, Life
  <2>2. UNCHANGED <<req, inner>> /\ inner[c] = None BY <1>4, <1>l DEF resolve_and_eval, Life
  <2>3. PICK a \in Addr :
          LET verdict == IF policy.block_private_networks /\ is_private_or_metadata(a) THEN "Deny"
                         ELSE Decided(evaluate(policy, Current(c)))
          IN  ip' = [ip EXCEPT ![c] = a] /\ pc' = [pc EXCEPT ![c] = After(c, verdict)]
    BY <1>4 DEF resolve_and_eval, Goto
  <2>4. Current(c) = RequestIn(c, req[c]) BY <2>2 DEF Current
  <2>5. RequestIn(c, req[c])' = RequestIn(c, req[c]) BY <2>2 DEF RequestIn
  <2>6. ip'[c] = a BY <2>3, <1>t
  <2>7. CASE policy.block_private_networks /\ is_private_or_metadata(a)
    BY <1>t, <1>n, <2>1, <2>3, <2>7 DEF After, Vet, Going, InTunnel, Admitted
  <2>8. CASE evaluate(policy, Current(c)) = "Deny"
    <3>1. pc'[c] = "refuse" BY <1>t, <1>n, <2>3, <2>8 DEF After, Decided
    <3> QED BY <2>1, <3>1 DEF Vet, Going, InTunnel, Admitted
  <2>9. CASE ~(policy.block_private_networks /\ is_private_or_metadata(a)) /\ evaluate(policy, Current(c)) # "Deny"
    BY <1>p, <2>1, <2>2, <2>4, <2>5, <2>6, <2>9 DEF Vet, Safe
  <2> QED BY <2>7, <2>8, <2>9
<1>5. CASE resolve_judge(c)
  <2>1. UNCHANGED <<req, inner, ip, up>> /\ pc[c] = "judge" BY <1>5 DEF resolve_judge
  <2>2. up[c] = None BY <1>l, <2>1 DEF Life
  <2> QED BY <1>p, <2>1, <2>2 DEF Vet, Safe, RequestIn, Going
<1>6. CASE ReadInner(c)
  <2>1. UNCHANGED <<req, ip, up>> /\ pc[c] = "inner" BY <1>6 DEF ReadInner
  <2>2. up[c] = None /\ Safe(c) /\ req[c] # None BY <1>l, <2>1 DEF Life, Vet, Going, InTunnel
  <2>3. \A h : RequestIn(c, h)' = RequestIn(c, h) BY <2>1 DEF RequestIn
  <2>4. CASE pc'[c] = "done" BY <2>1, <2>2, <2>4 DEF Vet, Going, InTunnel, Admitted
  <2>5. ASSUME NEW h \in Inner,
               LET verdict == Decided(evaluate(policy, RequestIn(c, h)))
               IN  /\ inner' = [inner EXCEPT ![c] = h]
                   /\ pc' = [pc EXCEPT ![c] = IF verdict = None THEN "judge" ELSE IF verdict = "Deny" THEN "refuse" ELSE "connect"]
        PROVE  Vet(c)'
    <3>1. inner'[c] = h BY <1>t, <2>5
    <3>2. CASE evaluate(policy, RequestIn(c, h)) = "Deny"
      <4>1. pc'[c] = "refuse" BY <1>t, <1>n, <2>5, <3>2 DEF Decided
      <4> QED BY <2>1, <2>2, <4>1 DEF Vet, Going, InTunnel, Admitted
    <3>3. CASE evaluate(policy, RequestIn(c, h)) # "Deny"
      BY <1>p, <2>1, <2>2, <2>3, <3>1, <3>3 DEF Vet, Safe
    <3> QED BY <3>2, <3>3
  <2> QED BY <1>6, <1>t, <2>4, <2>5 DEF ReadInner, Goto
<1>7. CASE ConnectUpstream(c)
  <2>1. UNCHANGED <<req, inner, ip, action>> /\ pc[c] = "connect" BY <1>7 DEF ConnectUpstream
  <2>2. Safe(c) /\ up[c] = None /\ action[c] # "Deny" /\ (IsConnect(c) => inner[c] # None)
    BY <1>l, <2>1 DEF Vet, Life, Going, Admitted
  <2>3. up'[c] \in {None, ip[c]} BY <1>7, <1>t, <2>2 DEF ConnectUpstream
  <2>4. Safe(c)' /\ IsConnect(c)' = IsConnect(c) BY <1>p, <2>1, <2>2 DEF Safe, RequestIn, IsConnect
  <2> QED BY <2>1, <2>2, <2>3, <2>4 DEF Vet
<1>8. CASE \/ Accept(c) \/ Refuse(c) \/ OpenTunnel(c) \/ LookupLeaf(c) \/ InsertLeaf(c) \/ Handshake(c)
           \/ UpstreamTls(c) \/ TimeOut(c) \/ Forward(c) \/ LogForwarded(c) \/ EndCopy(c)
  <2>1. UNCHANGED <<req, inner, ip, action, up>>
    BY <1>8 DEF Accept, Refuse, OpenTunnel, LookupLeaf, InsertLeaf, Handshake, UpstreamTls, TimeOut, Forward,
                LogForwarded, EndCopy
  <2>2. pc'[c] \in Going => pc[c] \in Going
    BY <1>8, <1>t DEF Accept, Refuse, OpenTunnel, LookupLeaf, InsertLeaf, Handshake, UpstreamTls, TimeOut, Forward,
                LogForwarded, EndCopy, Goto, Going, InTunnel, Admitted
  <2> QED BY <1>1, <2>1, <2>2
<1> QED BY <1>2, <1>3, <1>4, <1>5, <1>6, <1>7, <1>8 DEF Step, TaskStep, PeerStep
LEMMA NextVet ==
    ASSUME Lives, \A c \in Conn : Vet(c), [Next]_vars PROVE \A c \in Conn : Vet(c)'
<1>1. ASSUME NEW c \in Conn, Step(c), NEW d \in Conn PROVE Vet(d)'
  <2>1. CASE d = c BY <1>1, <2>1, VetStep
  <2>2. CASE d # c
    <3>1. Same(d) /\ UNCHANGED policy BY <1>1, <2>2, StepFrame DEF Lives
    <3> QED BY <3>1, SameVet
  <2> QED BY <2>1, <2>2
<1>2. CASE drain_audit_log \/ UNCHANGED vars
  BY <1>2 DEF drain_audit_log, vars, conns, Vet, Safe, RequestIn, IsConnect
<1> QED BY <1>1, <1>2 DEF Next, Step

\* The proxy connects to the address the guard looked at, which is in none of
\* the documented networks if these are blocked, for a request that neither a
\* rule nor the judge has refused, before a tunnel as within it.
THEOREM UpstreamIsVetted == Spec => []UpstreamVetted
<1>1. Init => \A c \in Conn : Vet(c) BY DEF Init, Vet, Going, InTunnel, Admitted
<1>2. ASSUME Lives, NEW c \in Conn, Vet(c), up[c] # None
      PROVE  /\ up[c] = ip[c]
             /\ policy.block_private_networks => ~InDocumentedNet(up[c])
             /\ action[c] # "Deny" /\ evaluate(policy, Current(c)) # "Deny"
             /\ IsConnect(c) => inner[c] # None /\ evaluate(policy, RequestIn(c, req[c])) # "Deny"
  <2>1. Safe(c) /\ up[c] = ip[c] /\ action[c] # "Deny" /\ (IsConnect(c) => inner[c] # None) BY <1>2 DEF Vet
  <2>2. policy.block_private_networks => ~InDocumentedNet(up[c])
    BY <2>1, Guard, ProxyAssumption DEF Safe
  <2>3. evaluate(policy, Current(c)) # "Deny" BY <2>1 DEF Safe, Current
  <2> QED BY <2>1, <2>2, <2>3 DEF Safe
<1>3. Lives /\ (\A c \in Conn : Vet(c)) => UpstreamVetted BY <1>2 DEF UpstreamVetted
<1>4. Lives /\ (\A c \in Conn : Vet(c)) /\ [Next]_vars => (\A c \in Conn : Vet(c))' BY NextVet
<1> QED BY <1>1, <1>3, <1>4, AlwaysLives, PTL DEF Spec
-----------------------------------------------------------------------------
(* Only what is allowed *)

\* A policy that leaves no decision at Judge: without a judge the default action
\* answers in its place, with one the fallback may.
Resolves(p) == IF p.judge THEN p.fallback # "Judge" ELSE p.default_action # "Judge"

Granted(c) ==
    /\ pc[c] = "judge" => policy.judge
    /\ pc[c] \in InTunnel \cup Admitted => action[c] = "Allow"
    /\ up[c] # None => action[c] = "Allow"

GrantInv == Resolves(policy) /\ \A c \in Conn : Granted(c)

\* A decision that is not left to the judge is Allow or Deny.
LEMMA DecidedIsFinal ==
    ASSUME Resolves(policy), policy \in Policy, NEW q
    PROVE  /\ Decided(evaluate(policy, q)) \in {None, "Allow", "Deny"}
           /\ Decided(evaluate(policy, q)) = None => policy.judge
<1>1. evaluate(policy, q) \in Action /\ policy.default_action \in Action BY EvaluateType DEF Policy
<1>2. None \notin Action BY ProxyAssumption
<1> QED BY <1>1, <1>2 DEF Decided, Resolves, Action

LEMMA GrantStep ==
    ASSUME Lives, Resolves(policy), NEW c \in Conn, Step(c), UNCHANGED policy, Granted(c) PROVE Granted(c)'
<1>t. /\ pc \in [Conn -> Places] /\ action \in [Conn -> Action \cup {None}]
      /\ up \in [Conn -> Addr \cup {None}]
  BY DEF Lives, TypeOK
<1>l. Life(c) BY DEF Lives
<1>d. \A q : /\ Decided(evaluate(policy, q)) \in {None, "Allow", "Deny"}
             /\ Decided(evaluate(policy, q)) = None => policy.judge
  BY DecidedIsFinal DEF Lives, TypeOK
<1>n. None # "Allow" /\ None # "Deny" BY ProxyAssumption DEF Action
\* Where a decision leads.
<1>a. ASSUME NEW v \in {None, "Allow", "Deny"}, v = None => policy.judge, up'[c] = None,
             action' = [action EXCEPT ![c] = v],
             pc'[c] = IF v = None THEN "judge" ELSE IF v = "Deny" THEN "refuse" ELSE pc'[c], pc'[c] = "judge" => v = None
      PROVE  Granted(c)'
  BY <1>t, <1>n, <1>a DEF Granted, InTunnel, Admitted
<1>1. CASE resolve_and_eval(c)
  <2>1. up'[c] = None BY <1>1, <1>l DEF resolve_and_eval, Life
  <2>2. PICK v \in {None, "Allow", "Deny"} :
          /\ v = None => policy.judge
          /\ action' = [action EXCEPT ![c] = v] /\ pc' = [pc EXCEPT ![c] = After(c, v)]
    BY <1>1, <1>d, <1>n DEF resolve_and_eval, Goto
  <2> QED BY <1>t, <1>n, <1>a, <2>1, <2>2 DEF After
<1>2. CASE resolve_judge(c)
  <2>1. up'[c] = None /\ policy.judge BY <1>2, <1>l DEF resolve_judge, Life, Granted
  <2>2. judge_outcomes \subseteq {"Allow", "Deny"}
    BY <2>1 DEF Resolves, Lives, TypeOK, Policy, Action, judge_outcomes
  <2>3. PICK v \in {None, "Allow", "Deny"} :
          action' = [action EXCEPT ![c] = v] /\ pc' = [pc EXCEPT ![c] = After(c, v)]
    BY <1>2, <2>2 DEF resolve_judge, Goto
  <2> QED BY <1>t, <1>n, <1>a, <2>1, <2>3 DEF After
<1>3. CASE ReadInner(c)
  <2>1. up'[c] = None /\ UNCHANGED up BY <1>3, <1>l DEF ReadInner, Life
  <2>2. CASE pc'[c] = "done" BY <2>1, <2>2 DEF Granted, InTunnel, Admitted
  <2>3. ASSUME NEW h \in Inner,
               LET verdict == Decided(evaluate(policy, RequestIn(c, h)))
               IN  /\ action' = [action EXCEPT ![c] = verdict]
                   /\ pc' = [pc EXCEPT ![c] = IF verdict = None THEN "judge" ELSE IF verdict = "Deny" THEN "refuse" ELSE "connect"]
        PROVE  Granted(c)'
    BY <1>t, <1>n, <1>a, <1>d, <2>1, <2>3
  <2> QED BY <1>3, <1>t, <2>2, <2>3 DEF ReadInner, Goto
<1>4. CASE ConnectUpstream(c)
  BY <1>4, <1>t DEF ConnectUpstream, Goto, Granted, InTunnel, Admitted
<1>5. CASE ResolveFails(c)
  BY <1>5, <1>t, <1>l DEF ResolveFails, Goto, Granted, Life, InTunnel, Admitted
<1>6. CASE \/ Accept(c) \/ ReadHead(c) \/ Refuse(c) \/ OpenTunnel(c) \/ LookupLeaf(c) \/ InsertLeaf(c) \/ Handshake(c)
           \/ UpstreamTls(c) \/ TimeOut(c) \/ Forward(c) \/ LogForwarded(c) \/ EndCopy(c)
  BY <1>6, <1>t DEF Accept, ReadHead, Refuse, OpenTunnel, LookupLeaf, InsertLeaf, Handshake, UpstreamTls, TimeOut,
                    Forward, LogForwarded, EndCopy, Goto, Granted, InTunnel, Admitted
<1> QED BY <1>1, <1>2, <1>3, <1>4, <1>5, <1>6 DEF Step, TaskStep, PeerStep

\* If no policy leaves a decision at Judge, only a request that was allowed
\* reaches an upstream, as the comment of proxy.rs has it; the run egress_unjudged
\* shows what happens to a policy with neither a judge nor a default that decides.
THEOREM OnlyAllowedIsForwarded ==
    ASSUME \A p \in Policies : Resolves(p) PROVE Spec => []ForwardsOnlyAllowed
<1>1. Init => GrantInv
  <2> SUFFICES ASSUME Init PROVE GrantInv OBVIOUS
  <2>1. PICK p \in Policies : policy = compile(p) BY DEF Init
  <2>2. p \in Policy /\ Resolves(p) BY ProxyAssumption
  <2>3. Resolves(policy) BY <2>1, <2>2 DEF Resolves, compile, Policy
  <2>4. \A c \in Conn : Granted(c) BY DEF Init, Granted, InTunnel, Admitted
  <2> QED BY <2>3, <2>4 DEF GrantInv
<1>2. ASSUME Lives, GrantInv, NEW c \in Conn, Step(c) PROVE GrantInv'
  <2>1. UNCHANGED policy
    BY <1>2 DEF Step, TaskStep, PeerStep, Accept, ReadHead, ResolveFails, resolve_and_eval, resolve_judge,
       Refuse, OpenTunnel, LookupLeaf, InsertLeaf, Handshake, ReadInner, ConnectUpstream, UpstreamTls, TimeOut,
       Forward, LogForwarded, EndCopy
  <2>2. Granted(c)' BY <1>2, <2>1, GrantStep DEF GrantInv
  <2>3. ASSUME NEW d \in Conn, d # c PROVE Granted(d)'
    <3>1. Same(d) /\ Granted(d) BY <1>2, <2>3, StepFrame DEF Lives, GrantInv
    <3> QED BY <2>1, <3>1 DEF Same, Granted
  <2> QED BY <1>2, <2>1, <2>2, <2>3 DEF GrantInv, Resolves
<1>3. ASSUME GrantInv, drain_audit_log \/ UNCHANGED vars PROVE GrantInv'
  BY <1>3 DEF drain_audit_log, vars, conns, GrantInv, Granted, Resolves
<1>4. Lives /\ GrantInv /\ [Next]_vars => GrantInv' BY <1>2, <1>3 DEF Next, Step
<1>5. GrantInv => ForwardsOnlyAllowed BY DEF GrantInv, Granted, ForwardsOnlyAllowed
<1> QED BY <1>1, <1>4, <1>5, AlwaysLives, PTL DEF Spec
-----------------------------------------------------------------------------
(* A task ends *)

\* How many steps the task of c can still take, at most: a bound for its life,
\* from the accept to the end of the copying.
StepsLeft(c) ==
    CASE pc[c] = "idle" -> 16
      [] pc[c] = "head" -> 15
      [] pc[c] = "resolve" -> 14
      [] pc[c] = "judge" -> IF inner[c] = None THEN 13 ELSE 7
      [] pc[c] = "tunnel" -> 12
      [] pc[c] = "leaf" -> 11
      [] pc[c] = "generate" -> 10
      [] pc[c] = "handshake" -> 9
      [] pc[c] = "inner" -> 8
      [] pc[c] = "connect" -> 6
      [] pc[c] = "tls" -> 5
      [] pc[c] = "forward" -> 4
      [] pc[c] = "log" -> 3
      [] pc[c] = "copy" -> 2
      [] pc[c] = "refuse" -> 1
      [] pc[c] = "done" -> 0

\* No step of a task returns to a decision that was taken, and none of another
\* task, or of destroy, sets it back.
TaskAdvances ==
    [][\A c \in Conn : \/ StepsLeft(c)' < StepsLeft(c)
                       \/ StepsLeft(c)' = StepsLeft(c) /\ Same(c)]_vars

LEMMA StepAdvances ==
    ASSUME Lives, NEW c \in Conn, Step(c) PROVE StepsLeft(c)' < StepsLeft(c)
<1>t. pc \in [Conn -> Places] /\ inner \in [Conn -> Inner \cup {None}] BY DEF Lives, TypeOK
<1>l. Life(c) BY DEF Lives
<1>n. None \notin Inner BY ProxyAssumption
<1>1. CASE resolve_and_eval(c)
  <2>1. pc[c] = "resolve" /\ inner'[c] = None /\ pc'[c] \in {"judge", "refuse", "tunnel", "connect"}
    BY <1>1, <1>t, <1>l DEF resolve_and_eval, Goto, After, Life
  <2> QED BY <2>1 DEF StepsLeft
<1>2. CASE resolve_judge(c)
  <2>1. /\ pc[c] = "judge" /\ inner'[c] = inner[c]
        /\ pc'[c] \in {"refuse", "connect"} \/ (pc'[c] = "tunnel" /\ inner[c] = None)
    <3>1. PICK a \in judge_outcomes : pc'[c] = After(c, a) BY <1>2, <1>t DEF resolve_judge, Goto
    <3>2. a \in Action /\ a # None BY ProxyAssumption DEF judge_outcomes, Lives, TypeOK, Policy, Action
    <3> QED BY <1>2, <3>1, <3>2 DEF resolve_judge, After, Phase
  <2> QED BY <2>1 DEF StepsLeft
<1>3. CASE ReadInner(c)
  <2>1. /\ pc[c] = "inner"
        /\ \/ pc'[c] \in {"refuse", "connect", "done"}
           \/ pc'[c] = "judge" /\ inner'[c] # None
    BY <1>3, <1>t, <1>n DEF ReadInner, Goto
  <2> QED BY <2>1 DEF StepsLeft
<1>4. CASE TaskStep(c) /\ ~resolve_and_eval(c) /\ ~resolve_judge(c)
  BY <1>4, <1>t DEF TaskStep, ResolveFails, Refuse, OpenTunnel, LookupLeaf, InsertLeaf, TimeOut, Forward, LogForwarded,
                    Goto, StepsLeft
<1>5. CASE PeerStep(c) /\ ~ReadInner(c)
  BY <1>5, <1>t DEF PeerStep, Accept, ReadHead, Handshake, ConnectUpstream, UpstreamTls, EndCopy, Goto, StepsLeft
<1> QED BY <1>1, <1>2, <1>3, <1>4, <1>5 DEF Step

\* The task of a connection takes at most sixteen steps: together with the fact
\* that every place which waits for a peer under a time limit has a step of its
\* own, TimeOut, this is the safety half of DecisionEnds.
THEOREM TasksAreBounded ==
    Spec => [](\A c \in Conn : StepsLeft(c) \in 0 .. 16) /\ TaskAdvances
<1>1. Lives => \A c \in Conn : StepsLeft(c) \in 0 .. 16 BY DEF Lives, TypeOK, Places, StepsLeft
<1>2. ASSUME Lives, [Next]_vars, NEW d \in Conn
      PROVE  StepsLeft(d)' < StepsLeft(d) \/ (StepsLeft(d)' = StepsLeft(d) /\ Same(d))
  <2>1. ASSUME NEW c \in Conn, Step(c), c # d PROVE Same(d) BY <1>2, <2>1, StepFrame DEF Lives
  <2>2. ASSUME drain_audit_log \/ UNCHANGED vars PROVE Same(d) BY <2>2 DEF drain_audit_log, vars, conns, Same
  <2>3. Same(d) => StepsLeft(d)' = StepsLeft(d) BY DEF Same, StepsLeft
  <2>4. Step(d) => StepsLeft(d)' < StepsLeft(d) BY <1>2, StepAdvances
  <2> QED BY <1>2, <2>1, <2>2, <2>3, <2>4 DEF Next, Step
<1>3. Lives /\ [Next]_vars =>
        [\A c \in Conn : \/ StepsLeft(c)' < StepsLeft(c)
                         \/ StepsLeft(c)' = StepsLeft(c) /\ Same(c)]_vars
  BY <1>2
<1> QED BY <1>1, <1>3, AlwaysLives, PTL DEF Spec, TaskAdvances
-----------------------------------------------------------------------------
(* Certificates *)

\* The maker of a leaf has read its head.
GoodLeaf(l, h) == l.host = h /\ l.by \in Conn /\ pc[l.by] \notin {"idle", "head"} /\ IsConnect(l.by)

LeafInv ==
    /\ \A h \in Str : cache[h] # None => GoodLeaf(cache[h], h)
    /\ \A c \in Conn : leaf[c] # None => pc[c] \notin {"idle", "head"} /\ GoodLeaf(leaf[c], req[c].host)

\* Heads are read once.
LEMMA HeadStays ==
    ASSUME Lives, NEW c \in Conn, Step(c), NEW d \in Conn, pc[d] \notin {"idle", "head"}
    PROVE  pc'[d] \notin {"idle", "head"} /\ req'[d] = req[d]
<1>t. pc \in [Conn -> Places] /\ req \in [Conn -> FirstHead \cup {None}] BY DEF Lives, TypeOK
<1>1. CASE d # c BY <1>1, StepFrame DEF Lives, Same
<1>2. CASE d = c
  BY <1>2, <1>t DEF Step, TaskStep, PeerStep, Goto, After, Accept, ReadHead, ResolveFails, resolve_and_eval,
     resolve_judge, Refuse, OpenTunnel, LookupLeaf, InsertLeaf, Handshake, ReadInner, ConnectUpstream, UpstreamTls,
     TimeOut, Forward, LogForwarded, EndCopy
<1> QED BY <1>1, <1>2

\* GoodLeaf of given values in the next state.
GoodNext(l, h) == l.host = h /\ l.by \in Conn /\ pc'[l.by] \notin {"idle", "head"} /\ req'[l.by].method = "CONNECT"

LEMMA GoodStays ==
    ASSUME Lives, NEW c \in Conn, Step(c), NEW l, NEW h, GoodLeaf(l, h) PROVE GoodNext(l, h)
BY HeadStays DEF GoodLeaf, GoodNext, IsConnect

LEMMA NextLeaf == ASSUME Lives, LeafInv, [Next]_vars PROVE LeafInv'
<1>1. ASSUME NEW c \in Conn, Step(c) PROVE LeafInv'
  <2>t. /\ leaf \in [Conn -> Leaf \cup {None}] /\ cache \in [Str -> Leaf \cup {None}] /\ pc \in [Conn -> Places]
        /\ req \in [Conn -> FirstHead \cup {None}]
    BY DEF Lives, TypeOK
  <2>l. /\ pc[c] \in {"leaf", "generate"} => req[c] # None /\ IsConnect(c)
    BY DEF Lives, Life, InTunnel
  <2>s. pc[c] \in {"leaf", "generate"} => req[c].host \in Str BY <2>l, <2>t, ProxyAssumption
  <2>g. \A l, h : GoodLeaf(l, h) => GoodNext(l, h) BY <1>1, GoodStays
  <2>h. \A d \in Conn : pc[d] \notin {"idle", "head"} => pc'[d] \notin {"idle", "head"} /\ req'[d] = req[d]
    BY <1>1, HeadStays
  <2> DEFINE made == [host |-> req[c].host, by |-> c]
  <2>m. pc[c] = "generate" => GoodLeaf(made, req[c].host) BY <2>l DEF GoodLeaf
  <2> HIDE DEF made
  <2>1. /\ cache' \in {cache, [cache EXCEPT ![req[c].host] = made]}
        /\ cache' # cache => pc[c] = "generate"
    BY <1>1 DEF Step, TaskStep, PeerStep, made, Accept, ReadHead, ResolveFails, resolve_and_eval, resolve_judge, Refuse,
       OpenTunnel, LookupLeaf, InsertLeaf, Handshake, ReadInner, ConnectUpstream, UpstreamTls, TimeOut, Forward,
       LogForwarded, EndCopy
  <2>2. \/ UNCHANGED leaf
        \/ pc[c] = "leaf" /\ leaf' = [leaf EXCEPT ![c] = cache[req[c].host]]
        \/ pc[c] = "generate" /\ leaf' = [leaf EXCEPT ![c] = made]
    BY <1>1 DEF Step, TaskStep, PeerStep, made, Accept, ReadHead, ResolveFails, resolve_and_eval, resolve_judge, Refuse,
       OpenTunnel, LookupLeaf, InsertLeaf, Handshake, ReadInner, ConnectUpstream, UpstreamTls, TimeOut, Forward,
       LogForwarded, EndCopy
  <2>3. ASSUME NEW h \in Str, cache'[h] # None PROVE GoodNext(cache'[h], h)
    <3>1. CASE cache'[h] = cache[h] BY <2>g, <2>3, <3>1 DEF LeafInv
    <3>2. CASE cache'[h] # cache[h]
      <4>1. h = req[c].host /\ cache'[h] = made /\ pc[c] = "generate" BY <2>t, <2>1, <3>2
      <4> QED BY <2>g, <2>m, <4>1
    <3> QED BY <3>1, <3>2
  <2>4. ASSUME NEW d \in Conn, leaf'[d] # None
        PROVE  pc'[d] \notin {"idle", "head"} /\ GoodNext(leaf'[d], req'[d].host)
    <3>1. CASE leaf'[d] = leaf[d]
      <4>1. pc[d] \notin {"idle", "head"} /\ GoodLeaf(leaf[d], req[d].host) BY <2>4, <3>1 DEF LeafInv
      <4> QED BY <2>g, <2>h, <3>1, <4>1
    <3>2. CASE leaf'[d] # leaf[d]
      <4>1. d = c /\ pc[c] \in {"leaf", "generate"} BY <2>t, <2>2, <3>2
      <4>2. GoodLeaf(leaf'[d], req[d].host)
        BY <2>t, <2>2, <2>4, <2>m, <2>s, <3>2, <4>1 DEF LeafInv
      <4> QED BY <2>g, <2>h, <4>1, <4>2
    <3> QED BY <3>1, <3>2
  <2> QED BY <2>3, <2>4 DEF LeafInv, GoodLeaf, GoodNext, IsConnect
<1>2. CASE drain_audit_log \/ UNCHANGED vars
  BY <1>2 DEF drain_audit_log, vars, conns, LeafInv, GoodLeaf, IsConnect
<1> QED BY <1>1, <1>2 DEF Next, Step

\* Whichever task made it, the certificate shown in a tunnel is for its host.
THEOREM LeafIsForHost == Spec => []LeafMatches
<1>1. Init => LeafInv BY DEF Init, LeafInv
<1>2. LeafInv => LeafMatches BY DEF LeafInv, GoodLeaf, LeafMatches
<1> QED BY <1>1, <1>2, NextLeaf, AlwaysLives, PTL DEF Spec
-----------------------------------------------------------------------------
(* The audit log *)

LEMMA AppendFacts ==
    ASSUME NEW s \in Seq(Entry), NEW e \in Entry
    PROVE  /\ DOMAIN s = 1..Len(s) /\ Len(s) \in Nat
           /\ DOMAIN Append(s, e) = 1..(Len(s) + 1)
           /\ \A i \in DOMAIN s : Append(s, e)[i] = s[i]
           /\ Append(s, e)[Len(s) + 1] = e
OBVIOUS

\* Where the task of an entry can be, and what it can have sent.
Fits(e, place, out, tunnel, nested) ==
    /\ e.decision = "Deny" => ~out /\ place = "done"
    /\ e.decision = "Allow" /\ e.phase # "connect" => out /\ place \in {"copy", "done"}
    /\ e.decision = "Allow" /\ e.phase = "connect" =>
         /\ tunnel /\ place \notin {"idle", "head", "resolve", "tunnel"}
         /\ place \in {"judge", "refuse"} => nested

EntryFits(e) == Fits(e, pc[e.conn], sent[e.conn], IsConnect(e.conn), inner[e.conn] # None)
NextFits(e) == Fits(e, pc'[e.conn], sent'[e.conn], req'[e.conn].method = "CONNECT", inner'[e.conn] # None)

Written(c, decision) ==
    \E i \in DOMAIN audit : audit[i].conn = c /\ audit[i].decision = decision /\ audit[i].phase = Phase(c)
Has(c) ==
    /\ pc[c] = "copy" => Written(c, "Allow")
    /\ pc[c] = "done" /\ action[c] = "Deny" /\ IsConnect(c) => Written(c, "Deny")

AuditInv ==
    /\ \A i \in DOMAIN audit : EntryFits(audit[i])
    /\ OneEntryPerPhase
    /\ \A c \in Conn : Has(c)

\* An entry goes on fitting.
LEMMA FitsStays ==
    ASSUME Lives, NEW c \in Conn, Step(c), NEW e \in Entry, EntryFits(e) PROVE NextFits(e)
<1>1. CASE e.conn # c
  <2>1. e.conn \in Conn BY DEF Entry
  <2>2. Same(e.conn) BY <1>1, <2>1, StepFrame DEF Lives
  <2> QED BY <2>2 DEF Same, EntryFits, NextFits, IsConnect
<1>2. CASE e.conn = c
  <2>t. /\ pc \in [Conn -> Places] /\ sent \in [Conn -> BOOLEAN] /\ inner \in [Conn -> Inner \cup {None}]
        /\ req \in [Conn -> FirstHead \cup {None}]
    BY DEF Lives, TypeOK
  <2>n. None \notin Inner BY ProxyAssumption
  <2>1. Fits(e, pc[c], sent[c], IsConnect(c), inner[c] # None) BY <1>2 DEF EntryFits
  <2>2. pc[c] # "done" BY <2>t DEF Step, TaskStep, PeerStep, Accept, ReadHead, ResolveFails, resolve_and_eval, resolve_judge, Refuse,
       OpenTunnel, LookupLeaf, InsertLeaf, Handshake, ReadInner, ConnectUpstream, UpstreamTls, TimeOut, Forward,
       LogForwarded, EndCopy
  <2>3. e.decision # "Deny" BY <2>1, <2>2 DEF Fits
  <2>4. CASE e.phase # "connect"
    <3>1. e.decision = "Allow" => pc[c] = "copy" /\ sent[c] BY <2>1, <2>2, <2>4 DEF Fits
    <3>2. pc[c] = "copy" => pc'[c] = "done" /\ UNCHANGED sent BY <2>t DEF Goto, Step, TaskStep, PeerStep, Accept, ReadHead, ResolveFails, resolve_and_eval, resolve_judge, Refuse,
       OpenTunnel, LookupLeaf, InsertLeaf, Handshake, ReadInner, ConnectUpstream, UpstreamTls, TimeOut, Forward,
       LogForwarded, EndCopy
    <3> QED BY <1>2, <2>3, <2>4, <3>1, <3>2 DEF NextFits, Fits
  <2>5. CASE e.phase = "connect" /\ e.decision = "Allow"
    <3>1. /\ IsConnect(c) /\ pc[c] \notin {"idle", "head", "resolve", "tunnel"}
          /\ pc[c] \in {"judge", "refuse"} => inner[c] # None
      BY <2>1, <2>5 DEF Fits
    <3>2. pc'[c] \notin {"idle", "head"} /\ req'[c] = req[c] BY <3>1, HeadStays
    <3>3. pc[c] \in Admitted => inner[c] # None BY <3>1 DEF Lives, Life
    <3>4. pc'[c] \notin {"resolve", "tunnel"} /\ (pc'[c] \in {"judge", "refuse"} => inner'[c] # None)
      BY <2>t, <2>n, <3>1, <3>3 DEF Goto, After, Phase, Admitted, Step, TaskStep, PeerStep, Accept, ReadHead, ResolveFails, resolve_and_eval, resolve_judge, Refuse,
       OpenTunnel, LookupLeaf, InsertLeaf, Handshake, ReadInner, ConnectUpstream, UpstreamTls, TimeOut, Forward,
       LogForwarded, EndCopy
    <3> QED BY <1>2, <2>5, <3>1, <3>2, <3>4 DEF NextFits, Fits, IsConnect
  <2> QED BY <1>2, <2>3, <2>4, <2>5 DEF NextFits, Fits
<1> QED BY <1>1, <1>2
\* The decision a task logs at a place.
Decision(c) == IF pc[c] = "refuse" THEN "Deny" ELSE "Allow"
Logging(c) == /\ pc[c] \in {"refuse", "tunnel", "log"} /\ EntryOf(c, Decision(c)) \in Entry
              /\ audit' = Append(audit, EntryOf(c, Decision(c)))

LEMMA StepLogging == ASSUME Lives, NEW c \in Conn, Step(c) PROVE UNCHANGED audit \/ Logging(c)
<1>1. pc[c] \in {"refuse", "tunnel", "log"} => req[c] # None BY DEF Lives, Life
<1> QED BY <1>1, StepLogs, EntryType DEF LogStep, Logging, Decision

\* A new entry fits.
LEMMA NewFits == ASSUME Lives, NEW c \in Conn, Step(c), Logging(c) PROVE NextFits(EntryOf(c, Decision(c)))
<1>t. /\ pc \in [Conn -> Places] /\ sent \in [Conn -> BOOLEAN] /\ audit \in Seq(Entry)
  BY DEF Lives, TypeOK
<1>e. audit' # audit
  <2>1. Len(audit') = Len(audit) + 1 /\ Len(audit) \in Nat BY <1>t DEF Logging
  <2> QED BY <2>1
<1>1. /\ EntryOf(c, Decision(c)).conn = c /\ EntryOf(c, Decision(c)).phase = Phase(c)
      /\ EntryOf(c, Decision(c)).decision = Decision(c)
  BY DEF EntryOf
<1>l. Life(c) BY DEF Lives
<1>2. CASE pc[c] = "refuse"
  <2>1. pc'[c] = "done" /\ UNCHANGED sent /\ ~sent[c] BY <1>2, <1>t, <1>l DEF Life, Goto, Step, TaskStep, PeerStep, Accept, ReadHead, ResolveFails, resolve_and_eval, resolve_judge, Refuse,
       OpenTunnel, LookupLeaf, InsertLeaf, Handshake, ReadInner, ConnectUpstream, UpstreamTls, TimeOut, Forward,
       LogForwarded, EndCopy
  <2> QED BY <1>1, <1>2, <2>1 DEF NextFits, Fits, Decision
<1>3. CASE pc[c] = "tunnel"
  <2>1. Phase(c) = "connect" /\ IsConnect(c) BY <1>3, <1>l DEF Life, InTunnel, Phase
  <2>2. pc'[c] \in {"leaf", "done"} /\ UNCHANGED req BY <1>3, <1>t DEF Goto, Step, TaskStep, PeerStep, Accept, ReadHead, ResolveFails, resolve_and_eval, resolve_judge, Refuse,
       OpenTunnel, LookupLeaf, InsertLeaf, Handshake, ReadInner, ConnectUpstream, UpstreamTls, TimeOut, Forward,
       LogForwarded, EndCopy
  <2> QED BY <1>1, <1>3, <2>1, <2>2 DEF NextFits, Fits, Decision, IsConnect
<1>4. CASE pc[c] = "log"
  <2>1. Phase(c) # "connect" /\ sent[c] BY <1>4, <1>l DEF Life, Admitted, Phase
  <2>2. pc'[c] = "copy" /\ UNCHANGED sent BY <1>4, <1>t DEF Goto, Step, TaskStep, PeerStep, Accept, ReadHead, ResolveFails, resolve_and_eval, resolve_judge, Refuse,
       OpenTunnel, LookupLeaf, InsertLeaf, Handshake, ReadInner, ConnectUpstream, UpstreamTls, TimeOut, Forward,
       LogForwarded, EndCopy
  <2> QED BY <1>1, <1>4, <2>1, <2>2 DEF NextFits, Fits, Decision
<1> QED BY <1>2, <1>3, <1>4 DEF Logging

\* An entry logged before by the task that logs now is that of its tunnel.
LEMMA OldEntry ==
    ASSUME Lives, NEW c \in Conn, pc[c] \in {"refuse", "tunnel", "log"}, NEW e \in Entry, e.conn = c, EntryFits(e)
    PROVE  e.phase = "connect" /\ e.decision = "Allow" /\ Phase(c) = "inner"
<1>1. Fits(e, pc[c], sent[c], IsConnect(c), inner[c] # None) BY DEF EntryFits
<1>2. e.decision \in {"Allow", "Deny"} BY DEF Entry
<1>3. e.phase = "connect" /\ e.decision = "Allow" BY <1>1, <1>2 DEF Fits
<1>4. IsConnect(c) /\ pc[c] # "tunnel" /\ (pc[c] = "refuse" => inner[c] # None) BY <1>1, <1>3 DEF Fits
<1>5. pc[c] = "log" => inner[c] # None BY <1>4 DEF Lives, Life, Admitted
<1> QED BY <1>3, <1>4, <1>5 DEF Phase

LEMMA StepAudit ==
    ASSUME Lives, AuditInv, NEW c \in Conn, Step(c) PROVE AuditInv'
<1>t. audit \in Seq(Entry) /\ \A i \in DOMAIN audit : audit[i] \in Entry BY DEF Lives, TypeOK
<1>f. \A i \in DOMAIN audit : NextFits(audit[i]) BY <1>t, FitsStays DEF AuditInv
<1>k. UNCHANGED audit \/ Logging(c) BY StepLogging
<1> DEFINE new == EntryOf(c, Decision(c))
<1>w. new.conn = c /\ new.phase = Phase(c) /\ new.decision = Decision(c) BY DEF EntryOf
<1>a. Logging(c) => /\ DOMAIN audit = 1..Len(audit) /\ Len(audit) \in Nat /\ new \in Entry
                    /\ DOMAIN audit' = 1..(Len(audit) + 1)
                    /\ \A i \in DOMAIN audit : audit'[i] = audit[i]
                    /\ audit'[Len(audit) + 1] = new
  BY <1>t, AppendFacts DEF Logging
<1>1. \A i \in DOMAIN audit' : NextFits(audit'[i])
  <2>1. CASE UNCHANGED audit BY <1>f, <2>1
  <2>2. CASE Logging(c)
    <3>1. NextFits(new) BY <2>2, NewFits
    <3> HIDE DEF new
    <3>2. ASSUME NEW i \in DOMAIN audit' PROVE i \in DOMAIN audit \/ i = Len(audit) + 1 BY <1>a, <2>2
    <3> QED BY <1>a, <1>f, <2>2, <3>1, <3>2
  <2> QED BY <1>k, <2>1, <2>2
<1>2. OneEntryPerPhase'
  <2>1. CASE UNCHANGED audit BY <2>1 DEF AuditInv, OneEntryPerPhase
  <2>2. CASE Logging(c)
    <3> SUFFICES ASSUME NEW i \in DOMAIN audit', NEW j \in DOMAIN audit', audit'[i].conn = audit'[j].conn, i < j
                 PROVE  audit'[i].phase = "connect" /\ audit'[i].decision = "Allow" /\ audit'[j].phase = "inner"
      BY DEF OneEntryPerPhase
    <3> HIDE DEF new
    <3>1. i \in DOMAIN audit /\ (j \in DOMAIN audit \/ j = Len(audit) + 1) BY <1>a, <2>2
    <3>2. CASE j \in DOMAIN audit BY <1>a, <2>2, <3>1, <3>2 DEF AuditInv, OneEntryPerPhase
    <3>3. CASE j = Len(audit) + 1
      <4>1. audit[i] \in Entry /\ audit[i].conn = c /\ audit'[i] = audit[i] /\ audit'[j] = new
        BY <1>a, <1>t, <1>w, <2>2, <3>1, <3>3
      <4>2. EntryFits(audit[i]) BY <3>1 DEF AuditInv
      <4> QED BY <1>w, <2>2, <4>1, <4>2, OldEntry DEF Logging
    <3> QED BY <3>1, <3>2, <3>3
  <2> QED BY <1>k, <2>1, <2>2
<1>o. \A d \in Conn : \A x : Written(d, x) =>
        \E i \in DOMAIN audit' : audit'[i].conn = d /\ audit'[i].decision = x /\ audit'[i].phase = Phase(d)
  <2> HIDE DEF new
  <2>1. Logging(c) => \A i \in DOMAIN audit : i \in DOMAIN audit' BY <1>a
  <2> QED BY <1>a, <1>k, <2>1 DEF Written
<1>3. ASSUME NEW d \in Conn PROVE Has(d)'
  <2>h. Has(d) BY DEF AuditInv
  <2>1. CASE d # c
    <3>1. Same(d) BY <2>1, StepFrame DEF Lives
    <3>2. Phase(d)' = Phase(d) /\ IsConnect(d)' = IsConnect(d) BY <3>1 DEF Same, Phase, IsConnect
    <3> QED BY <1>o, <2>h, <3>1, <3>2 DEF Has, Written, Same
  <2>2. CASE d = c
    <3>t. pc \in [Conn -> Places] /\ action \in [Conn -> Action \cup {None}] BY DEF Lives, TypeOK
    <3>l. Life(c) BY DEF Lives
    <3>n. pc[c] # "done" BY <3>t DEF Step, TaskStep, PeerStep, Accept, ReadHead, ResolveFails, resolve_and_eval, resolve_judge, Refuse,
       OpenTunnel, LookupLeaf, InsertLeaf, Handshake, ReadInner, ConnectUpstream, UpstreamTls, TimeOut, Forward,
       LogForwarded, EndCopy
    <3>1. pc'[c] = "copy" => LogForwarded(c)
      BY <3>t DEF Goto, After, Step, TaskStep, PeerStep, Accept, ReadHead, ResolveFails, resolve_and_eval, resolve_judge, Refuse,
       OpenTunnel, LookupLeaf, InsertLeaf, Handshake, ReadInner, ConnectUpstream, UpstreamTls, TimeOut, Forward,
       LogForwarded, EndCopy
    <3>2. pc'[c] = "done" /\ action'[c] = "Deny" => Refuse(c)
      BY <3>t, <3>l DEF Life, Goto, After, Step, TaskStep, PeerStep, Accept, ReadHead, ResolveFails, resolve_and_eval, resolve_judge, Refuse,
       OpenTunnel, LookupLeaf, InsertLeaf, Handshake, ReadInner, ConnectUpstream, UpstreamTls, TimeOut, Forward,
       LogForwarded, EndCopy
    <3>3. ASSUME LogForwarded(c) PROVE Written(c, "Allow")'
      <4>1. Logging(c) /\ Decision(c) = "Allow" BY <3>3, <1>k, <1>t DEF LogForwarded, log_decision, EntryOf, Logging, Decision
      <4>2. Phase(c)' = Phase(c) BY <3>3 DEF LogForwarded, Phase, IsConnect
      <4>3. Len(audit) + 1 \in DOMAIN audit' BY <1>a, <4>1
      <4> QED BY <1>a, <1>w, <4>1, <4>2, <4>3 DEF Written
    <3>4. ASSUME Refuse(c), IsConnect(c) PROVE Written(c, "Deny")'
      <4>1. Logging(c) /\ Decision(c) = "Deny" BY <3>4, <1>k, <1>t DEF Refuse, log_decision, EntryOf, Logging, Decision
      <4>2. Phase(c)' = Phase(c) BY <3>4 DEF Refuse, Phase, IsConnect
      <4>3. Len(audit) + 1 \in DOMAIN audit' BY <1>a, <4>1
      <4> QED BY <1>a, <1>w, <4>1, <4>2, <4>3 DEF Written
    <3>5. Refuse(c) => IsConnect(c)' = IsConnect(c) BY DEF Refuse, IsConnect
    <3> QED BY <2>2, <3>1, <3>2, <3>3, <3>4, <3>5 DEF Has
  <2> QED BY <2>1, <2>2
<1> QED BY <1>1, <1>2, <1>3 DEF AuditInv, EntryFits, NextFits, IsConnect
LEMMA AlwaysAudit == Spec => []AuditInv
<1>1. Init => AuditInv BY DEF Init, AuditInv, OneEntryPerPhase, Has
<1>2. ASSUME AuditInv, drain_audit_log \/ UNCHANGED vars PROVE AuditInv'
  BY <1>2 DEF drain_audit_log, vars, conns, AuditInv, OneEntryPerPhase, Has, Written, EntryFits, Phase, IsConnect
<1>3. Lives /\ AuditInv /\ [Next]_vars => AuditInv' BY <1>2, StepAudit DEF Next, Step
<1> QED BY <1>1, <1>3, AlwaysLives, PTL DEF Spec

\* What the audit log says of a request is what has happened to it, and it says
\* it once.
THEOREM AuditIsHonest == Spec => []AuditHonest
<1>1. ASSUME Lives, AuditInv PROVE AuditHonest
  <2>1. ASSUME NEW i \in DOMAIN audit
        PROVE  /\ audit[i].decision = "Deny" => ~sent[audit[i].conn] /\ pc[audit[i].conn] = "done"
               /\ audit[i].decision = "Allow" /\ audit[i].phase # "connect" => sent[audit[i].conn]
    BY <1>1, <2>1 DEF AuditInv, EntryFits, Fits
  <2>2. ASSUME NEW c \in Conn, pc[c] = "copy"
        PROVE  \E i \in DOMAIN audit : audit[i].conn = c /\ audit[i].phase # "connect"
    <3>1. Phase(c) # "connect" BY <1>1, <2>2 DEF Lives, Life, Admitted, Phase
    <3> QED BY <1>1, <2>2, <3>1 DEF AuditInv, Has, Written
  <2>3. OneEntryPerPhase BY <1>1 DEF AuditInv
  <2> QED BY <2>1, <2>2, <2>3 DEF AuditHonest
<1> QED BY <1>1, AlwaysLives, AlwaysAudit, PTL

\* The report drained by destroy has every request being carried and every
\* CONNECT that was refused.
THEOREM ReportIsComplete == Spec => ReportComplete
<1>1. ASSUME AuditInv, [Next]_vars, handle' # handle PROVE drain_audit_log
  <2>1. ASSUME NEW c \in Conn, Step(c) PROVE handle' = handle
    BY <2>1 DEF Step, TaskStep, PeerStep, Accept, ReadHead, ResolveFails, resolve_and_eval, resolve_judge, Refuse,
       OpenTunnel, LookupLeaf, InsertLeaf, Handshake, ReadInner, ConnectUpstream, UpstreamTls, TimeOut, Forward,
       LogForwarded, EndCopy
  <2> QED BY <1>1, <2>1 DEF Next, Step, vars
<1>2. ASSUME AuditInv, drain_audit_log, NEW c \in Conn,
             pc[c] = "copy" \/ (pc[c] = "done" /\ action[c] = "Deny" /\ IsConnect(c))
      PROVE  \E i \in DOMAIN report' : report'[i].conn = c
                /\ report'[i].decision = (IF pc[c] = "copy" THEN "Allow" ELSE "Deny")
                /\ report'[i].phase = Phase(c)
  <2>1. report' = audit BY <1>2 DEF drain_audit_log
  <2>2. Written(c, IF pc[c] = "copy" THEN "Allow" ELSE "Deny") BY <1>2 DEF AuditInv, Has
  <2> QED BY <2>1, <2>2 DEF Written
<1>3. AuditInv /\ [Next]_vars => [handle' # handle => \A c \in Conn :
         \/ pc[c] = "copy"
         \/ pc[c] = "done" /\ action[c] = "Deny" /\ IsConnect(c)
         => \E i \in DOMAIN report' : report'[i].conn = c
                /\ report'[i].decision = (IF pc[c] = "copy" THEN "Allow" ELSE "Deny")
                /\ report'[i].phase = Phase(c)]_vars
  BY <1>1, <1>2
<1> QED BY <1>3, AlwaysAudit, PTL DEF Spec, ReportComplete
-----------------------------------------------------------------------------
(* Refinement *)

Last(c) == {i \in DOMAIN audit : audit[i].conn = c /\ (audit[i].phase # "connect" \/ audit[i].decision = "Deny")}

\* An entry that is not the last word on d leaves what is known of d alone.
LEMMA SameLast ==
    ASSUME Lives, NEW c \in Conn, NEW d \in Conn,
           \/ UNCHANGED audit
           \/ Logging(c) /\ (d # c \/ (Phase(c) = "connect" /\ Decision(c) = "Allow"))
    PROVE  LastEntry(d)' = LastEntry(d)
<1>1. CASE UNCHANGED audit BY <1>1 DEF LastEntry
<1>2. CASE Logging(c) /\ (d # c \/ (Phase(c) = "connect" /\ Decision(c) = "Allow"))
  <2> DEFINE new == EntryOf(c, Decision(c))
  <2>w. new.conn = c /\ new.phase = Phase(c) /\ new.decision = Decision(c) BY DEF EntryOf
  <2>a. /\ DOMAIN audit = 1..Len(audit) /\ Len(audit) \in Nat
        /\ DOMAIN audit' = 1..(Len(audit) + 1)
        /\ \A i \in DOMAIN audit : audit'[i] = audit[i]
        /\ audit'[Len(audit) + 1] = new
    BY <1>2, AppendFacts DEF Logging, Lives, TypeOK
  <2> HIDE DEF new
  <2>1. \A i \in DOMAIN audit' : i \in DOMAIN audit \/ i = Len(audit) + 1 BY <2>a
  <2>2. \A i \in DOMAIN audit : i \in DOMAIN audit' BY <2>a
  <2>3. Last(d)' = Last(d) BY <1>2, <2>w, <2>a, <2>1, <2>2 DEF Last
  <2>4. Last(d) # {} => (CHOOSE i \in Last(d) : TRUE) \in DOMAIN audit BY DEF Last
  <2>5. /\ LastEntry(d) = IF Last(d) = {} THEN "none" ELSE audit[CHOOSE i \in Last(d) : TRUE].decision
        /\ LastEntry(d)' = IF Last(d)' = {} THEN "none" ELSE audit'[CHOOSE i \in Last(d)' : TRUE].decision
    BY DEF LastEntry, Last
  <2> QED BY <2>a, <2>3, <2>4, <2>5
<1> QED BY <1>1, <1>2

\* Until then nothing was known, and then it is the decision logged.
LEMMA NewLast ==
    ASSUME Lives, AuditInv, NEW c \in Conn, Logging(c), Phase(c) # "connect" \/ Decision(c) = "Deny"
    PROVE  LastEntry(c) = "none" /\ LastEntry(c)' = Decision(c)
<1> DEFINE new == EntryOf(c, Decision(c))
<1>w. new.conn = c /\ new.phase = Phase(c) /\ new.decision = Decision(c) BY DEF EntryOf
<1>t. \A i \in DOMAIN audit : audit[i] \in Entry BY DEF Lives, TypeOK
<1>a. /\ DOMAIN audit = 1..Len(audit) /\ Len(audit) \in Nat
      /\ DOMAIN audit' = 1..(Len(audit) + 1)
      /\ \A i \in DOMAIN audit : audit'[i] = audit[i]
      /\ audit'[Len(audit) + 1] = new
  BY AppendFacts DEF Logging, Lives, TypeOK
<1> HIDE DEF new
<1>1. Last(c) = {} BY <1>t, OldEntry DEF Last, AuditInv, Logging
<1>2. Last(c)' = {Len(audit) + 1}
  <2>1. ASSUME NEW i \in DOMAIN audit', i # Len(audit) + 1 PROVE i \in DOMAIN audit BY <1>a, <2>1
  <2>2. Len(audit) + 1 \in DOMAIN audit' BY <1>a
  <2> QED BY <1>a, <1>w, <1>1, <2>1, <2>2 DEF Last
<1>3. /\ LastEntry(c) = IF Last(c) = {} THEN "none" ELSE audit[CHOOSE i \in Last(c) : TRUE].decision
      /\ LastEntry(c)' = IF Last(c)' = {} THEN "none" ELSE audit'[CHOOSE i \in Last(c)' : TRUE].decision
  BY DEF LastEntry, Last
<1>4. (CHOOSE i \in Last(c)' : TRUE) = Len(audit) + 1 BY <1>2
<1> QED BY <1>a, <1>w, <1>1, <1>2, <1>3, <1>4
\* The gate as EgressGate sees it.
GateOf(c) == IF pc[c] \in {"tls", "forward", "log", "copy"} THEN "open"
             ELSE IF pc[c] = "done" THEN "closed" ELSE "shut"
Gates == [c \in Conn |-> GateOf(c)]
Entries == [c \in Conn |-> LastEntry(c)]

\* What the step of a task does to the gate.
LEMMA GateStep ==
    ASSUME Lives, AuditInv, NEW c \in Conn, Step(c)
    PROVE  \/ GateOf(c)' = GateOf(c) /\ UNCHANGED sent /\ LastEntry(c)' = LastEntry(c)
           \/ GateOf(c) = "shut" /\ GateOf(c)' = "open" /\ UNCHANGED sent /\ LastEntry(c)' = LastEntry(c)
           \/ /\ GateOf(c) = "open" /\ GateOf(c)' \in {"open", "closed"} /\ sent' = [sent EXCEPT ![c] = TRUE]
              /\ LastEntry(c)' = LastEntry(c)
           \/ /\ GateOf(c) = "open" /\ sent[c] /\ LastEntry(c) = "none" /\ LastEntry(c)' = "Allow"
              /\ GateOf(c)' = "open" /\ UNCHANGED sent
           \/ /\ GateOf(c) # "closed" /\ GateOf(c)' = "closed" /\ UNCHANGED sent
              /\ \/ LastEntry(c)' = LastEntry(c)
                 \/ ~sent[c] /\ LastEntry(c) = "none" /\ LastEntry(c)' = "Deny"
<1>t. pc \in [Conn -> Places] /\ sent \in [Conn -> BOOLEAN] /\ audit \in Seq(Entry) BY DEF Lives, TypeOK
<1>l. Life(c) BY DEF Lives
<1>k. UNCHANGED audit \/ Logging(c) BY StepLogging
<1>u. UNCHANGED audit => LastEntry(c)' = LastEntry(c) BY SameLast
<1>1. CASE Refuse(c)
  <2>1. pc[c] = "refuse" /\ pc'[c] = "done" /\ UNCHANGED sent /\ ~sent[c] BY <1>1, <1>t, <1>l DEF Refuse, Goto, Life
  <2>2. Logging(c) => LastEntry(c) = "none" /\ LastEntry(c)' = "Deny" BY <2>1, NewLast DEF Decision
  <2> QED BY <1>k, <1>u, <2>1, <2>2 DEF GateOf
<1>2. CASE LogForwarded(c)
  <2>1. pc[c] = "log" /\ pc'[c] = "copy" /\ UNCHANGED sent /\ sent[c] BY <1>2, <1>t, <1>l DEF LogForwarded, Goto, Life
  <2>2. Phase(c) # "connect" BY <1>l, <2>1 DEF Life, Admitted, Phase
  <2>3. Logging(c) BY <1>2, <1>k, <1>t DEF LogForwarded, log_decision, EntryOf, Logging, Decision
  <2>4. LastEntry(c) = "none" /\ LastEntry(c)' = "Allow" BY <2>1, <2>2, <2>3, NewLast DEF Decision
  <2> QED BY <2>1, <2>4 DEF GateOf
<1>3. CASE OpenTunnel(c)
  <2>1. pc[c] = "tunnel" /\ pc'[c] \in {"leaf", "done"} /\ UNCHANGED sent BY <1>3, <1>t DEF OpenTunnel, Goto
  <2>2. Phase(c) = "connect" BY <1>l, <2>1 DEF Life, InTunnel, Phase
  <2>3. LastEntry(c)' = LastEntry(c) BY <1>k, <2>1, <2>2, SameLast DEF Decision
  <2> QED BY <2>1, <2>3 DEF GateOf
<1>4. CASE Forward(c)
  <2>1. /\ pc[c] = "forward" /\ pc'[c] \in {"log", "done"} /\ UNCHANGED audit
        /\ sent' = [sent EXCEPT ![c] = TRUE] \/ (UNCHANGED sent /\ pc'[c] = "done")
    BY <1>4, <1>t DEF Forward, Goto
  <2> QED BY <1>u, <2>1 DEF GateOf
<1>5. CASE \/ Accept(c) \/ ReadHead(c) \/ ResolveFails(c) \/ resolve_and_eval(c) \/ resolve_judge(c) \/ LookupLeaf(c)
           \/ InsertLeaf(c) \/ Handshake(c) \/ ReadInner(c) \/ ConnectUpstream(c) \/ UpstreamTls(c) \/ TimeOut(c) \/ EndCopy(c)
  <2>1. UNCHANGED <<audit, sent>>
    BY <1>5 DEF Accept, ReadHead, ResolveFails, resolve_and_eval, resolve_judge, LookupLeaf, InsertLeaf, Handshake,
                ReadInner, ConnectUpstream, UpstreamTls, TimeOut, EndCopy
  <2>2. \/ GateOf(c)' = GateOf(c)
        \/ GateOf(c) = "shut" /\ GateOf(c)' = "open"
        \/ GateOf(c) # "closed" /\ GateOf(c)' = "closed"
    BY <1>5, <1>t DEF Accept, ReadHead, ResolveFails, resolve_and_eval, resolve_judge, LookupLeaf, InsertLeaf, Handshake,
                ReadInner, ConnectUpstream, UpstreamTls, TimeOut, EndCopy, Goto, GateOf, After
  <2> QED BY <1>u, <2>1, <2>2
<1> QED BY <1>1, <1>2, <1>3, <1>4, <1>5 DEF Step, TaskStep, PeerStep

LEMMA StepRefines ==
    ASSUME Lives, AuditInv, NEW c \in Conn, Step(c) PROVE Gate!Next \/ UNCHANGED Gate!vars
<1>t. sent \in [Conn -> BOOLEAN] BY DEF Lives, TypeOK
<1>f. \A d \in Conn : d # c => GateOf(d)' = GateOf(d) /\ LastEntry(d)' = LastEntry(d)
  <2> SUFFICES ASSUME NEW d \in Conn, d # c PROVE GateOf(d)' = GateOf(d) /\ LastEntry(d)' = LastEntry(d) OBVIOUS
  <2>1. Same(d) BY StepFrame DEF Lives
  <2>2. GateOf(d)' = GateOf(d) BY <2>1 DEF Same, GateOf
  <2>3. LastEntry(d)' = LastEntry(d) BY StepLogging, SameLast
  <2> QED BY <2>2, <2>3
<1>g. Gates' = [Gates EXCEPT ![c] = GateOf(c)'] /\ Gates[c] = GateOf(c) BY <1>f DEF Gates
<1>e. Entries' = [Entries EXCEPT ![c] = LastEntry(c)'] /\ Entries[c] = LastEntry(c) BY <1>f DEF Entries
<1>s. GateOf(c)' = GateOf(c) => Gates' = Gates BY <1>f DEF Gates
<1>r. LastEntry(c)' = LastEntry(c) => Entries' = Entries BY <1>f DEF Entries
<1>1. CASE GateOf(c)' = GateOf(c) /\ UNCHANGED sent /\ LastEntry(c)' = LastEntry(c)
  BY <1>1, <1>s, <1>r DEF Gate!vars, Gates, Entries, GateOf
<1>2. CASE GateOf(c) = "shut" /\ GateOf(c)' = "open" /\ UNCHANGED sent /\ LastEntry(c)' = LastEntry(c)
  <2>1. Gates[c] = "shut" /\ Gates' = [Gates EXCEPT ![c] = "open"] /\ UNCHANGED <<sent, Entries>> BY <1>2, <1>g, <1>r
  <2>2. Gate!Admit(c) BY <2>1 DEF Gate!Admit, Gates, Entries, GateOf
  <2> QED BY <2>2 DEF Gate!Next
<1>3. CASE /\ GateOf(c) = "open" /\ GateOf(c)' \in {"open", "closed"} /\ sent' = [sent EXCEPT ![c] = TRUE]
           /\ LastEntry(c)' = LastEntry(c)
  <2>1. /\ Gates[c] = "open" /\ Gates' \in {Gates, [Gates EXCEPT ![c] = "closed"]} /\ UNCHANGED Entries
        /\ sent' = [sent EXCEPT ![c] = TRUE]
    BY <1>3, <1>g, <1>s, <1>r
  <2>2. Gate!Send(c) BY <2>1 DEF Gate!Send, Gates, Entries, GateOf
  <2> QED BY <2>2 DEF Gate!Next
<1>4. CASE /\ GateOf(c) = "open" /\ sent[c] /\ LastEntry(c) = "none" /\ LastEntry(c)' = "Allow"
           /\ GateOf(c)' = "open" /\ UNCHANGED sent
  <2>1. /\ Gates[c] = "open" /\ sent[c] /\ Entries[c] = "none" /\ Entries' = [Entries EXCEPT ![c] = "Allow"]
        /\ UNCHANGED <<Gates, sent>>
    BY <1>4, <1>g, <1>e, <1>s
  <2>2. Gate!RecordAllow(c) BY <2>1 DEF Gate!RecordAllow, Gates, Entries, GateOf
  <2> QED BY <2>2 DEF Gate!Next
<1>5. CASE /\ GateOf(c) # "closed" /\ GateOf(c)' = "closed" /\ UNCHANGED sent
           /\ \/ LastEntry(c)' = LastEntry(c)
              \/ ~sent[c] /\ LastEntry(c) = "none" /\ LastEntry(c)' = "Deny"
  <2>1. /\ Gates[c] # "closed" /\ Gates' = [Gates EXCEPT ![c] = "closed"] /\ UNCHANGED sent
        /\ \/ UNCHANGED Entries
           \/ ~sent[c] /\ Entries[c] = "none" /\ Entries' = [Entries EXCEPT ![c] = "Deny"]
    BY <1>5, <1>g, <1>e, <1>r
  <2>2. Gate!Close(c) BY <2>1 DEF Gate!Close, Gates, Entries, GateOf
  <2> QED BY <2>2 DEF Gate!Next
<1> QED BY <1>1, <1>2, <1>3, <1>4, <1>5, GateStep

\* The proxy implements EgressGate: nothing goes out before it is admitted, a
\* refusal is final, and the log agrees with what went out.
THEOREM Refinement == Spec => ImplementsGate
<1>1. Init => Gate!Init BY DEF Init, Gate!Init, LastEntry
<1>2. ASSUME Lives, AuditInv, [Next]_vars PROVE [Gate!Next]_(Gate!vars)
  <2>1. ASSUME drain_audit_log \/ UNCHANGED vars PROVE UNCHANGED Gate!vars
    <3>1. UNCHANGED <<pc, sent, audit>> BY <2>1 DEF drain_audit_log, vars, conns
    <3>2. \A c \in Conn : LastEntry(c)' = LastEntry(c) BY <3>1 DEF LastEntry
    <3>3. UNCHANGED <<Gates, Entries>> BY <3>1, <3>2 DEF Gates, GateOf, Entries
    <3> QED BY <3>1, <3>3 DEF Gate!vars, Gates, GateOf, Entries
  <2> QED BY <1>2, <2>1, StepRefines DEF Next, Step
<1> QED BY <1>1, <1>2, AlwaysLives, AlwaysAudit, PTL DEF Spec, ImplementsGate, Gate!Spec
-----------------------------------------------------------------------------
(* The drafted policy *)

\* Urls that host_from_url takes apart where they were put together: every
\* path begins with a slash, has no "://" in it, and no host is empty.
PlainText(host, path) ==
    Lower[host] # "" /\ AfterScheme[path] = NoHost /\ <<path, "/">> \in StartsWith
PlainUrls ==
    \A h \in FirstHead, k \in FirstHead \cup Inner : PlainText(h.host, k.path) /\ PlainText(h.host, "/")
PlainLog(log) == \A i \in DOMAIN log : PlainText(log[i].host, log[i].path)

LEMMA EntryPlain ==
    ASSUME PlainUrls, Lives, NEW c \in Conn, req[c] # None, NEW x
    PROVE  PlainText(EntryOf(c, x).host, EntryOf(c, x).path)
<1>1. req[c] \in FirstHead /\ inner[c] \in Inner \cup {None} BY DEF Lives, TypeOK
<1>2. EntryOf(c, x).host = req[c].host /\ EntryOf(c, x).path \in {"/", req[c].path} \cup {k.path : k \in {inner[c]} \ {None}}
  BY DEF EntryOf, Current, RequestIn
<1> QED BY <1>1, <1>2 DEF PlainUrls

LEMMA AlwaysPlain == ASSUME PlainUrls PROVE Spec => [](PlainLog(audit) /\ PlainLog(report))
<1>1. Init => PlainLog(audit) /\ PlainLog(report) BY DEF Init, PlainLog
<1>2. ASSUME Lives, PlainLog(audit), PlainLog(report), NEW c \in Conn, Step(c)
      PROVE  PlainLog(audit)' /\ PlainLog(report)'
  <2>1. UNCHANGED report
    BY <1>2 DEF Step, TaskStep, PeerStep, Accept, ReadHead, ResolveFails, resolve_and_eval, resolve_judge, Refuse,
       OpenTunnel, LookupLeaf, InsertLeaf, Handshake, ReadInner, ConnectUpstream, UpstreamTls, TimeOut, Forward,
       LogForwarded, EndCopy
  <2>2. CASE UNCHANGED audit BY <1>2, <2>1, <2>2 DEF PlainLog
  <2>3. CASE Logging(c)
    <3> DEFINE new == EntryOf(c, Decision(c))
    <3>1. req[c] # None BY <1>2, <2>3 DEF Logging, Lives, Life
    <3>2. PlainText(new.host, new.path) BY <1>2, <3>1, EntryPlain
    <3>3. /\ DOMAIN audit = 1..Len(audit) /\ Len(audit) \in Nat
          /\ DOMAIN audit' = 1..(Len(audit) + 1)
          /\ \A i \in DOMAIN audit : audit'[i] = audit[i]
          /\ audit'[Len(audit) + 1] = new
      BY <1>2, <2>3, AppendFacts DEF Logging, Lives, TypeOK
    <3> HIDE DEF new
    <3>4. \A i \in DOMAIN audit' : i \in DOMAIN audit \/ i = Len(audit) + 1 BY <3>3
    <3> QED BY <1>2, <2>1, <3>2, <3>3, <3>4 DEF PlainLog
  <2> QED BY <1>2, <2>2, <2>3, StepLogging
<1>3. ASSUME PlainLog(audit), PlainLog(report), drain_audit_log \/ UNCHANGED vars
      PROVE  PlainLog(audit)' /\ PlainLog(report)'
  BY <1>3 DEF drain_audit_log, vars, PlainLog
<1>4. Lives /\ (PlainLog(audit) /\ PlainLog(report)) /\ [Next]_vars => (PlainLog(audit) /\ PlainLog(report))'
  BY <1>2, <1>3 DEF Next, Step
<1> QED BY <1>1, <1>4, AlwaysLives, PTL DEF Spec

\* The hosts of a log are finitely many, and listed one by one.
LEMMA HostsListed ==
    ASSUME NEW log \in Seq(Entry)
    PROVE  LET hosts == Listing(hosts_seen(log))
           IN  /\ DOMAIN hosts \subseteq Nat
               /\ \A i \in DOMAIN hosts : hosts[i] \in hosts_seen(log)
               /\ \A h \in hosts_seen(log) : \E i \in DOMAIN hosts : hosts[i] = h
<1> DEFINE H == hosts_seen(log)
           K == {j \in DOMAIN log : log[j].decision = "Allow" /\ Lower[host_from_url(log[j])] # ""}
           f == [j \in K |-> Lower[host_from_url(log[j])]]
<1>1. IsFiniteSet(K)
  <2>1. K \subseteq DOMAIN log OBVIOUS
  <2> HIDE DEF H, K, f
  <2>2. DOMAIN log = 1..Len(log) /\ Len(log) \in Nat OBVIOUS
  <2>3. K \in SUBSET Nat /\ \A j \in K : j <= Len(log) BY <2>1, <2>2
  <2> QED BY <2>2, <2>3, FS_BoundedSetOfNaturals
<1>2. f \in Surjection(K, H)
  <2>1. \A j \in K : Lower[host_from_url(log[j])] \in H BY DEF hosts_seen, Allowed
  <2>2. \A h \in H : \E j \in K : Lower[host_from_url(log[j])] = h BY DEF hosts_seen, Allowed
  <2> QED BY <2>1, <2>2 DEF Surjection
<1> HIDE DEF H, K, f
<1>3. IsFiniteSet(H) BY <1>1, <1>2, FS_Surjection
<1>4. Cardinality(H) \in Nat /\ ExistsBijection(1..Cardinality(H), H) BY <1>3, FS_CardinalityType
<1>5. \E s \in [1..Cardinality(H) -> H] : \A x \in H : \E i \in DOMAIN s : s[i] = x
  <2>1. PICK s : s \in Surjection(1..Cardinality(H), H) BY <1>4 DEF ExistsBijection, Bijection
  <2>2. s \in [1..Cardinality(H) -> H] /\ \A x \in H : \E i \in 1..Cardinality(H) : s[i] = x BY <2>1 DEF Surjection
  <2>3. DOMAIN s = 1..Cardinality(H) BY <2>2
  <2> QED BY <2>2, <2>3
<1>6. Listing(H) \in [1..Cardinality(H) -> H] /\ \A x \in H : \E i \in DOMAIN Listing(H) : Listing(H)[i] = x
  BY <1>5 DEF Listing
<1>7. DOMAIN Listing(H) = 1..Cardinality(H) BY <1>6
<1>8. DOMAIN Listing(H) \subseteq Nat BY <1>4, <1>7
<1>9. \A i \in DOMAIN Listing(H) : Listing(H)[i] \in H BY <1>6, <1>7
<1> QED BY <1>6, <1>8, <1>9 DEF H
\* Which requests the draft matches, and what it says of them.
LEMMA DraftDecides ==
    ASSUME NEW log \in Seq(Entry), PlainLog(log), NEW q
    PROVE  LET hosts == Listing(hosts_seen(log))
               hit == \E i \in DOMAIN hosts : Lower[q.host] = hosts[i] /\ q.method \in methods_seen(log, hosts[i])
           IN  evaluate(compile(build_policy(log)), q) = IF hit THEN "Allow" ELSE "Deny"
<1> DEFINE hosts == Listing(hosts_seen(log))
           rules == [i \in DOMAIN hosts |-> rule_for(log, hosts[i])]
           p == compile(build_policy(log))
           hits == {i \in DOMAIN p.rules : rule_matches(p.rules[i], q)}
           first == CHOOSE i \in hits : \A j \in hits : i <= j
<1>0. DOMAIN hosts \subseteq Nat /\ \A i \in DOMAIN hosts : hosts[i] \in hosts_seen(log) BY HostsListed
<1>e. \A i \in DOMAIN log : log[i] \in Entry BY ElementOfSeq
<1>l. \A i \in DOMAIN hosts : Lower[hosts[i]] = hosts[i]
  <2>1. ASSUME NEW j \in DOMAIN log PROVE host_from_url(log[j]) \in Str
    <3>1. log[j].host \in Str BY <1>e DEF Entry
    <3> QED BY <3>1 DEF host_from_url, PlainLog, PlainText
  <2>2. \A h \in hosts_seen(log) : Lower[h] = h BY <2>1, StrAssumption DEF hosts_seen, Allowed
  <2> QED BY <1>0, <2>2
<1> HIDE DEF hosts
<1>1. p.rules = [i \in DOMAIN hosts |-> compile_rule(rule_for(log, hosts[i]))] /\ p.default_action = "Deny"
  <2>1. build_policy(log).rules = rules /\ build_policy(log).default_action = "Deny" BY DEF build_policy, hosts
  <2>2. DOMAIN build_policy(log).rules = DOMAIN hosts BY <2>1
  <2>3. \A i \in DOMAIN hosts : build_policy(log).rules[i] = rule_for(log, hosts[i]) BY <2>1
  <2>4. p.rules = [i \in DOMAIN build_policy(log).rules |-> compile_rule(build_policy(log).rules[i])]
    BY DEF compile, build_policy
  <2>5. p.default_action = build_policy(log).default_action BY DEF compile, build_policy
  <2> QED BY <2>1, <2>2, <2>3, <2>4, <2>5
<1>2. ASSUME NEW i \in DOMAIN hosts
      PROVE  /\ compile_rule(rule_for(log, hosts[i])).action = "Allow"
             /\ rule_matches(compile_rule(rule_for(log, hosts[i])), q)
                  <=> Lower[q.host] = hosts[i] /\ q.method \in methods_seen(log, hosts[i])
  BY <1>l, <1>2 DEF compile_rule, rule_for, rule_matches, host_matches, path_matches
<1> HIDE DEF p
<1>3. /\ DOMAIN p.rules = DOMAIN hosts
      /\ hits = {i \in DOMAIN hosts : Lower[q.host] = hosts[i] /\ q.method \in methods_seen(log, hosts[i])}
      /\ \A i \in DOMAIN hosts : p.rules[i].action = "Allow"
  BY <1>1, <1>2
<1>4. evaluate(p, q) = IF hits = {} THEN p.default_action ELSE p.rules[first].action BY DEF evaluate
<1>5. hits # {} => first \in DOMAIN hosts
  <2>1. hits \in SUBSET Nat BY <1>0, <1>3
  <2>2. ASSUME hits # {} PROVE \E i \in hits : \A j \in hits : i <= j BY <2>1, <2>2, Least
  <2> QED BY <1>3, <2>2
<1> HIDE DEF hits, first
<1>6. evaluate(p, q) = IF hits = {} THEN "Deny" ELSE "Allow" BY <1>1, <1>3, <1>4, <1>5
<1>7. hits = {} <=> ~\E i \in DOMAIN hosts : Lower[q.host] = hosts[i] /\ q.method \in methods_seen(log, hosts[i])
  BY <1>3
<1> QED BY <1>6, <1>7 DEF p, hosts

\* If urls are taken apart where they were put together, the policy drafted
\* from a report allows the methods and hosts reported as allowed together, and
\* denies every other request.
THEOREM DraftIsExact == ASSUME PlainUrls PROVE Spec => []DraftExact
<1>1. ASSUME TypeOK, PlainLog(report) PROVE DraftExact
  <2> DEFINE paths == {"/"} \cup {report[i].path : i \in DOMAIN report}
             seen(q) == \E i \in DOMAIN report : /\ report[i].decision = "Allow"
                                                /\ report[i].method = q.method
                                                /\ Lower[report[i].host] = Lower[q.host]
  <2> SUFFICES ASSUME NEW q \in [method : Method, host : Str, path : paths]
               PROVE  evaluate(compile(build_policy(report)), q) = IF seen(q) THEN "Allow" ELSE "Deny"
    BY DEF DraftExact
  <2> DEFINE hosts == Listing(hosts_seen(report))
             hit == \E k \in DOMAIN hosts : Lower[q.host] = hosts[k] /\ q.method \in methods_seen(report, hosts[k])
  <2>t. report \in Seq(Entry) BY <1>1 DEF TypeOK
  <2>h. \A h \in hosts_seen(report) : \E k \in DOMAIN hosts : hosts[k] = h BY <2>t, HostsListed
  <2>d. evaluate(compile(build_policy(report)), q) = IF hit THEN "Allow" ELSE "Deny"
    BY <1>1, <2>t, DraftDecides DEF hosts
  <2>u. \A i \in DOMAIN report : host_from_url(report[i]) = report[i].host /\ Lower[report[i].host] # ""
    BY <1>1 DEF PlainLog, PlainText, host_from_url
  <2> HIDE DEF hosts, paths
  <2>1. ASSUME seen(q) PROVE hit
    <3>1. PICK i \in DOMAIN report : /\ report[i].decision = "Allow" /\ report[i].method = q.method
                                    /\ Lower[report[i].host] = Lower[q.host]
      BY <2>1
    <3>2. report[i] \in Allowed(report) BY <3>1 DEF Allowed
    <3>3. Lower[q.host] \in hosts_seen(report) BY <2>u, <3>1, <3>2 DEF hosts_seen
    <3>4. q.method \in methods_seen(report, Lower[q.host]) BY <2>u, <3>1, <3>2 DEF methods_seen
    <3> QED BY <2>h, <3>3, <3>4
  <2>2. ASSUME hit PROVE seen(q)
    <3>1. PICK k \in DOMAIN hosts : Lower[q.host] = hosts[k] /\ q.method \in methods_seen(report, hosts[k])
      BY <2>2
    <3>2. PICK x \in Allowed(report) : x.method = q.method /\ Lower[host_from_url(x)] = hosts[k]
      BY <3>1 DEF methods_seen
    <3>3. PICK i \in DOMAIN report : x = report[i] /\ report[i].decision = "Allow" BY DEF Allowed
    <3> QED BY <2>u, <3>1, <3>2, <3>3
  <2> QED BY <2>d, <2>1, <2>2
<1> QED BY <1>1, TypeCorrect, AlwaysPlain, PTL
=============================================================================
