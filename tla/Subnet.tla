------------------------------- MODULE Subnet -------------------------------
(***************************************************************************)
(* The subnet arithmetic of src/src/target_modules/network.rs.  An address *)
(* is a family and a number below 2^Bits[family]; the code's widths are 32 *)
(* and 128.  A subnet is a base address and a prefix length.               *)
(***************************************************************************)
EXTENDS Integers

CONSTANT Bits

ASSUME BitsAssumption == Bits \in [{"v4", "v6"} -> Nat \ {0}]

Families == {"v4", "v6"}
None == [family |-> "none", value |-> 0]
Space(family) == 0 .. 2 ^ Bits[family] - 1
Addresses == UNION {[family : {f}, value : Space(f)] : f \in Families}
IsIpv6(address) == address.family = "v6"

\* value & mask, the mask being MAX << (width - prefix), and 0 when that shift
\* is as wide as the type (checked_shl answers None at prefix 0).
Masked(family, value, prefix) ==
  LET shift == Bits[family] - prefix
  IN IF shift >= Bits[family] THEN 0 ELSE value - (value % (2 ^ shift))

AddressIsNetwork(address, prefix) ==
  Masked(address.family, address.value, prefix) = address.value

\* NetworkSubnet::new: what may be constructed at all.
Subnets == {s \in [address : Addresses, prefix : 0 .. Bits["v4"] \cup 0 .. Bits["v6"]] :
              /\ s.prefix <= Bits[s.address.family]
              /\ AddressIsNetwork(s.address, s.prefix)}

Contains(subnet, address) ==
  /\ subnet.address.family = address.family
  /\ Masked(address.family, subnet.address.value, subnet.prefix)
       = Masked(address.family, address.value, subnet.prefix)

\* base | host_mask, on a base whose host bits are clear.
Broadcast(subnet) ==
  subnet.address.value + 2 ^ (Bits[subnet.address.family] - subnet.prefix) - 1

ContainsUsableHost(subnet, address) ==
  /\ Contains(subnet, address)
  /\ \/ IsIpv6(address) /\ address.value # subnet.address.value
     \/ /\ ~IsIpv6(address)
        /\ subnet.prefix <= Bits["v4"] - 2 =>
             address.value \notin {subnet.address.value, Broadcast(subnet)}

\* One direction only: a wider subnet after a narrower one goes unnoticed.
Overlaps_OneWay(left, right) == Contains(left, right.address)

Overlaps(left, right) ==
  Contains(left, right.address) \/ Contains(right, left.address)

(***************************************************************************)
(* What a subnet means, by counting and without a mask: the block of       *)
(* 2^(width - prefix) addresses from its base, of which the base, and in   *)
(* an IPv4 block of four or more the last, are not for hosts.              *)
(***************************************************************************)
Block(subnet) ==
  LET base == subnet.address.value
      size == 2 ^ (Bits[subnet.address.family] - subnet.prefix)
  IN base .. base + size - 1

Members(subnet) == [family : {subnet.address.family}, value : Block(subnet)]

Hosts(subnet) ==
  LET block == Block(subnet)
      isEdge(v) == IF subnet.address.family = "v6" THEN v - 1 \notin block
                   ELSE ~({v - 1, v + 1} \subseteq block)
      keeps == subnet.address.family = "v4" /\ \A v, w \in block : v - w <= 1
  IN {m \in Members(subnet) : keeps \/ ~isEdge(m.value)}
=============================================================================
