----------------------------- MODULE HeaderReads -----------------------------
(***************************************************************************)
(* What the programs' header code reads of a packet, and what it decides.  *)
(* Offsets count from the first byte of the frame, the first is 0.         *)
(*                                                                         *)
(* A parser is modelled by how far it reads: the offset after the last     *)
(* byte it looks at (0: it looks at none), and where it takes the L4       *)
(* header to begin.  A frame is what that depends on: its length, its      *)
(* EtherType, the nibble of its first L3 byte that the code takes for a    *)
(* header length, and its protocol field.                                  *)
(*                                                                         *)
(* A definition commented "Fault" is a bug this code could have had; it is *)
(* part of no behaviour, and shows that a property can tell it apart.      *)
(***************************************************************************)
EXTENDS Integers

ETH == 14    \* sizeof(struct rte_ether_hdr)
IPV4 == 20   \* sizeof(struct rte_ipv4_hdr)
IPV6 == 40   \* sizeof(struct rte_ipv6_hdr)
TCP == 20    \* sizeof(struct rte_tcp_hdr)
UDP == 8     \* sizeof(struct rte_udp_hdr)

\* One byte short of a header, and just long enough, with options and without.
Lengths == {13, 33, 34, 53, 54, 73, 74, 93, 94}
Frames == [len : Lengths, ether : {"ipv4", "ipv6", "other"}, nibble : {0, 5, 15},
           proto : {"tcp", "udp", "other"}]

Farther(a, b) == IF a > b THEN a ELSE b

\* What is printed of an L4 header that begins at offset l4: both ports, and TCP's
\* sequence number.
PrintL4(f, l4) ==
  CASE f.proto = "tcp" -> l4 + 8
    [] f.proto = "udp" -> l4 + 4
    [] OTHER -> 0

L4Header(f) == CASE f.proto = "tcp" -> TCP [] f.proto = "udp" -> UDP [] OTHER -> 0

\* The length of the headers a frame says it has, an IPv4 header's options included.
Headers(f) ==
  CASE f.ether = "ipv4" -> ETH + Farther(IPV4, 4 * f.nibble) + L4Header(f)
    [] f.ether = "ipv6" -> ETH + IPV6 + L4Header(f)
    [] OTHER -> ETH

-------------------------------------------------------------------------------
(* packet_parsing: every header but an IPv6 packet's L4 header is checked *)

print_mbuf_data_L4(f) ==
  IF f.ether = "ipv4" THEN ETH + 4 * f.nibble ELSE ETH + IPV6

\* The L3 header it needs before it reads any of it.
L3Header(f) == CASE f.ether = "ipv4" -> IPV4 [] f.ether = "ipv6" -> IPV6 [] OTHER -> 0

\* Fault: the L4 check forgets the options of the IPv4 header.
print_mbuf_data_fixed(f) ==
  IF f.len < ETH THEN 0
  ELSE IF f.ether = "other" \/ f.len < ETH + L3Header(f) THEN ETH
  ELSE IF f.ether = "ipv4" /\ f.len < ETH + IPV4 + L4Header(f) THEN ETH + IPV4
  ELSE Farther(ETH + (IF f.ether = "ipv4" THEN IPV4 ELSE 7), PrintL4(f, print_mbuf_data_L4(f)))

\* Of an IPv6 header only the next header field, its seventh byte, is read.
print_mbuf_data(f) ==
  IF f.len < ETH THEN 0
  ELSE IF f.ether = "other" \/ f.len < ETH + L3Header(f) THEN ETH
  ELSE IF f.ether = "ipv4" /\ f.len < print_mbuf_data_L4(f) + L4Header(f) THEN ETH + IPV4
  ELSE Farther(ETH + (IF f.ether = "ipv4" THEN IPV4 ELSE 7), PrintL4(f, print_mbuf_data_L4(f)))

print_mbuff_info(f) ==
  IF f.len < ETH THEN 0
  ELSE IF f.ether = "ipv4" /\ f.len >= ETH + IPV4 THEN ETH + IPV4 ELSE ETH

-------------------------------------------------------------------------------
(* Parsers without a length check *)

\* packet_parseer_ring: the IPv6 addresses are not printed.
packet_info(f) == IF f.ether = "ipv4" THEN ETH + IPV4 ELSE ETH

\* eventdev_packet_parsing: of an IPv6 header too, four bytes times a nibble.
parsing_logic_L4(f) == ETH + 4 * f.nibble

ipv4_parsing(f) == Farther(ETH + IPV4, PrintL4(f, parsing_logic_L4(f)))
ipv6_parsing(f) == Farther(ETH + IPV6, PrintL4(f, parsing_logic_L4(f)))

parsing_logic(f) ==
  CASE f.ether = "ipv4" -> ipv4_parsing(f)
    [] f.ether = "ipv6" -> ipv6_parsing(f)
    [] OTHER -> ETH

\* port_init2: the source address of an IPv4 header.
rx_loop_reads(f) == IF f.ether = "ipv4" THEN ETH + 16 ELSE ETH

\* prefetch: the EtherType.
process_packet_reads(f) == ETH

-------------------------------------------------------------------------------
(* prefetch: the indices into a burst of n packets *)

\* for (i = 0; i < nb_rx - PREFETCH_OFFSET; i++): the difference is an int.
MainLoop(n, offset) == {i \in 0..n : i < n - offset}

Prefetched(n, offset) ==
  {i \in 0..(n - 1) : i < offset} \cup {i + offset : i \in MainLoop(n, offset)}

\* Where the loop for the remaining packets begins.
Remaining(n, offset) == IF n > offset THEN n - offset ELSE 0

-------------------------------------------------------------------------------
(* ACL_DPDK_2: the bytes the rules look at *)

\* The source MAC address's fourth byte, EtherType, first L3 byte, TTL and protocol,
\* source address and L4 destination port.
AclFrames ==
  [mac3 : {2, 6}, type : {<<8, 0, 69>>, <<192, 168, 1>>},
   ttl_proto : {<<64, 6>>, <<64, 17>>, <<0, 80>>},
   src : {<<192, 168, 1, 10>>, <<10, 0, 0, 1>>}, dport : {<<0, 80>>, <<0, 22>>}]

\* The byte at offset i of a frame with a 20 byte IPv4 header; what is not above is 0.
Byte(f, i) ==
  CASE i = 9 -> f.mac3
    [] i \in 12..14 -> f.type[i - 11]
    [] i \in 22..23 -> f.ttl_proto[i - 21]
    [] i \in 26..29 -> f.src[i - 25]
    [] i \in 36..37 -> f.dport[i - 35]
    [] OTHER -> 0

Bytes(f, from, n) == [k \in 1..n |-> Byte(f, from + k - 1)]

\* Offsets of the fields in struct pkt, which begins with the IPv4 header.
field_defs == [PROTO |-> 9, SRC_IP |-> 12, DST_PORT |-> 22]

\* The allowing rule: TCP from 192.168.1.0/24 to port 80; the other rule drops.  The data
\* given to rte_acl_classify begins with the Ethernet header.
ACL_DPDK_2_allows(f) ==
  /\ Byte(f, field_defs.PROTO) = 6
  /\ Bytes(f, field_defs.SRC_IP, 3) = <<192, 168, 1>>
  /\ Bytes(f, field_defs.DST_PORT, 2) = <<0, 80>>
===============================================================================
