---------------------------- MODULE MC_DnsParser ----------------------------
(* Packet shapes for TLC: an IPv4 and an IPv6 L4 offset, the smallest,   *)
(* an odd and the largest TCP data offset, and lengths that run past the *)
(* largest TCP header plus the length prefix and the 12-byte DNS header. *)
EXTENDS DnsParser

MCIpLens == {20, 40}
MCDoffs == {5, 7, 15}
MCMaxExtra == 80
\* a query with RD set, a NOERROR response and an NXDOMAIN response
MCWireFlags == {256, 33152, 33155}
MCParent == [trace |-> "t_parent", span |-> "s_parent"]
=============================================================================
