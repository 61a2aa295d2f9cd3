------------------------------ MODULE DnsParser ------------------------------
(***************************************************************************)
(* handle_dns of src/bpf/common/dns.h: one socket-buffer packet on a DNS   *)
(* port per step.  The packet's fields are enumerated from small sets that *)
(* cover the offset boundaries; the loads from the packet fail where the  *)
(* packet ends, as bpf_skb_load_bytes does.  The state is the last packet  *)
(* handled and what the handler did with it.                               *)
(***************************************************************************)
EXTENDS Integers

CONSTANTS
    Endian,      \* byte order of the build target: "LE" (bpfel) or "BE"
    IpLens,      \* p_info->ip_len values: offset of the L4 header
    Doffs,       \* TCP data offset values (32-bit words)
    MaxExtra,    \* packet lengths run from l4_off to l4_off + MaxExtra
    WireFlags,   \* 16-bit DNS flag words as sent on the wire
    Parent       \* the client span a DNS call may continue

ASSUME Endian \in {"LE", "BE"}

UDP == 17
TCP == 6
Protos == {UDP, TCP, 1}
UdpHdrLen == 8                \* sizeof(struct udphdr)
TcpHdrLen == 20               \* sizeof(struct tcphdr)
IdOff == 0                    \* offsetof(struct dnshdr, id)
FlagsOff == 2                 \* offsetof(struct dnshdr, flags)
WireId == 4660                \* the id the packets carry (0x1234)

\* A trace context: trace id, span id, parent span id (NoParent: a root).
NoParent == "no_parent"
FreshTrace == "fresh_trace"
FreshSpan == "fresh_span"
NoEvent == [kind |-> "none"]

Packets == [proto : Protos, l4off : IpLens, doff : Doffs,
            extra : 0 .. MaxExtra, flags : WireFlags,
            known : BOOLEAN,    \* sock_pids has the connection
            room : BOOLEAN,     \* bpf_ringbuf_reserve succeeds
            found : BOOLEAN]    \* a client trace exists for the caller

PktLen(p) == p.l4off + p.extra

\* __u8 tcp_header_len = tcph.doff * 4
TcpHeaderLen(p) == (p.doff * 4) % 2^8

(***************************************************************************)
(* Byte order.                                                             *)
(***************************************************************************)

\* bpf_skb_load_bytes succeeds when [off, off + n) lies inside the packet.
Loads(p, off, n) == off + n <= PktLen(p)

\* The u16 a two-byte load leaves in memory, from the wire bytes hi, lo.
LoadU16(hi, lo) == IF Endian = "LE" THEN hi + 256 * lo ELSE 256 * hi + lo

\* bpf_ntohs: a byte swap on a little-endian target, nothing on big-endian.
Ntohs(v) == IF Endian = "LE" THEN (v % 256) * 256 + v \div 256 ELSE v

\* qr taken as the whole flag word instead of its 1-bit field.
QrFieldWord(v) == v

\* union dnsflags reads qr as its first 1-bit field, which the compiler
\* puts at the least significant bit on little-endian targets and at the
\* most significant bit on big-endian ones.
QrField(v) == IF Endian = "LE" THEN v % 2 ELSE v \div 32768

\* The QR bit of RFC 1035 4.1.1: the top bit of the flag word.
WireQr(w) == w \div 32768

(***************************************************************************)
(* The handler.                                                            *)
(***************************************************************************)

\* The DNS offset handle_dns computes, or -1 when it returns 0 before
\* reading the header: other protocols, a TCP header that cannot be
\* loaded, and a TCP segment with nothing after its header.
DnsOff(p) ==
    CASE p.proto = UDP -> (p.l4off + UdpHdrLen) % 2^16
      [] p.proto = TCP ->
            LET off == (p.l4off + TcpHeaderLen(p)) % 2^16   \* u16 dns_off
            IN  IF ~Loads(p, p.l4off, TcpHdrLen) \/ PktLen(p) <= off
                THEN -1
                ELSE (off + 2) % 2^16
      [] OTHER -> -1

\* The qr handle_dns reads: the bitfield of the flag word when the packet
\* holds it; when the load fails, bpf_skb_load_bytes has zeroed the u16.
QrRead(p, off) ==
    LET raw == IF Loads(p, off + FlagsOff, 2)
               THEN LoadU16(p.flags \div 256, p.flags % 256)
               ELSE 0
    IN  QrField(Ntohs(raw))

\* The id read at offsetof(struct dnshdr, flags) instead of id.
IdReadFlagsOffset(p, off) ==
    IF Loads(p, off + FlagsOff, 2) THEN LoadU16(p.flags \div 256, p.flags % 256) ELSE 0

\* u16 id = 0, loaded from the wire and stored into req->id without
\* bpf_ntohs: the u16 the wire bytes make in memory, or 0 when the load
\* fails.
IdRead(p, off) ==
    IF Loads(p, off + IdOff, 2) THEN LoadU16(WireId \div 256, WireId % 256) ELSE 0

\* find_trace_for_client_request_with_t_key: the caller's client span.
FindTraceForClientRequest ==
    [trace |-> Parent.trace, span |-> Parent.span, parent |-> Parent.span]

\* init_new_trace: fresh trace and span ids, no parent.
InitNewTrace == [trace |-> FreshTrace, span |-> FreshSpan, parent |-> NoParent]

\* urand_bytes(req->tp.span_id, ...): a fresh span id.
UrandSpan(tp) == [tp EXCEPT !.span = FreshSpan]

\* The trace context of the DNS event.
DnsTraceContext(p) ==
    IF p.found THEN UrandSpan(FindTraceForClientRequest) ELSE InitNewTrace

VARIABLES pkt, ret, out
vars == <<pkt, ret, out>>

Events == [kind : {"dns"}, qr : {0, 1}, id : 0 .. 65535,
           tp : [trace : {Parent.trace, FreshTrace},
                 span : {Parent.span, FreshSpan},
                 parent : {Parent.span, NoParent}]]

TypeOK ==
    /\ pkt \in Packets \cup {NoEvent}
    /\ ret \in {0, 1}
    /\ out \in Events \cup {NoEvent}

Init == pkt = NoEvent /\ ret = 0 /\ out = NoEvent

\* handle_dns(skb, conn, p_info): every qr the bitfield can hold is 0 or 1,
\* so every packet whose header offset it computes is taken as DNS (1);
\* an unknown socket returns 0, and a full ring drops the event.
HandleDns(p) ==
    /\ pkt = NoEvent
    /\ pkt' = p
    /\ LET off == DnsOff(p) IN
        \/ /\ off = -1
           /\ ret' = 0 /\ out' = NoEvent
        \/ /\ off # -1 /\ ~p.known
           /\ ret' = 0 /\ out' = NoEvent
        \/ /\ off # -1 /\ p.known /\ ~p.room
           /\ ret' = 1 /\ out' = NoEvent
        \/ /\ off # -1 /\ p.known /\ p.room
           /\ ret' = 1
           /\ out' = [kind |-> "dns", qr |-> QrRead(p, off), id |-> IdRead(p, off),
                      tp |-> DnsTraceContext(p)]

\* The invocation ends; nothing it computed outlives it.
Finish ==
    /\ pkt # NoEvent
    /\ pkt' = NoEvent /\ ret' = 0 /\ out' = NoEvent

Next == (\E p \in Packets : HandleDns(p)) \/ Finish

Spec == Init /\ [][Next]_vars

(***************************************************************************)
(* Properties.                                                             *)
(***************************************************************************)

\* The event's qr is the QR bit of the wire flag word whenever the packet
\* holds the flag word (spec: the event carries the qr found at the wire
\* offset).
DnsQrMatchesWire ==
    (out # NoEvent /\ Loads(pkt, DnsOff(pkt) + FlagsOff, 2))
    => out.qr = WireQr(pkt.flags)

\* The event carries the DNS message id byte for byte as it is on the
\* wire: read back in network byte order, req->id is the id of the header
\* whenever the packet holds it, and the zero sentinel when it does not
\* (spec 6: the same 16-bit id found at the wire offset; spec 3: a field
\* that could not be read is marked with zero).
DnsIdAsOnWire ==
    out # NoEvent =>
        Ntohs(out.id) = IF Loads(pkt, DnsOff(pkt) + IdOff, 2) THEN WireId ELSE 0

\* An event is only produced for a TCP segment that holds bytes at and past
\* the DNS header offset (spec: reject when skb length <= dns_off).
DnsHeaderInsidePacket ==
    (out # NoEvent /\ pkt.proto = TCP) => PktLen(pkt) > DnsOff(pkt)
=============================================================================
