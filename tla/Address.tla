------------------------------ MODULE Address ------------------------------
(***************************************************************************)
(* bco::net::Address (src/net/address.cpp, include/bco/net/address.h) on   *)
(* its way through sockaddr_storage: the sockets make an address from the  *)
(* storage the kernel has filled (from_storage in accept and recvfrom) and *)
(* give the kernel a storage made from an address (to_storage in bind,     *)
(* connect and sendto).                                                    *)
(*                                                                         *)
(* A port is its two bytes, the high one first; the union of the two kinds *)
(* of ip is sixteen bytes, of which v4 is the first four, in network order.*)
(***************************************************************************)
EXTENDS Naturals, Sequences, SequencesExt

CONSTANTS V4, V6,       \* ips
          Ports,
          MaxHops       \* bound on the machines an address goes through

AF_INET == 2
AF_INET6 == 10
Families == {AF_INET, AF_INET6}
IpOf == [f \in Families |-> IF f = AF_INET THEN V4 ELSE V6]

ASSUME AddressAssumption ==
    /\ V4 \subseteq [1..4 -> 0..255] /\ V6 \subseteq [1..16 -> 0..255]
    /\ Ports \subseteq [1..2 -> 0..255]
    /\ MaxHops \in Nat

VARIABLES
    addr,       \* an Address: family_, port_, ip_
    meant,      \* the address its maker meant
    hops        \* how often port_ has been read from a sockaddr since set

addressVars == <<addr, meant, hops>>

Octets == 0..255
Addresses == [family: Families \union {-1}, port: [1..2 -> Octets],
              ip: [1..16 -> Octets]]
AddressTypeOK ==
    addr \in Addresses /\ meant \in Addresses /\ hops \in 0..MaxHops

\* The machine is little-endian.
htons(port) == <<port[2], port[1]>>

Zeros16 == [i \in 1..16 |-> 0]
\* Storing into one member of the union, and reading it.
Over(ip, new) == [i \in 1..16 |-> IF i \in DOMAIN new THEN new[i] ELSE ip[i]]
Member(f, ip) == IF f = AF_INET THEN SubSeq(ip, 1, 4) ELSE ip

Made(f, port, ip) == [family |-> f, port |-> port, ip |-> Over(Zeros16, ip)]

\* Address {}.
AddressInit ==
    /\ addr = Made(-1, <<0, 0>>, <<>>) /\ meant = addr
    /\ hops = 0
-----------------------------------------------------------------------------
(* Operations.                                                              *)

\* Address(IPv4 | in_addr | IPv6 | in6_addr, port).
Construct(f, port, ip) ==
    /\ addr' = Made(f, port, ip)
    /\ meant' = Made(f, port, ip)
    /\ hops' = 0

\* Address(sockaddr_in) and Address(sockaddr_in6), filled in for port and ip
\* the way the kernel wants them.  The second says AF_INET too.
FromSockaddr(f, port, ip) ==
    /\ addr' = Made(AF_INET, htons(port), ip)
    /\ meant' = Made(f, port, ip)
    /\ hops' = 1

\* set_ip stores into the union and leaves family_.
set_ip(f, ip) ==
    /\ addr' = [addr EXCEPT !.ip = Over(@, ip)]
    /\ meant' = [meant EXCEPT !.family = f, !.ip = Over(addr.ip, ip)]
    /\ UNCHANGED hops

set_port(port) ==
    /\ addr' = [addr EXCEPT !.port = port]
    /\ meant' = [meant EXCEPT !.port = port]
    /\ hops' = 0

\* Variant of to_storage: the port goes into the storage as it is.
to_storage_host_order(a) ==
    [family |-> a.family, port |-> a.port, ip |-> Member(a.family, a.ip)]

\* to_storage(), of an address that has a family (without one, the storage
\* stays as it is).
to_storage(a) ==
    [family |-> a.family, port |-> htons(a.port), ip |-> Member(a.family, a.ip)]

from_storage(s) == Made(s.family, s.port, s.ip)

\* The address is given to the kernel, and read from the storage in which
\* the kernel shows it to the other end.
Travel ==
    /\ addr.family \in Families /\ hops < MaxHops
    /\ addr' = from_storage(to_storage(addr))
    /\ hops' = hops + 1
    /\ UNCHANGED meant

AddressNext ==
    \/ \E f \in Families : \E ip \in IpOf[f] :
          \/ \E port \in Ports :
                Construct(f, port, ip) \/ FromSockaddr(f, port, ip)
          \/ set_ip(f, ip)
    \/ \E port \in Ports : set_port(port)
    \/ Travel

AddressSpec == AddressInit /\ [][AddressNext]_addressVars
-----------------------------------------------------------------------------
(* Queries.                                                                 *)

\* ip >> 24, ip >> 20... of an in_addr in host order are its leading bytes.
is_loopback(a) ==
    \/ a.family = AF_INET /\ a.ip[1] = 127
    \/ a.family = AF_INET6 /\ a.ip = [i \in 1..16 |-> IF i = 16 THEN 1 ELSE 0]

is_linklocal(a) ==
    \/ a.family = AF_INET /\ a.ip[1] * 256 + a.ip[2] = 169 * 256 + 254
    \/ a.family = AF_INET6 /\ a.ip[1] = 254 /\ a.ip[2] \div 64 = 2

\* Variant of is_private_network: ip >> 16 compared with 172.16.
is_private_network_172_16(a) ==
    \/ /\ a.family = AF_INET
       /\ \/ a.ip[1] = 10
          \/ a.ip[1] * 256 + a.ip[2] = 172 * 256 + 16
          \/ a.ip[1] * 256 + a.ip[2] = 192 * 256 + 168
    \/ a.family = AF_INET6 /\ a.ip[1] = 253

is_private_network(a) ==
    \/ /\ a.family = AF_INET
       /\ \/ a.ip[1] = 10
          \/ a.ip[1] * 16 + a.ip[2] \div 16 = 172 * 16 + 1
          \/ a.ip[1] * 256 + a.ip[2] = 192 * 256 + 168
    \/ a.family = AF_INET6 /\ a.ip[1] = 253

is_shared_network(a) ==
    a.family = AF_INET /\ a.ip[1] * 4 + a.ip[2] \div 64 = 100 * 4 + 1

is_private(a) ==
    is_linklocal(a) \/ is_loopback(a) \/ is_private_network(a)
        \/ is_shared_network(a)
-----------------------------------------------------------------------------
(* Properties.                                                              *)

\* lo <= a <= hi as numbers in network order.
Below(a, b) ==
    a = b \/ \E i \in DOMAIN a : a[i] < b[i] /\ \A j \in 1..(i - 1) : a[j] = b[j]
Between(lo, a, hi) == Below(lo, a) /\ Below(a, hi)

All(n) == [i \in 1..n |-> 255]
\* The addresses that begin as from begins .. as to does.
Block(a, from, to) ==
    LET n == Len(a) IN
    Between(from \o [i \in 1..(n - Len(from)) |-> 0], a,
            to \o All(n - Len(to)))

\* 10/8, 100.64/10, 127/8, 169.254/16, 172.16/12, 192.168/16; ::1, fe80::/10
\* and fd00::/8.  (For the second, the comment above is_shared_network says
\* 100.64.xx.xx, which is less.)
PrivateBlocks(f, a) ==
    IF f = AF_INET
    THEN \/ Block(a, <<10>>, <<10>>)
         \/ Block(a, <<100, 64>>, <<100, 127>>)
         \/ Block(a, <<127>>, <<127>>)
         \/ Block(a, <<169, 254>>, <<169, 254>>)
         \/ Block(a, <<172, 16>>, <<172, 31>>)
         \/ Block(a, <<192, 168>>, <<192, 168>>)
    ELSE \/ Block(a, [i \in 1..16 |-> i \div 16], [i \in 1..16 |-> i \div 16])
         \/ Block(a, <<254, 128>>, <<254, 191>>)
         \/ Block(a, <<253>>, <<253>>)

\* As long as family_ is that of the ip, an address is private exactly if it
\* lies in one of the private blocks, and what the kernel is given names the
\* host that was meant, and the port that was meant if it was never read from
\* a sockaddr, or an even number of times.
Delivered ==
    addr.family \in Families /\ addr.family = meant.family =>
        /\ is_private(addr) <=>
               PrivateBlocks(meant.family, Member(meant.family, meant.ip))
        /\ to_storage(addr).ip = Member(meant.family, meant.ip)
        /\ hops % 2 = 0 => to_storage(addr).port = htons(meant.port)

\* What examples/main.cpp:29-32 takes for granted: the port of a sockaddr that
\* is made into an address and given to the kernel is the one put into it.
PortKept ==
    addr.family \in Families => to_storage(addr).port = htons(meant.port)
=============================================================================
