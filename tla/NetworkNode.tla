----------------------------- MODULE NetworkNode -----------------------------
(***************************************************************************)
(* Csockaddr, CnetworkNode and CnetworkPair (network_node.h): the values,  *)
(* their order and their cached hash.  The hash is computed in a size_t of *)
(* the width of the build: width is 2^64 or 2^32 below.                    *)
(*                                                                         *)
(* A node and a pair keep m_hash beside what it is computed from, and      *)
(* compare the hashes first.  So the comparisons mean what they say only   *)
(* while every operation keeps the hash fresh.                             *)
(***************************************************************************)
EXTENDS Integers

AF_INET  == 2
AF_INET6 == 10

MaxPort == 65535
MaxWord == 4294967295

Port == 0 .. MaxPort        \* as it is on the wire, in the machine's byte order
Word == 0 .. MaxWord        \* a uint32_t

Unset == [family |-> 0]
IPv4  == [family : {AF_INET}, port : Port, addr : Word]
IPv6  == [family : {AF_INET6}, port : Port, addr : [0 .. 3 -> Word],
          flowinfo : Word, scope : Word]

Csockaddr == {Unset} \union IPv4 \union IPv6

\* What a sockaddr may hold, and init from one of size bytes.
Raw == IPv4 \union IPv6 \union [family : Nat \ {AF_INET, AF_INET6}]

init(raw, size) ==
    IF \/ size >= 8 /\ raw.family = AF_INET
       \/ size >= 28 /\ raw.family = AF_INET6
    THEN raw ELSE Unset

valid(a) == a.family \in {AF_INET, AF_INET6}

-----------------------------------------------------------------------------
(* operator< and operator== of Csockaddr.                                  *)

\* The first of four words that differs decides.
AddrLess(x, y) == \E i \in 0 .. 3 : /\ x[i] < y[i]
                                    /\ \A j \in 0 .. 3 : j < i => x[j] = y[j]

Less4(a, b) == IF a.port # b.port THEN a.port < b.port ELSE a.addr < b.addr

Less6(a, b) ==
    IF a.port # b.port THEN a.port < b.port
    ELSE IF \E i \in 0 .. 3 : a.addr[i] # b.addr[i] THEN AddrLess(a.addr, b.addr)
    ELSE IF a.flowinfo # b.flowinfo THEN a.flowinfo < b.flowinfo
    ELSE a.scope < b.scope

Less(a, b) ==
    IF a.family # b.family THEN a.family < b.family
    ELSE CASE a.family = AF_INET  -> Less4(a, b)
           [] a.family = AF_INET6 -> Less6(a, b)
           [] OTHER               -> FALSE

Equal(a, b) ==
    /\ a.family = b.family
    /\ a.family = AF_INET => a.port = b.port /\ a.addr = b.addr
    /\ a.family = AF_INET6 =>
           /\ a.port = b.port /\ \A i \in 0 .. 3 : a.addr[i] = b.addr[i]
           /\ a.flowinfo = b.flowinfo /\ a.scope = b.scope

-----------------------------------------------------------------------------
(* Hashes.                                                                 *)

Two16 == 65536
Mix   == 65535      \* 0xFFFF

\* The numbers a size_t has in builds of 32 and of 64 bits.
Width32 == Two16 * Two16
Width64 == Width32 * Width32

\* (hash << 16) | port
WithPort(hash, port, width) == ((hash * Two16) % width) + port

\* hash * 0xFFFF + word
Mixed(hash, word, width) == (hash * Mix + word) % width

getHash(a, hash, width) ==
    CASE a.family = AF_INET ->
           WithPort((hash + a.addr) % width, a.port, width)
      [] a.family = AF_INET6 ->
           LET h0 == (hash + a.addr[0]) % width
               h1 == Mixed(h0, a.addr[1], width)
               h2 == Mixed(h1, a.addr[2], width)
               h3 == Mixed(h2, a.addr[3], width)
           IN  WithPort(h3, a.port, width)
      [] OTHER -> (hash + a.family) % width

Protocols == {0, 1}     \* protocol_tcp, protocol_udp

NodeHash(protocol, sockaddr, width) == getHash(sockaddr, protocol * 31, width)

PairHash(protocol, local, remote, width) ==
    getHash(remote, getHash(local, protocol * 31, width), width)

-----------------------------------------------------------------------------
(* CnetworkNode.                                                           *)

\* The default constructor, and the others and set, which rehash.  A copy is
\* the same node.
DefaultNode == [protocol |-> 0, sockaddr |-> Unset, hash |-> 0]

Node(protocol, sockaddr, width) ==
    [protocol |-> protocol, sockaddr |-> sockaddr,
     hash |-> NodeHash(protocol, sockaddr, width)]

NodeLess(m, n) ==
    IF m.hash # n.hash THEN m.hash < n.hash
    ELSE IF m.protocol # n.protocol THEN m.protocol < n.protocol
    ELSE Less(m.sockaddr, n.sockaddr)

NodeEqual(m, n) == /\ m.hash = n.hash
                   /\ m.protocol = n.protocol
                   /\ Equal(m.sockaddr, n.sockaddr)

-----------------------------------------------------------------------------
(* CnetworkPair: its comparisons leave the protocol to the hash.           *)

DefaultPair == [protocol |-> 0, local |-> Unset, remote |-> Unset, hash |-> 0]

Pair(protocol, local, remote, width) ==
    [protocol |-> protocol, local |-> local, remote |-> remote,
     hash |-> PairHash(protocol, local, remote, width)]

rehash(p, width) == Pair(p.protocol, p.local, p.remote, width)

setProtocol(p, protocol, width) == rehash([p EXCEPT !.protocol = protocol], width)
setLocal(p, local, width)       == rehash([p EXCEPT !.local = local], width)
setRemote(p, remote, width)     == rehash([p EXCEPT !.remote = remote], width)

\* operator=, both of them: the protocol is not assigned.
Assigned(p, q) == [p EXCEPT !.local = q.local, !.remote = q.remote, !.hash = q.hash]

PairLess(p, q) ==
    IF p.hash # q.hash THEN p.hash < q.hash
    ELSE IF ~Equal(p.remote, q.remote) THEN Less(p.remote, q.remote)
    ELSE Less(p.local, q.local)

PairEqual(p, q) == /\ p.hash = q.hash
                   /\ Equal(p.remote, q.remote)
                   /\ Equal(p.local, q.local)
=============================================================================
