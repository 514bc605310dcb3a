----------------------------- MODULE ClientIp -----------------------------
(***************************************************************************)
(* Which address the audit log and the login take for the client's.  A      *)
(* request carries X-Forwarded-For and X-Real-IP headers that its sender    *)
(* may have filled in at will; every proxy on its way adds the address it   *)
(* received the request from.                                               *)
(***************************************************************************)
EXTENDS Integers, Sequences, SequencesExt

CONSTANTS
    Width4, Width6,     \* bits of an address (32 and 128 in the code)
    ProxyConfigs,       \* values of server.trusted_proxies: sequences of entries
    Wanderers,          \* addresses the request may pass
    MaxForged,          \* entries the sender puts into X-Forwarded-For
    MaxHops             \* proxies on the way

VARIABLES
    trusted_proxies,    \* the configuration
    xff, real_ip,       \* the headers
    path                \* ghost: the addresses the request has really passed

ipVars == <<trusted_proxies, xff, real_ip, path>>

Blank == [bad |-> TRUE, blank |-> TRUE]
Garbage == [bad |-> TRUE, blank |-> FALSE]
NoHeader == <<>>

-----------------------------------------------------------------------------
(* A net is an address with a prefix length; an entry that cannot be parsed, *)
(* or whose prefix is longer than the address, is left out.                  *)
Width(v) == IF v = 4 THEN Width4 ELSE Width6

Pow2[n \in Nat] == IF n = 0 THEN 1 ELSE 2 * Pow2[n - 1]

parse_trusted_nets(entries) ==
    {e \in Range(entries) : e.parses /\ e.prefix <= Width(e.ip.v)}

InNet(net, a) ==
    /\ net.ip.v = a.v
    /\ \/ net.prefix = 0
       \/ LET host == Pow2[Width(a.v) - net.prefix] IN a.bits \div host = net.ip.bits \div host

\* What the parser returns: addresses that fit their width.  The lists are of any length.
Addresses == {a \in [v : {4, 6}, bits : Nat] : a.bits < Pow2[Width(a.v)]}

ASSUME IpAssumption ==
    /\ {Width4, Width6, MaxForged, MaxHops} \subseteq Nat /\ Wanderers \subseteq Addresses
    /\ \A c \in ProxyConfigs : c \in Seq([parses : BOOLEAN, ip : Addresses, prefix : Nat])

ip_in_trusted(a, nets) == \E n \in nets : InNet(n, a)

-----------------------------------------------------------------------------
(* resolve_client_ip, with the peer the connection came from.                *)
Peer == Last(path)

\* X-Real-IP, if it holds an address
FromRealIp == IF real_ip = NoHeader \/ real_ip[1].bad THEN Peer ELSE real_ip[1].ip

IpOf(e) == IF e.bad THEN Garbage ELSE e.ip

\* The entries at which the search stops
Stops(e, nets) == e # Blank /\ (e.bad \/ ~ip_in_trusted(e.ip, nets))

\* Bug: the chain is read from the left
FromForwarded_LeftFirst(nets) ==
    LET i == SelectInSeq(xff, LAMBDA e : Stops(e, nets))
    IN  IF i > 0 THEN IpOf(xff[i])
        ELSE IF xff # <<>> /\ xff[1] # Blank THEN IpOf(xff[1])
        ELSE FromRealIp

\* From right to left over blanks and trusted addresses: the first other one is
\* the client, garbage ends the search without an answer; when all are trusted
\* the leftmost is taken, unless it is blank.
FromForwarded(nets) ==
    LET i == SelectLastInSeq(xff, LAMBDA e : Stops(e, nets))
    IN  IF i > 0 THEN IpOf(xff[i])
        ELSE IF xff # <<>> /\ xff[1] # Blank THEN IpOf(xff[1])
        ELSE FromRealIp

resolve_client_ip ==
    LET nets == parse_trusted_nets(trusted_proxies)
    IN  IF nets = {} \/ ~ip_in_trusted(Peer, nets) THEN Peer ELSE FromForwarded(nets)

diagnose_client_ip == [ip |-> resolve_client_ip,
                       peer_trusted |-> ip_in_trusted(Peer, parse_trusted_nets(trusted_proxies))]

-----------------------------------------------------------------------------
HeaderEntries == {Blank, Garbage} \cup {[bad |-> FALSE, ip |-> a] : a \in Wanderers}

IpInit ==
    /\ trusted_proxies \in ProxyConfigs
    /\ path \in {<<a>> : a \in Wanderers}
    /\ xff \in BoundedSeq(HeaderEntries, MaxForged)
    /\ real_ip \in {NoHeader} \cup {<<e>> : e \in HeaderEntries}

\* A proxy appends the address it got the request from and, if it sets
\* X-Real-IP at all, sets it to that address.
Forward(p) ==
    /\ Len(path) <= MaxHops
    /\ xff' = Append(xff, [bad |-> FALSE, ip |-> Peer])
    /\ real_ip' \in {real_ip, <<[bad |-> FALSE, ip |-> Peer]>>}
    /\ path' = Append(path, p)
    /\ UNCHANGED trusted_proxies

\* A proxy that only knows X-Real-IP and removes X-Forwarded-For
ForwardRealIp(p) ==
    /\ Len(path) <= MaxHops
    /\ xff' = <<>> /\ real_ip' = <<[bad |-> FALSE, ip |-> Peer]>>
    /\ path' = Append(path, p)
    /\ UNCHANGED trusted_proxies

IpNext == \E p \in Wanderers : Forward(p) \/ ForwardRealIp(p)

IpSpec == IpInit /\ [][IpNext]_ipVars

-----------------------------------------------------------------------------
IpTypeOK ==
    /\ trusted_proxies \in ProxyConfigs
    /\ path \in Seq(Wanderers) /\ Len(path) \in 1 .. MaxHops + 1
    /\ \A i \in DOMAIN xff : xff[i] \in HeaderEntries

\* The reference: a net stands for the addresses whose first bits are its own.
Trusted(a) ==
    \E i \in DOMAIN trusted_proxies :
        LET e == trusted_proxies[i]
        IN  /\ e.parses /\ e.ip.v = a.v /\ e.prefix <= Width(a.v)
            /\ \A b \in 1 .. e.prefix :
                   LET bit(x) == (x \div Pow2[Width(a.v) - b]) % 2 IN bit(a.bits) = bit(e.ip.bits)

\* When the proxies on the way forward X-Forwarded-For, a sender outside the
\* trusted nets cannot choose the address: the answer is the last untrusted
\* address the request has passed, whatever it wrote into the headers.
\* (A proxy that removes X-Forwarded-For keeps one address only: its sender.)
SenderCannotChoose ==
    LET i == SelectLastInSeq(path, LAMBDA a : ~Trusted(a))
        whole == Len(xff) >= Len(path) - 1
    IN  /\ i > 0 /\ whole => resolve_client_ip = path[i]
        /\ i > 0 => resolve_client_ip \in Range(path)

\* The address that limits and logs use is one the request really came from, whatever
\* headers its sender made up.
AddressTrue == IpTypeOK /\ SenderCannotChoose
=============================================================================
