------------------------------- MODULE MCEntry -------------------------------
(* Model checking of Entry: the clients that connect, honest and mistaken, *)
(* as the bytes they send and, apart from that, what they want.            *)
EXTENDS Entry

Domain == <<1, 2>>

\* The second secret of type ee names no host, the third is another one's.
TwoKinds == <<
  [type |-> "obfs", raw |-> "k1", domain |-> <<>>],
  [type |-> "tls",  raw |-> "k2", domain |-> Domain],
  [type |-> "tls",  raw |-> "k3", domain |-> <<>>],
  [type |-> "tls",  raw |-> "k1", domain |-> <<3>>]>>

-----------------------------------------------------------------------------
(* SOCKS5 *)

Greet(version, methods) == <<version, Len(methods)>> \o methods

Socks(port, eager, version, methods, cmd, atyp, addr) ==
  [kind |-> "plain", port |-> port, eager |-> eager,
   says |-> <<Greet(version, methods),
              <<5, cmd, 0, atyp>> \o (IF atyp = 3 THEN <<Len(addr)>> ELSE <<>>) \o addr \o <<1, 187>>>>,
   asks |-> [version |-> version, methods |-> {methods[i] : i \in DOMAIN methods},
             cmd |-> cmd, atyp |-> atyp, host |-> addr, port |-> 443]]

V4 == <<9, 8, 7, 6>>
V6 == [i \in 1 .. 16 |-> i]

SocksClients ==
       {Socks(p, e, 5, m, 1, 1, V4) : p \in {"main", "socks"}, e \in BOOLEAN,
          m \in {<<>>, <<0>>, <<2>>, <<2, 0>>, <<2, 1, 0>>}}
  \cup {Socks(p, e, 5, <<2, 0>>, 1, 3, a) : p \in {"main", "socks"}, e \in BOOLEAN,
          a \in {<<>>, <<7>>, <<5, 1, 0>>}}
  \cup {Socks("main", e, 5, <<0>>, c, t, a) : e \in BOOLEAN, c \in {1, 2}, t \in {4, 6}, a \in {V4, V6}}
  \cup {Socks("socks", FALSE, 4, <<0>>, 1, 1, V4)}

-----------------------------------------------------------------------------
(* MTProto: the init starts with the bytes that are seen on the wire *)

Obfs(seen, raw, tag, dc, eager) ==
  [kind |-> "obfs", port |-> "main", eager |-> eager,
   says |-> <<seen \o <<raw, tag, dc>>>>,
   asks |-> [raw |-> raw, tag |-> tag, dc |-> dc, sni |-> <<>>, hello |-> TRUE]]

Random == <<200, 5, 22, 4, 0>>

ObfsClients ==
       {Obfs(Random, "k1", "intermediate", dc, TRUE) : dc \in {2, -2, 65537, 6, -32768}}
  \cup {Obfs(Random, k, t, 1, FALSE) : k \in {"k1", "k2", "k9"}, t \in {"full", "random"}}
  \cup {Obfs(<<b, 1, 0, 0, 0>>, "k1", "abridged", 1, FALSE) : b \in {4, 5, 22, 71, 72}}
  \cup {Obfs(<<5, 3, 1, 1, 1>>, "k1", "abridged", 1, FALSE)}

\* A ClientHello; ext is what follows the compression methods.
Hello(handshake, session, suites, ext, raw, tag, dc) ==
  LET body == <<handshake, 0, 0, 0, 3, 3>> \o <<11, 12, 13, 14>> \o <<session>>
                \o <<15, raw, tag, dc>> \o suites \o ext
  IN <<22, 3, 1, 0, Len(body)>> \o body

Tls(hello, raw, tag, dc, sni, ok) ==
  [kind |-> "tls", port |-> "main", eager |-> FALSE, says |-> <<hello>>,
   asks |-> [raw |-> raw, tag |-> tag, dc |-> dc, sni |-> sni, hello |-> ok]]

Suites == <<0, 2, 19, 1>> \o <<1, 0>>       \* one cipher suite, one compression method
Ext(type, data) == <<0, type, 0, Len(data)>> \o data
NameExt(name) == Ext(0, <<0, Len(name) + 3, 0, 0, Len(name)>> \o name)
Extensions(e) == <<0, Len(e)>> \o e
Other == Ext(43, <<2, 3, 4>>)

\* A hello with these extensions, which name the host sni, by a client with key k2.
Names(e, sni) == Tls(Hello(1, 4, Suites, e, "k2", "full", 3), "k2", "full", 3, sni, TRUE)

TlsClients ==
  { Names(Extensions(Other \o NameExt(<<11, 2>>)), <<1, 2>>),
    Names(Extensions(NameExt(<<1>>) \o Other), <<1>>),
    Names(Extensions(NameExt(<<3>>) \o NameExt(Domain)), Domain),
    Names(Extensions(NameExt(Domain) \o NameExt(<<3>>)), <<3>>),
    Names(<<0, 90>> \o NameExt(<<3>>), <<3>>),           \* more extensions announced than sent
    Names(Extensions(<<0, 43, 0, 90>> \o NameExt(<<3>>)), <<>>),     \* an extension too long
    Names(Extensions(Ext(0, <<0, 9, 0, 0, 9, 1, 2>>)), <<>>),        \* a name too long
    Names(Extensions(Ext(0, <<0, 3, 0>>)), <<>>),                    \* no name
    Names(<<0>>, <<>>), Names(<<>>, <<>>),
    Tls(Hello(1, 4, <<>>, <<>>, "k2", "full", 3), "k2", "full", 3, <<>>, TRUE),
    Tls(Hello(1, 4, <<0, 99>>, <<>>, "k2", "full", 3), "k2", "full", 3, <<>>, TRUE),
    Tls(Hello(1, 4, <<0, 0, 99>>, <<>>, "k2", "full", 3), "k2", "full", 3, <<>>, TRUE),
    Tls(Hello(1, 3, Suites, <<>>, "k2", "full", 3), "k2", "full", 3, <<>>, FALSE),
    Tls(Hello(2, 4, Suites, <<>>, "k2", "full", 3), "k2", "full", 3, <<>>, FALSE),
    Tls(<<22, 3, 1, 0, 3, 1, 0, 0>>, "k2", "full", 3, <<>>, FALSE),
    Tls(Hello(1, 4, Suites, Extensions(NameExt(<<4>>)), "k3", "full", -1), "k3", "full", -1, <<4>>, TRUE),
    Tls(Hello(1, 4, Suites, Extensions(NameExt(<<3>>)), "k1", "full", 9), "k1", "full", 9, <<3>>, TRUE),
    Tls(Hello(1, 4, Suites, <<>>, "k2", "random", 3), "k2", "random", 3, <<>>, TRUE) }

AllClients == SocksClients \cup ObfsClients \cup TlsClients
=============================================================================
