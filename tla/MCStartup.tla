------------------------------ MODULE MCStartup ------------------------------
(* Model checking of Startup: SECRETS as written and as meant, and machines. *)
EXTENDS Startup

\* Keys of two bytes; k1 is like any, the digits of k2 begin with dd, those of k3 with ee.
k1 == <<18, 162>>
k2 == <<221, 1>>
k3 == <<238, 255>>
Host == <<222, 9>>

Upper(text) == <<>> \o [i \in DOMAIN text |-> IF text[i] \in 10 .. 15 THEN text[i] + 16 ELSE text[i]]
FirstDigits(text) == SubSeq(text, 1, NameLen)

Part(text, type, raw, domain, name, plain) ==
  [text |-> <<>> \o text, type |-> type, raw |-> raw, domain |-> domain,
   name |-> <<>> \o name, plain |-> plain]

WithDD(k) == Part(DD \o Encode(k), "dd", k, <<>>, FirstDigits(DD \o Encode(k)), FALSE)
Plain(k) == Part(Encode(k), "dd", k, <<>>, FirstDigits(Encode(k)), TRUE)
WithEE(k, d) ==
  Part(EE \o Encode(k) \o Encode(d), "ee", k, d, FirstDigits(EE \o Encode(k)), FALSE)

\* The same part with a name, which may itself be written in digits.
By(name, p) == [p EXCEPT !.text = name \o <<Colon>> \o @, !.name = name]
InCapitals(p) == [p EXCEPT !.text = Upper(p.text), !.name = FirstDigits(Upper(p.text))]
Padded(p) == [p EXCEPT !.text = <<Space>> \o @ \o <<Space, Space>>]

Nonsense(text) == Part(text, "invalid", <<>>, <<>>, <<>>, FALSE)
Blank(text) == Part(text, "blank", <<>>, <<>>, <<>>, FALSE)

Parts ==
  { WithDD(k1), WithDD(k2), WithDD(k3), Plain(k1), Plain(k2), Plain(k3),
    WithEE(k1, <<>>), WithEE(k2, Host), WithEE(k3, <<7>>),
    By(<<50>>, WithEE(k1, Host)), By(<<13, 13, 1>>, Plain(k1)), [WithDD(k1) EXCEPT !.text = <<Colon>> \o @],
    InCapitals(WithDD(k1)), InCapitals(WithEE(k3, Host)), InCapitals(Plain(k1)), Padded(WithDD(k1)),
    Blank(<<>>), Blank(<<Space>>),
    Nonsense(<<60>>), Nonsense(Encode(<<18>>)), Nonsense(Encode(k1) \o <<1>>),
    Nonsense(DD \o Encode(<<1, 2, 3>>)), Nonsense(EE \o <<1>>),
    Nonsense(EE \o Encode(k1) \o <<1>>), Nonsense(EE \o Encode(k1) \o <<1, 60>>),
    Nonsense(<<50, Colon, 51, Colon>> \o DD \o Encode(k1)), Nonsense(<<50, Colon>>) }

Lists == {<<>>} \cup {<<p>> : p \in Parts} \cup {<<p, q>> : p \in Parts, q \in Parts}

Env(list, port, socks5, stat, hysteria, password, cert, taken, udp) ==
  [parts |-> list, port |-> port, socks |-> socks5, statsPort |-> stat, hy2 |-> hysteria,
   password |-> password, cert |-> cert, taken |-> taken, udpTaken |-> udp]

Readings ==
  {Env(list, NotANumber, NotANumber, 80, NotANumber, FALSE, "none", {}, FALSE) : list \in Lists}

Machines ==
  {Env(<<WithDD(k1)>>, port, socks5, stat, hysteria, password, cert, taken, udp) :
     port \in {NotANumber, 443, 80}, socks5 \in {NotANumber, 0, 443, 108}, stat \in {80, 443},
     hysteria \in {NotANumber, 843}, password \in BOOLEAN, cert \in {"none", "bad"},
     taken \in {{}, {443}, {80, 108}}, udp \in BOOLEAN}

AllEnvironments == Readings \cup Machines
=============================================================================
