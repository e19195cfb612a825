------------------------------- MODULE Startup -------------------------------
(***************************************************************************)
(* From the environment to a running proxy: config.Load (config/config.go) *)
(* reads the secrets, main (cmd/mtproxy/main.go) starts the statistics     *)
(* page, the Hysteria2 server and the proxy, each of which listens in a    *)
(* goroutine of its own, and HexString turns a secret into the text of the *)
(* link that is logged for it.                                             *)
(*                                                                         *)
(* A text is a sequence of characters: 0 .. 15 are the hexadecimal digits, *)
(* 26 .. 31 the digits A .. F.  A key has KeyLen bytes (16), so that a     *)
(* secret has 2 * KeyLen digits.  env.parts is SECRETS, split at its       *)
(* commas: the text of each part, and what it is meant to be.              *)
(***************************************************************************)
EXTENDS Integers, Sequences, FiniteSets, SequencesExt

CONSTANTS
  Environments,  \* the environments and machines the program may start in
  KeyLen,        \* bytes of a key, 16
  NameLen        \* digits of a secret that name it by default, 8

ASSUME StartupAssumption == KeyLen \in Nat \ {0} /\ NameLen \in 1 .. 2 * KeyLen

VARIABLES
  env,        \* the environment variables, files, and the ports that others use
  main,       \* the main goroutine: where it is in main, or "dead" (log.Fatal)
  left,       \* parts of SECRETS that Load has still to read
  secrets,    \* cfg.Secrets
  stats, hy2, socks     \* the goroutines of the three other listeners

listeners == <<stats, hy2, socks>>
vars == <<env, main, left, secrets, listeners>>

-----------------------------------------------------------------------------
(* Texts *)

Colon == 40
Space == 41
Digits == 0 .. 15
DD == <<13, 13>>
EE == <<14, 14>>

ToLower(text) == [i \in DOMAIN text |-> IF text[i] \in 26 .. 31 THEN text[i] - 16 ELSE text[i]]

TrimSpace(text) ==
  LET solid == {i \in DOMAIN text : text[i] # Space} IN
  IF solid = {} THEN <<>> ELSE SubSeq(text, Min(solid), Max(solid))

\* hex.DecodeString succeeds for
IsHex(text) == Len(text) % 2 = 0 /\ ToSet(text) \subseteq Digits
Decode(text) == [i \in 1 .. Len(text) \div 2 |-> 16 * text[2 * i - 1] + text[2 * i]]
Encode(bytes) ==
  [i \in 1 .. 2 * Len(bytes) |->
     LET b == bytes[(i + 1) \div 2] IN IF i % 2 = 1 THEN b \div 16 ELSE b % 16]

After(text, n) == SubSeq(text, n + 1, Len(text))

-----------------------------------------------------------------------------
(* parseSecret, HexString *)

Invalid == [type |-> "invalid", raw |-> <<>>, domain |-> <<>>]

\* Mutant: the key of a fake-TLS secret ends where its text ends.
ParseEE_WholeText(rest) ==
  IF Len(rest) < 2 * KeyLen \/ ~IsHex(rest) THEN Invalid
  ELSE [type |-> "ee", raw |-> Decode(rest), domain |-> <<>>]

ParseEE(rest) ==
  LET key == SubSeq(rest, 1, 2 * KeyLen)
      domain == After(rest, 2 * KeyLen)
  IN IF Len(rest) < 2 * KeyLen \/ ~IsHex(key) \/ ~IsHex(domain) THEN Invalid
     ELSE [type |-> "ee", raw |-> Decode(key), domain |-> Decode(domain)]

ParseDD(text) ==
  IF ~IsHex(text) \/ Len(text) # 2 * KeyLen THEN Invalid
  ELSE [type |-> "dd", raw |-> Decode(text), domain |-> <<>>]

parseSecret(text) ==
  IF IsPrefix(EE, text) THEN ParseEE(After(text, 2))
  ELSE IF IsPrefix(DD, text) THEN ParseDD(After(text, 2))
  ELSE ParseDD(text)

\* Mutant: a secret without host name is shown without its prefix.
HexString_Plain(s) == (IF s.type = "dd" THEN <<>> ELSE EE) \o Encode(s.raw) \o Encode(s.domain)

HexString(s) == (IF s.type = "dd" THEN DD ELSE EE) \o Encode(s.raw) \o Encode(s.domain)

-----------------------------------------------------------------------------
(* Load *)

NotANumber == -1    \* unset, or strconv.Atoi fails
envInt(value, default) == IF value = NotANumber THEN default ELSE value

Port == envInt(env.port, 443)
Socks5Port == envInt(env.socks, 0)
Hysteria2Port == envInt(env.hy2, 0)

StartupInit ==
  /\ env \in Environments
  /\ main = "load" /\ left = [i \in DOMAIN env.parts |-> env.parts[i].text] /\ secrets = <<>>
  /\ stats = "none" /\ hy2 = "none" /\ socks = "none"

Die == main' = "dead" /\ UNCHANGED <<left, secrets>>

\* Mutant: a secret without a name keeps none.
Named_AsGiven(sec, name, text) ==
  [type |-> sec.type, raw |-> sec.raw, domain |-> sec.domain, name |-> name]

Named(sec, name, text) ==
  [type |-> sec.type, raw |-> sec.raw, domain |-> sec.domain,
   name |-> IF name = <<>> THEN SubSeq(text, 1, Min({NameLen, Len(text)})) ELSE name]

\* Mutant: capital digits are not turned into small ones.
ReadPart_AsWritten(written) ==
  LET part == TrimSpace(written)
      colon == SelectInSeq(part, LAMBDA ch : ch = Colon)
      text == After(part, colon)
  IN Named(parseSecret(text), SubSeq(part, 1, colon - 1), text)

\* The secret in one part of SECRETS: [name:]secret.
ReadPart(written) ==
  LET part == TrimSpace(written)
      colon == SelectInSeq(part, LAMBDA ch : ch = Colon)
      text == After(part, colon)
  IN Named(parseSecret(ToLower(text)), SubSeq(part, 1, colon - 1), text)

\* As a function on the texts of the environments, which TLC computes once.
Read ==
  [text \in UNION {{e.parts[i].text : i \in DOMAIN e.parts} : e \in Environments} |-> ReadPart(text)]

\* One turn of the loop; an empty part is passed over, an invalid one is fatal.
LoadPart ==
  /\ main = "load" /\ left # <<>>
  /\ \/ /\ TrimSpace(Head(left)) = <<>>
        /\ left' = Tail(left) /\ UNCHANGED <<main, secrets>>
     \/ /\ TrimSpace(Head(left)) # <<>>
        /\ IF Read[Head(left)].type = "invalid" THEN Die
           ELSE /\ secrets' = Append(secrets, Read[Head(left)])
                /\ left' = Tail(left) /\ UNCHANGED main
  /\ UNCHANGED <<env, listeners>>

\* Without a secret, also when SECRETS is not set at all, the program ends.
LoadEnds ==
  /\ main = "load" /\ left = <<>>
  /\ IF secrets = <<>> THEN Die ELSE main' = "stats" /\ UNCHANGED <<left, secrets>>
  /\ UNCHANGED <<env, listeners>>

-----------------------------------------------------------------------------
(* main, and Listen of the proxy *)

ServeStats ==
  /\ main = "stats" /\ main' = "hysteria"
  /\ stats' = "bind"
  /\ UNCHANGED <<env, left, secrets, hy2, socks>>

StartHysteria ==
  /\ main = "hysteria"
  /\ IF Hysteria2Port # 0 /\ ~env.password THEN Die /\ UNCHANGED hy2
     ELSE /\ main' = "listen" /\ UNCHANGED <<left, secrets>>
          /\ hy2' = IF Hysteria2Port # 0 THEN "cert" ELSE "none"
  /\ UNCHANGED <<env, stats, socks>>

\* TCP ports in use, by others or by this program.
Busy ==
  env.taken \cup (IF main = "serve" THEN {Port} ELSE {})
            \cup (IF stats = "serve" THEN {env.statsPort} ELSE {})
            \cup (IF socks = "serve" THEN {Socks5Port} ELSE {})

\* The goroutine for SOCKS5_PORT starts once the main port listens.
Listen ==
  /\ main = "listen"
  /\ IF Port \in Busy THEN Die /\ UNCHANGED socks
     ELSE /\ main' = "serve" /\ UNCHANGED <<left, secrets>>
          /\ socks' = IF Socks5Port # 0 THEN "bind" ELSE "none"
  /\ UNCHANGED <<env, stats, hy2>>

MainStep == LoadPart \/ LoadEnds \/ ServeStats \/ StartHysteria \/ Listen

-----------------------------------------------------------------------------
(* The other goroutines.  log.Fatal in one of them ends the process. *)

\* ListenAndServe fails without a word, listenSOCKS5 with a line in the log.
StatsListen ==
  /\ main # "dead" /\ stats = "bind"
  /\ stats' = IF env.statsPort \in Busy THEN "ended" ELSE "serve"
  /\ UNCHANGED <<env, main, left, secrets, hy2, socks>>

SocksListen ==
  /\ main # "dead" /\ socks = "bind"
  /\ socks' = IF Socks5Port \in Busy THEN "ended" ELSE "serve"
  /\ UNCHANGED <<env, main, left, secrets, stats, hy2>>

\* A certificate is loaded if both files are named, else it is generated.
Hy2Certificate ==
  /\ main # "dead" /\ hy2 = "cert"
  /\ IF env.cert = "bad" THEN Die /\ UNCHANGED hy2
     ELSE hy2' = "bind" /\ UNCHANGED <<main, left, secrets>>
  /\ UNCHANGED <<env, stats, socks>>

\* Mutant: main logs the error of ListenHysteria2 and goes on.
Hy2Listen_Logged ==
  /\ main # "dead" /\ hy2 = "bind"
  /\ hy2' = IF env.udpTaken THEN "none" ELSE "serve"
  /\ UNCHANGED <<env, main, left, secrets, stats, socks>>

Hy2Listen ==
  /\ main # "dead" /\ hy2 = "bind"
  /\ IF env.udpTaken THEN Die /\ UNCHANGED hy2
     ELSE hy2' = "serve" /\ UNCHANGED <<main, left, secrets>>
  /\ UNCHANGED <<env, stats, socks>>

StartupNext == MainStep \/ StatsListen \/ SocksListen \/ Hy2Certificate \/ Hy2Listen

StartupSpec == StartupInit /\ [][StartupNext]_vars

\* Goroutines that can run do.
FairStartupSpec ==
  /\ StartupSpec
  /\ WF_vars(MainStep) /\ WF_vars(StatsListen) /\ WF_vars(SocksListen)
  /\ WF_vars(Hy2Certificate \/ Hy2Listen)

-----------------------------------------------------------------------------

(***************************************************************************)
(* What an operator writes into SECRETS (external), after the usage text:  *)
(* what relates the text of a part to what it is meant to be.  The actions *)
(* do not read what is meant.                                              *)
(***************************************************************************)
Byte == 0 .. 255

\* In small digits: 16 bytes, with dd before them, or with ee and a host name after them.
IsSecret(text) ==
  /\ ToSet(text) \subseteq Digits /\ Len(text) % 2 = 0
  /\ \/ Len(text) = 2 * KeyLen
     \/ Len(text) = 2 + 2 * KeyLen /\ IsPrefix(DD, text)
     \/ Len(text) >= 2 + 2 * KeyLen /\ IsPrefix(EE, text)

\* Which of these m is.
Spells(text, m) ==
  /\ m.raw \in Seq(Byte) /\ Len(m.raw) = KeyLen /\ m.domain \in Seq(Byte)
  /\ m.type = "dd" => m.domain = <<>>
  /\ text = IF m.type = "ee" THEN EE \o Encode(m.raw) \o Encode(m.domain)
            ELSE IF m.plain THEN Encode(m.raw) ELSE DD \o Encode(m.raw)

\* Spaces around text[lo .. hi], of which text[lo .. colon - 1] is the name and what
\* follows the colon the secret; without a colon (lo - 1) there is no name.
Layout(text, lo, colon, hi) ==
  /\ \A i \in DOMAIN text : i < lo \/ i > hi => text[i] = Space
  /\ text[lo] # Space
  /\ \A i \in lo .. hi : text[i] = Colon <=> i = colon
  /\ lo - 1 <= colon /\ colon < hi

SecretText(text, colon, hi) == SubSeq(text, colon + 1, hi)

\* A secret that is given no name has its own first digits for a name.
GivenName(text, lo, colon, hi) ==
  IF colon > lo THEN SubSeq(text, lo, colon - 1) ELSE SubSeq(SecretText(text, colon, hi), 1, NameLen)

Writes(m) ==
  \E lo, colon, hi \in 0 .. Len(m.text) :
    /\ lo > 0 /\ Layout(m.text, lo, colon, hi)
    /\ Spells(ToLower(SecretText(m.text, colon, hi)), m)
    /\ m.name = GivenName(m.text, lo, colon, hi)

IsNoSecret(text) ==
  \A lo, colon, hi \in 0 .. Len(text) :
    lo > 0 /\ Layout(text, lo, colon, hi) => ~IsSecret(ToLower(SecretText(text, colon, hi)))

IsBlank(text) == \A i \in DOMAIN text : text[i] = Space

ASSUME EnvironmentsAssumption ==
  \A e \in Environments :
    /\ Len(e.parts) \in Nat /\ e.parts = [i \in 1 .. Len(e.parts) |-> e.parts[i]]
    /\ \A i \in DOMAIN e.parts :
         LET m == e.parts[i] IN
           /\ m.text \in Seq(Nat)
           /\ \/ m.type = "blank" /\ IsBlank(m.text)
              \/ m.type = "invalid" /\ ~IsBlank(m.text) /\ IsNoSecret(m.text)
              \/ m.type \in {"dd", "ee"} /\ Writes(m)

-----------------------------------------------------------------------------

StartupTypeOK ==
  /\ main \in {"load", "stats", "hysteria", "listen", "serve", "dead"}
  /\ left \in Seq({env.parts[i].text : i \in DOMAIN env.parts})
  /\ stats \in {"none", "bind", "serve", "ended"}
  /\ hy2 \in {"none", "cert", "bind", "serve"}
  /\ socks \in {"none", "bind", "serve", "ended"}
  /\ secrets \in Seq([type : {"dd", "ee"}, raw : Seq(Byte), domain : Seq(Byte), name : Seq(Nat)])
  /\ \A i \in DOMAIN secrets : Len(secrets[i].raw) = KeyLen /\ secrets[i].name # <<>>

-----------------------------------------------------------------------------

\* The first n parts of SECRETS, without those that are not meant to be anything.
Meant(n) == {i \in 1 .. n : env.parts[i].type # "blank"}
AllMeant == Meant(Len(env.parts))

(***************************************************************************)
(* The usage text promises that a secret of 32 digits is a plain one.      *)
(* parseSecret takes one that begins with dd or ee for a prefixed one that *)
(* is too short (config.go, line 112), and refuses it.                     *)
(***************************************************************************)
TakenForPrefixed(m) == m.type = "dd" /\ m.plain /\ SubSeq(Encode(m.raw), 1, 2) \in {DD, EE}

\* Load yields the secrets that SECRETS means, in its order, whichever case, spaces,
\* empty parts and names they are written with.
LoadsWhatIsMeant ==
  main \notin {"load", "dead"} =>
    /\ Len(secrets) = Cardinality(AllMeant)
    /\ \A i \in AllMeant, f \in {"type", "raw", "domain", "name"} :
         secrets[Cardinality(Meant(i))][f] = env.parts[i][f]

\* The program ends for a reason it was given: SECRETS that mean nothing or that it
\* cannot read, a server it was asked for that cannot start, or a port that is in use,
\* by another program or by its own statistics page.
DiesForCause ==
  main = "dead" =>
    \/ AllMeant = {}
    \/ \E i \in AllMeant : env.parts[i].type = "invalid" \/ TakenForPrefixed(env.parts[i])
    \/ Hysteria2Port # 0 /\ (~env.password \/ env.cert = "bad" \/ env.udpTaken)
    \/ Port \in env.taken \/ (Port = env.statsPort /\ stats = "serve")

\* The link that is logged for a secret is read back as that secret.
LinkIsSecret ==
  \A i \in DOMAIN secrets :
    LET s == secrets[i] IN
      parseSecret(HexString(s)) = [type |-> s.type, raw |-> s.raw, domain |-> s.domain]

(***************************************************************************)
(* A start comes to an end: the program is dead, although it may have      *)
(* served clients for a while, or it serves the main port and Hysteria2 if *)
(* that was asked for.  Only a statistics page or a SOCKS5 port whose port *)
(* is in use are left out in silence, for ever (server.go, line 62).       *)
(***************************************************************************)
SettlesAsAsked ==
  <>[](\/ main = "dead"
       \/ /\ main = "serve" /\ hy2 = (IF Hysteria2Port # 0 THEN "serve" ELSE "none")
          /\ stats = "serve" \/ env.statsPort \in Busy
          /\ Socks5Port = 0 \/ socks = "serve" \/ Socks5Port \in Busy)
=============================================================================
