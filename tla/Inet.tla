-------------------------------- MODULE Inet --------------------------------
(***************************************************************************)
(* Addresses in the configuration (pg_rest_inet.c): what                   *)
(* pgrest_inet_parse_url makes of the value of a directive.                *)
(*                                                                         *)
(* A value is a record: its form ("unix", "inet6" in brackets, or "inet"), *)
(* its host, its port (what atoi makes of the text, None when there is no  *)
(* text) and, in brackets, whether they are closed as they should be. A    *)
(* host is a sequence: of tokens for an IPv6 address (a group of           *)
(* hexadecimal digits, a colon, a dotted quad, or anything else "x"), of   *)
(* numbers, dots and names otherwise. A dotted quad is "q", "e" when an    *)
(* octet behind the first is left out, or "b" for 255.255.255.255; one     *)
(* that pgrest_inet_inet_addr refuses for its octets is an "x".            *)
(***************************************************************************)
EXTENDS Integers, SequencesExt

CONSTANTS
    Words,      \* the words of an IPv6 address: 8
    Resolver,   \* host -> the addresses getaddrinfo finds for it
    Number,     \* token -> the number it is; other tokens are no numbers
    PathMax     \* the longest path of a unix domain socket

ASSUME InetAssumption ==
    /\ Words \in Nat /\ Words > 2
    /\ PathMax \in Nat \ {0}
    /\ \A h \in DOMAIN Resolver : \A i \in DOMAIN Resolver[h] :
          Resolver[h][i].family \in {"inet", "inet6", "other"}
    /\ \A c \in DOMAIN Number : Number[c] \in Nat

None == -1              \* no port is given
Star == <<"*">>
AnyAddr == <<0, 0, 0, 0>>
Broadcast == <<255, 255, 255, 255>>

-----------------------------------------------------------------------------
(* pgrest_atoi and pgrest_inet_inet_addr                                   *)

\* atoi: the number the text starts with.
Atoi(text) == IF text # <<>> /\ text[1] \in DOMAIN Number THEN Number[text[1]] ELSE 0

\* A number is the octet so far, a dot stores it; an octet that is left out is 0.
Octet(s, c) ==
    IF c = "." THEN [s EXCEPT !.addr = Append(@, s.octet), !.octet = 0]
    ELSE IF c \in DOMAIN Number THEN [s EXCEPT !.octet = Number[c], !.ok = @ /\ Number[c] <= 255]
         ELSE [s EXCEPT !.ok = FALSE]

\* The IPv4 address a text is, <<>> for INADDR_NONE, which is also the value
\* of the address 255.255.255.255.
InetAddr(text) ==
    LET after[i \in 0 .. Len(text)] ==
            IF i = 0 THEN [addr |-> <<>>, octet |-> 0, ok |-> TRUE]
            ELSE CHOOSE s \in {Octet(before, text[i]) : before \in {after[i - 1]}} : TRUE
        s == after[Len(text)]
        addr == Append(s.addr, s.octet)
    IN  IF s.ok /\ Len(addr) = 4 /\ addr # Broadcast THEN addr ELSE <<>>

-----------------------------------------------------------------------------
(* pgrest_inet_inet6_addr                                                  *)

Zero == "0"
Zeros(n) == [i \in 1..n |-> Zero]

\* The parser: the words stored so far, the group being read, where the "::"
\* was (-1 for nowhere), the words still missing, whether a colon was seen.
Start6 == [words |-> <<>>, nibbles |-> FALSE, word |-> Zero, zero |-> -1,
           n |-> Words, digit |-> FALSE, ok |-> TRUE, done |-> FALSE]

Fail6(s) == [s EXCEPT !.ok = FALSE, !.done = TRUE]

\* A colon ends a group, or is the second one of a "::".
Colon(s) ==
    CASE s.nibbles /\ s.n > 1 ->
             [s EXCEPT !.words = Append(@, s.word), !.n = @ - 1, !.nibbles = FALSE,
                       !.word = Zero, !.digit = TRUE]
      [] ~s.nibbles /\ s.zero = -1 -> [s EXCEPT !.zero = Len(s.words), !.digit = TRUE]
      [] OTHER -> Fail6(s)

\* A dotted quad is two words, and must be the end of the text. Octets that are
\* left out are 0; the address of all ones is also what stands for no address.
Quad(s, c, last) ==
    IF s.n < 2 \/ ~s.digit \/ ~last \/ c = "b"
    THEN Fail6(s)
    ELSE [s EXCEPT !.words = Append(@, "q1"), !.word = "q2", !.n = @ - 1,
                   !.nibbles = TRUE, !.done = TRUE]

Token(s, c, last) ==
    CASE s.done -> s
      [] ~s.done /\ c = ":" -> Colon(s)
      [] ~s.done /\ c \in {"q", "e", "b"} -> Quad(s, c, last)
      [] ~s.done /\ c = "x" -> Fail6(s)
      [] OTHER -> [s EXCEPT !.nibbles = TRUE, !.word = c]

\* A text is read token by token, behind a first colon.
Read6(text) ==
    LET t == IF text # <<>> /\ text[1] = ":" THEN Tail(text) ELSE text
        after[i \in 0..Len(t)] ==
            IF i = 0 THEN Start6
            ELSE CHOOSE s \in {Token(before, t[i], i = Len(t)) : before \in {after[i - 1]}} : TRUE
    IN  after[Len(t)]

\* Seeded fault: the words behind the "::" are not moved to the end.
End6Unmoved(s) ==
    LET words == Append(s.words, s.word)
    IN  [ok |-> s.ok /\ (s.nibbles \/ s.zero # -1) /\ (s.n = 1 => s.zero = -1) /\ (s.n > 1 => s.zero # -1),
         addr |-> words \o Zeros(Words - Len(words))]

\* The end of the text: the last group is stored, even if the text ended with
\* a colon, and the "::" takes the words that are still missing.
End6(s) ==
    LET words == Append(s.words, s.word)
        n == s.n - 1
    IN  CASE ~s.ok \/ (~s.nibbles /\ s.zero = -1) -> [ok |-> FALSE, addr |-> <<>>]
          [] s.ok /\ n > 0 /\ s.zero # -1 ->
                 [ok |-> TRUE, addr |-> SubSeq(words, 1, s.zero) \o Zeros(n)
                                        \o SubSeq(words, s.zero + 1, Len(words))]
          [] s.ok /\ s.nibbles /\ n = 0 /\ s.zero = -1 -> [ok |-> TRUE, addr |-> words]
          [] OTHER -> [ok |-> FALSE, addr |-> <<>>]

Inet6Addr(text) == IF text = <<>> THEN [ok |-> FALSE, addr |-> <<>>] ELSE End6(Read6(text))

-----------------------------------------------------------------------------
(* pgrest_url_t. How a value is read is [listen, noResolve, default].      *)

NoUrl == [ok |-> TRUE, family |-> "inet", addr |-> AnyAddr, port |-> 0, noPort |-> FALSE,
          wildcard |-> FALSE, host |-> <<>>, addrs |-> <<>>]

Refused(r) == [r EXCEPT !.ok = FALSE]

GoodPort(n) == n \in 1 .. 65535

\* One address, the one that was parsed.
Single(r) == [r EXCEPT !.addrs = <<[family |-> r.family, addr |-> r.addr, port |-> r.port]>>]

\* The port behind the host, or the default one when there is none.
WithPort(r, u, how) ==
    [r EXCEPT !.port = IF u.port = None THEN how.default ELSE u.port,
              !.noPort = u.port = None]

ParseUnix(u) ==
    LET r == [NoUrl EXCEPT !.family = "unix", !.addr = u.host, !.host = u.host]
    IN  IF Len(u.host) \in 1 .. PathMax THEN Single(r) ELSE Refused(r)

\* The address of all interfaces makes the url a wildcard.
Unspecified(r) ==
    [r EXCEPT !.wildcard = r.ok /\ r.addr = IF r.family = "inet6" THEN Zeros(Words) ELSE AnyAddr]

\* An IPv6 address, in brackets.
ParseInet6(u, how) ==
    LET a == Inet6Addr(u.host)
        r == [WithPort(NoUrl, u, how) EXCEPT !.family = "inet6", !.host = u.host]
    IN  IF ~u.closed \/ (u.port # None /\ ~GoodPort(u.port)) \/ ~a.ok
        THEN Refused(r)
        ELSE Single(Unspecified([r EXCEPT !.addr = a.addr]))

\* Seeded fault: the addresses stay in the order they were found in.
ResolveHostAsFound(r) ==
    LET found == SelectSeq(Resolver[r.host], LAMBDA a : a.family # "other")
        all == [i \in DOMAIN found |-> found[i] @@ [port |-> r.port]]
    IN  IF all = <<>> THEN Refused(r)
        ELSE [r EXCEPT !.addrs = all, !.family = all[1].family, !.addr = all[1].addr]

\* pgrest_inet_resolve_host: IPv4 addresses first, then IPv6, others left out;
\* the first one is the address of the url.
ResolveHost(r) ==
    LET of(f) == SelectSeq(Resolver[r.host], LAMBDA a : a.family = f)
        found == of("inet") \o of("inet6")
        all == [i \in DOMAIN found |-> found[i] @@ [port |-> r.port]]
    IN  IF all = <<>> THEN Refused(r)
        ELSE [r EXCEPT !.addrs = all, !.family = all[1].family, !.addr = all[1].addr]

\* A value without a port, for a listener: it is read as a port, whatever
\* follows the digits it starts with.
PortOnly(u) ==
    IF GoodPort(Atoi(u.host))
    THEN [NoUrl EXCEPT !.port = Atoi(u.host), !.wildcard = TRUE]
    ELSE Refused(NoUrl)

\* Seeded fault: a host that resolves to all interfaces is not a wildcard.
ParseInetTame(u, how) ==
    LET r == [WithPort(NoUrl, u, how) EXCEPT !.host = u.host]
    IN  CASE u.port # None /\ ~GoodPort(u.port) -> Refused(r)
          [] u.port = None /\ how.listen -> PortOnly(u)
          [] u.host = <<>> /\ (GoodPort(u.port) \/ ~how.listen) -> Refused(r)
          [] how.listen /\ u.host = Star /\ GoodPort(u.port) -> [r EXCEPT !.wildcard = TRUE]
          [] OTHER ->
                 IF InetAddr(u.host) # <<>>
                 THEN Single(Unspecified([r EXCEPT !.addr = InetAddr(u.host)]))
                 ELSE IF how.noResolve THEN r ELSE ResolveHost(r)

\* A host is an IPv4 address or else a name; the first address that is found for
\* the name decides whether it stands for all interfaces.
ParseInet(u, how) ==
    LET r == [WithPort(NoUrl, u, how) EXCEPT !.host = u.host]
    IN  CASE u.port # None /\ ~GoodPort(u.port) -> Refused(r)
          [] u.port = None /\ how.listen -> PortOnly(u)
          [] u.host = <<>> /\ (GoodPort(u.port) \/ ~how.listen) -> Refused(r)
          [] how.listen /\ u.host = Star /\ GoodPort(u.port) -> [r EXCEPT !.wildcard = TRUE]
          [] OTHER ->
                 IF InetAddr(u.host) # <<>>
                 THEN Single(Unspecified([r EXCEPT !.addr = InetAddr(u.host)]))
                 ELSE IF how.noResolve THEN r ELSE Unspecified(ResolveHost(r))

\* pgrest_inet_parse_url
ParseUrl(u, how) ==
    CASE u.form = "unix" -> ParseUnix(u)
      [] u.form = "inet6" -> ParseInet6(u, how)
      [] u.form = "inet" -> ParseInet(u, how)

-----------------------------------------------------------------------------
(* What the text of an IPv6 address means: groups and colons take turns,   *)
(* at most one "::" stands for one or more groups of zeros, and a dotted   *)
(* quad is the last two.                                                   *)

Groups(text) ==
    LET words == SelectSeq(text, LAMBDA c : c # ":")
    IN  IF words # <<>> /\ Last(words) \in {"q", "b"}
        THEN Front(words) \o (IF Last(words) = "q" THEN <<"q1", "q2">> ELSE <<"b1", "b2">>)
        ELSE words

\* Text without "::": no colon at either end.
Plain(text) ==
    /\ ToSet(text) \cap {"x", "e"} = {}
    /\ \A i \in DOMAIN text : (text[i] \in {"q", "b"} => i = Len(text)) /\ (text[i] = ":" <=> i % 2 = 0)
    /\ text = <<>> \/ Last(text) # ":"

Denotes(text) ==
    LET cuts == {i \in 1 .. Len(text) - 1 : text[i] = ":" /\ text[i + 1] = ":"}
        halves(i) == <<SubSeq(text, 1, i - 1), SubSeq(text, i + 2, Len(text))>>
    IN  {Groups(text) : t \in {t \in {text} : Plain(t) /\ Len(Groups(t)) = Words}}
        \cup UNION {{Groups(halves(i)[1]) \o Zeros(k) \o Groups(halves(i)[2]) : k \in
                        {k \in 1 .. Words :
                            /\ Plain(halves(i)[1]) /\ Plain(halves(i)[2])
                            /\ ToSet(halves(i)[1]) \cap {"q", "b"} = {}
                            /\ Len(Groups(halves(i)[1])) + k + Len(Groups(halves(i)[2])) = Words}}
                    : i \in cuts}
=============================================================================
