-------------------------- MODULE ListenConfProofs --------------------------
(***************************************************************************)
(* Proof that the grouping of the listen directives refuses exactly the    *)
(* files in which two directives contradict each other, for any number of  *)
(* servers, ports and addresses. The grouping never compares directives    *)
(* with each other, only a directive with the entry of its address; so the *)
(* invariant says what an entry remembers of the directives before.        *)
(***************************************************************************)
EXTENDS ListenConf, ListFacts

ListenSet == [owner : Nat, port : Ports, ip : Ips \cup {AnyIp},
              bind : BOOLEAN, default : BOOLEAN, http2 : BOOLEAN]

AddrSet == [ip : Ips \cup {AnyIp}, bind : BOOLEAN, default : BOOLEAN,
            http2 : BOOLEAN, server : Nat, servers : Seq(Nat),
            hash : [Names -> Nat]]

PortSet == [port : Ports, addrs : Seq(AddrSet)]

\* Directive i is for the address of entry j of port k.
At(i, k, j) ==
    listeners[i].port = ports[k].port /\ listeners[i].ip = ports[k].addrs[j].ip

Before == 1 .. next - 1

\* Every directive seen so far has an entry.
Entered ==
    \A i \in Before : \E k \in DOMAIN ports :
       \E j \in DOMAIN ports[k].addrs : At(i, k, j)

\* There is one entry for an address.
OneEntry ==
    /\ \A k, m \in DOMAIN ports : ports[k].port = ports[m].port => k = m
    /\ \A k \in DOMAIN ports : \A j, m \in DOMAIN ports[k].addrs :
          ports[k].addrs[j].ip = ports[k].addrs[m].ip => j = m

\* The bits of an entry say whether a directive for it had them.
BitsExact ==
    \A k \in DOMAIN ports : \A j \in DOMAIN ports[k].addrs :
       /\ ports[k].addrs[j].bind <=>
             \E i \in Before : At(i, k, j) /\ listeners[i].bind
       /\ ports[k].addrs[j].default <=>
             \E i \in Before : At(i, k, j) /\ listeners[i].default

\* The servers of an entry are servers seen so far.
ServersSeen ==
    \A k \in DOMAIN ports : \A j \in DOMAIN ports[k].addrs :
       ToSet(ports[k].addrs[j].servers) \subseteq Before

\* No two directives seen so far clash.
NoneYet == \A i, j \in Before : i < j => ~Clash(i, j)

AddInv ==
    /\ next \in 1 .. Len(listeners) + 1
    /\ ports \in Seq(PortSet)
    /\ Entered
    /\ OneEntry
    /\ BitsExact
    /\ ServersSeen
    /\ NoneYet

ConfInv ==
    /\ servers \in Seq(SUBSET Names)
    /\ listeners \in Seq(ListenSet)
    /\ phase = "parse" => ports = <<>> /\ next = 1
    /\ phase = "add" => AddInv
    /\ RefusedIffContradiction

\* The directive of a turn of the loop.
LEMMA ListenerType ==
    ASSUME ConfInv, Adding
    PROVE  /\ AddInv
           /\ next \in 1 .. Len(listeners) /\ Len(listeners) \in Nat
           /\ DOMAIN listeners = 1 .. Len(listeners)
           /\ Listener \in ListenSet /\ Listener = listeners[next]
           /\ \A i \in 1 .. Len(listeners) : listeners[i] \in ListenSet
           /\ Before \subseteq 1 .. Len(listeners) /\ next \notin Before
<1>1. AddInv /\ next \in 1 .. Len(listeners) /\ Len(listeners) \in Nat
  BY DEF ConfInv, AddInv, Adding
<1> QED BY <1>1 DEF ConfInv, Listener, Before

\* A new entry has the type of an entry.
LEMMA NewAddressType ==
    ASSUME NEW s \in Nat, NEW l \in ListenSet
    PROVE  /\ NewAddress(s, l) \in AddrSet
           /\ NewAddress(s, l).ip = l.ip
           /\ NewAddress(s, l).bind = l.bind
           /\ NewAddress(s, l).default = l.default
           /\ ToSet(NewAddress(s, l).servers) = {s}
<1>1. <<s>> \in Seq(Nat) /\ ToSet(<<s>>) = {s}
  <2>1. <<s>> \in Seq(Nat) /\ DOMAIN <<s>> = {1} /\ <<s>>[1] = s
    OBVIOUS
  <2> QED BY <2>1, Zenon DEF ToSet
<1>2. [n \in Names |-> 0] \in [Names -> Nat]
  OBVIOUS
<1> QED BY <1>1, <1>2 DEF NewAddress, AddrSet, ListenSet

\* A merged entry has the type of an entry, the same address, and the bits of
\* both.
LEMMA MergeType ==
    ASSUME NEW s \in Nat, NEW a \in AddrSet, NEW l \in ListenSet
    PROVE  /\ Merge(s, a, l) \in AddrSet
           /\ Merge(s, a, l).ip = a.ip
           /\ Merge(s, a, l).bind = (a.bind \/ l.bind)
           /\ Merge(s, a, l).default = (a.default \/ l.default)
           /\ ToSet(Merge(s, a, l).servers) = ToSet(a.servers) \cup {s}
<1> DEFINE m == Merge(s, a, l)
<1>1. a.servers \in Seq(Nat) /\ a.bind \in BOOLEAN /\ a.default \in BOOLEAN
      /\ a.http2 \in BOOLEAN /\ a.server \in Nat
      /\ l.bind \in BOOLEAN /\ l.default \in BOOLEAN /\ l.http2 \in BOOLEAN
  BY DEF AddrSet, ListenSet
<1>2. Append(a.servers, s) \in Seq(Nat)
  BY <1>1
<1>3. ToSet(Append(a.servers, s)) = ToSet(a.servers) \cup {s}
  <2> DEFINE t == Append(a.servers, s)
             n == Len(a.servers)
  <2>1. /\ n \in Nat /\ DOMAIN a.servers = 1..n /\ DOMAIN t = 1..(n + 1)
        /\ t[n + 1] = s /\ \A i \in 1..n : t[i] = a.servers[i]
    BY <1>1
  <2> HIDE DEF t, n
  <2>2. 1..(n + 1) = (1..n) \cup {n + 1}
    BY <2>1
  <2> QED BY <2>1, <2>2 DEF ToSet, t
<1>4. /\ m.servers = Append(a.servers, s) /\ m.ip = a.ip
      /\ m.bind = (a.bind \/ l.bind) /\ m.default = (a.default \/ l.default)
  BY DEF Merge, AddrSet
<1>5. m \in AddrSet
  BY <1>1, <1>2 DEF Merge, AddrSet
<1> QED BY <1>3, <1>4, <1>5
-----------------------------------------------------------------------------
(* What one turn of the loop does to the entries. The three ways to enter  *)
(* a directive are put in the same form: an entry for its address is there *)
(* afterwards, and it has the bits it had and those of the directive.      *)

\* Entry j of port k was there before the step, with the same address.
Kept(k, j) ==
    /\ k \in DOMAIN ports /\ j \in DOMAIN ports[k].addrs
    /\ ports'[k].port = ports[k].port
    /\ ports'[k].addrs[j].ip = ports[k].addrs[j].ip

\* Entry j of port k does not change.
Same(k, j) == ports'[k].addrs[j] = ports[k].addrs[j]

\* Entry j of port k is the one of the directive.
Mine(k, j) ==
    ports'[k].port = Listener.port /\ ports'[k].addrs[j].ip = Listener.ip

\* It had bits already and has those of the directive too.
Joined(k, j) ==
    /\ Kept(k, j)
    /\ ports'[k].addrs[j] = Merge(next, ports[k].addrs[j], Listener)
    /\ ports'[k].addrs[j].bind = (ports[k].addrs[j].bind \/ Listener.bind)
    /\ ports'[k].addrs[j].default = (ports[k].addrs[j].default \/ Listener.default)
    /\ ToSet(ports'[k].addrs[j].servers) = ToSet(ports[k].addrs[j].servers) \cup {next}
    /\ ~(ports[k].addrs[j].bind /\ Listener.bind)
    /\ ~(ports[k].addrs[j].default /\ Listener.default)

\* It is new and has those of the directive; no directive before was for it.
Opened(k, j) ==
    /\ ports'[k].addrs[j] = NewAddress(next, Listener)
    /\ ports'[k].addrs[j].bind = Listener.bind
    /\ ports'[k].addrs[j].default = Listener.default
    /\ ToSet(ports'[k].addrs[j].servers) = {next}
    /\ \A m \in DOMAIN ports : \A n \in DOMAIN ports[m].addrs :
          ~(ports[m].port = Listener.port /\ ports[m].addrs[n].ip = Listener.ip)

Turn ==
    /\ Adding
    /\ next' = next + 1
    /\ UNCHANGED <<phase, servers, listeners>>
    /\ ports' \in Seq(PortSet)
    /\ OneEntry'
    /\ \A k \in DOMAIN ports : k \in DOMAIN ports' /\
          \A j \in DOMAIN ports[k].addrs : j \in DOMAIN ports'[k].addrs /\ Kept(k, j)
    /\ \A k \in DOMAIN ports' : \A j \in DOMAIN ports'[k].addrs :
          \/ ~Mine(k, j) /\ Kept(k, j) /\ Same(k, j)
          \/ Mine(k, j) /\ (Joined(k, j) \/ Opened(k, j))
    /\ \E k \in DOMAIN ports' : \E j \in DOMAIN ports'[k].addrs : Mine(k, j)

\* The types of the entries.
LEMMA EntryTypes ==
    ASSUME NEW q \in Seq(PortSet)
    PROVE  /\ Len(q) \in Nat /\ DOMAIN q = 1 .. Len(q)
           /\ \A k \in DOMAIN q :
                 /\ q[k] \in PortSet /\ q[k].port \in Ports /\ q[k].addrs \in Seq(AddrSet)
                 /\ Len(q[k].addrs) \in Nat
                 /\ DOMAIN q[k].addrs = 1 .. Len(q[k].addrs)
                 /\ \A j \in DOMAIN q[k].addrs : q[k].addrs[j] \in AddrSet
<1>1. Len(q) \in Nat /\ DOMAIN q = 1 .. Len(q) /\ \A k \in DOMAIN q : q[k] \in PortSet
  OBVIOUS
<1>2. ASSUME NEW p \in PortSet
      PROVE  /\ p.port \in Ports /\ p.addrs \in Seq(AddrSet) /\ Len(p.addrs) \in Nat
             /\ DOMAIN p.addrs = 1 .. Len(p.addrs)
             /\ \A j \in DOMAIN p.addrs : p.addrs[j] \in AddrSet
  BY DEF PortSet
<1> QED BY <1>1, <1>2

\* A port with its first address.
LEMMA PortTurn ==
    ASSUME ConfInv, AddPort
    PROVE  Turn
<1> DEFINE a == NewAddress(next, Listener)
           p == [port |-> Listener.port, addrs |-> <<a>>]
           n == Len(ports)
<1>1. /\ Adding /\ \A k \in DOMAIN ports : ports[k].port # Listener.port
      /\ ports' = Append(ports, p)
      /\ next' = next + 1 /\ UNCHANGED <<phase, servers, listeners>>
  BY DEF AddPort, SamePort
<1>2. /\ next \in Nat /\ Listener \in ListenSet /\ ports \in Seq(PortSet) /\ OneEntry
  BY <1>1, ListenerType DEF AddInv
<1>3. /\ a \in AddrSet /\ a.ip = Listener.ip /\ a.bind = Listener.bind
      /\ a.default = Listener.default /\ ToSet(a.servers) = {next}
  BY <1>2, NewAddressType
<1> HIDE DEF a
<1>4. <<a>> \in Seq(AddrSet) /\ DOMAIN <<a>> = {1} /\ <<a>>[1] = a
  BY <1>3
<1>5. Listener.port \in Ports
  BY <1>2 DEF ListenSet
<1>6. p \in PortSet /\ p.port = Listener.port /\ p.addrs = <<a>>
  BY <1>4, <1>5 DEF PortSet
<1>6a. DOMAIN p.addrs = {1} /\ p.addrs[1] = a
  BY <1>4, <1>6, Zenon
<1> HIDE DEF p
<1>7. n \in Nat /\ DOMAIN ports = 1 .. n
  BY <1>2
<1>8. /\ ports' \in Seq(PortSet) /\ DOMAIN ports' = 1 .. (n + 1)
      /\ ports'[n + 1] = p /\ \A k \in 1 .. n : ports'[k] = ports[k]
  BY <1>1, <1>2, <1>6
<1> HIDE DEF n
<1>9. \A k \in DOMAIN ports' : k \in DOMAIN ports \/ k = n + 1
  BY <1>7, <1>8
<1>9a. n + 1 \notin DOMAIN ports /\ n + 1 \in DOMAIN ports' /\ DOMAIN ports \subseteq DOMAIN ports'
  BY <1>7, <1>8
<1>9b. \A k \in DOMAIN ports : ports'[k] = ports[k]
  BY <1>7, <1>8
<1>10. OneEntry'
  <2>1. ASSUME NEW k \in DOMAIN ports', NEW m \in DOMAIN ports', ports'[k].port = ports'[m].port
        PROVE  k = m
    BY <1>1, <1>2, <1>6, <1>8, <1>9, <1>9b, <2>1 DEF OneEntry
  <2>2. ASSUME NEW k \in DOMAIN ports', NEW j \in DOMAIN ports'[k].addrs,
               NEW m \in DOMAIN ports'[k].addrs, ports'[k].addrs[j].ip = ports'[k].addrs[m].ip
        PROVE  j = m
    BY <1>2, <1>6a, <1>8, <1>9, <1>9b, <2>2 DEF OneEntry
  <2> QED BY <2>1, <2>2 DEF OneEntry
<1>11. ASSUME NEW k \in DOMAIN ports
       PROVE  k \in DOMAIN ports' /\
              \A j \in DOMAIN ports[k].addrs : j \in DOMAIN ports'[k].addrs /\ Kept(k, j)
  BY <1>9a, <1>9b DEF Kept
<1>12. ASSUME NEW k \in DOMAIN ports', NEW j \in DOMAIN ports'[k].addrs
       PROVE  \/ ~Mine(k, j) /\ Kept(k, j) /\ Same(k, j)
              \/ Mine(k, j) /\ (Joined(k, j) \/ Opened(k, j))
  <2>1. CASE k \in DOMAIN ports
    BY <1>1, <1>9b, <2>1 DEF Mine, Kept, Same
  <2>2. CASE k = n + 1
    <3>1. j = 1 /\ ports'[k].addrs[j] = a /\ ports'[k].port = Listener.port
      BY <1>6, <1>6a, <1>8, <2>2
    <3> QED BY <1>1, <1>3, <3>1 DEF Mine, Opened, a
  <2> QED BY <1>9, <2>1, <2>2
<1>13. \E k \in DOMAIN ports' : \E j \in DOMAIN ports'[k].addrs : Mine(k, j)
  <2>1. 1 \in DOMAIN ports'[n + 1].addrs /\ Mine(n + 1, 1)
    BY <1>3, <1>6, <1>6a, <1>8 DEF Mine
  <2> QED BY <1>9a, <2>1
<1> QED BY <1>1, <1>8, <1>10, <1>11, <1>12, <1>13 DEF Turn
\* One more address of a port.
LEMMA AddressTurn ==
    ASSUME ConfInv, AddAddress
    PROVE  Turn
<1> DEFINE a == NewAddress(next, Listener)
<1>1. PICK k0 \in DOMAIN ports :
         /\ Adding /\ ports[k0].port = Listener.port
         /\ \A j \in DOMAIN ports[k0].addrs :
               ~(ports[k0].port = Listener.port /\ ports[k0].addrs[j].ip = Listener.ip)
         /\ ports' = [ports EXCEPT ![k0].addrs = Append(@, a)]
         /\ next' = next + 1 /\ UNCHANGED <<phase, servers, listeners>>
  BY DEF AddAddress, SamePort, SameAddress
<1>2. /\ next \in Nat /\ Listener \in ListenSet /\ ports \in Seq(PortSet) /\ OneEntry
  BY <1>1, ListenerType DEF AddInv
<1>3. /\ a \in AddrSet /\ a.ip = Listener.ip /\ a.bind = Listener.bind
      /\ a.default = Listener.default /\ ToSet(a.servers) = {next}
  BY <1>2, NewAddressType
<1> HIDE DEF a
<1> DEFINE old == ports[k0].addrs
           n == Len(old)
           p == [ports[k0] EXCEPT !.addrs = Append(old, a)]
<1>4. old \in Seq(AddrSet) /\ n \in Nat /\ DOMAIN old = 1 .. n /\ ports[k0] \in PortSet
  BY <1>2, EntryTypes
<1>5. /\ Append(old, a) \in Seq(AddrSet) /\ DOMAIN Append(old, a) = 1 .. (n + 1)
      /\ Append(old, a)[n + 1] = a /\ \A j \in 1 .. n : Append(old, a)[j] = old[j]
  BY <1>3, <1>4
<1>6. p \in PortSet /\ p.port = ports[k0].port /\ p.addrs = Append(old, a)
  BY <1>4, <1>5 DEF PortSet
<1>7. ports' = [ports EXCEPT ![k0] = p]
  BY <1>1
<1>8. /\ DOMAIN p.addrs = 1 .. (n + 1) /\ p.addrs[n + 1] = a
      /\ \A j \in 1 .. n : p.addrs[j] = old[j]
  BY <1>5, <1>6, Zenon
<1> HIDE DEF p
<1>9. /\ ports' \in Seq(PortSet) /\ DOMAIN ports' = DOMAIN ports
      /\ ports'[k0] = p /\ \A k \in DOMAIN ports : k # k0 => ports'[k] = ports[k]
  BY <1>2, <1>6, <1>7
<1>9a. /\ \A j \in DOMAIN p.addrs : j = n + 1 \/ (j \in DOMAIN old /\ p.addrs[j] = old[j])
       /\ n + 1 \in DOMAIN p.addrs /\ DOMAIN old \subseteq DOMAIN p.addrs
       /\ \A j \in DOMAIN old : p.addrs[j] = old[j]
  BY <1>4, <1>8
<1>9b. \A j \in DOMAIN old : old[j].ip # Listener.ip
  BY <1>1
<1> HIDE DEF n
<1>10. OneEntry'
  <2>1. ASSUME NEW k \in DOMAIN ports', NEW m \in DOMAIN ports', ports'[k].port = ports'[m].port
        PROVE  k = m
    BY <1>2, <1>6, <1>9, <2>1 DEF OneEntry
  <2>2. ASSUME NEW k \in DOMAIN ports', NEW j \in DOMAIN ports'[k].addrs,
               NEW m \in DOMAIN ports'[k].addrs, ports'[k].addrs[j].ip = ports'[k].addrs[m].ip
        PROVE  j = m
    <3>1. CASE k # k0
      BY <1>2, <1>9, <2>2, <3>1 DEF OneEntry
    <3>2. CASE k = k0
      BY <1>2, <1>3, <1>8, <1>9, <1>9a, <1>9b, <2>2, <3>2, SMTT(30) DEF OneEntry
    <3> QED BY <3>1, <3>2
  <2> QED BY <2>1, <2>2 DEF OneEntry
<1>11. ASSUME NEW k \in DOMAIN ports
       PROVE  k \in DOMAIN ports' /\
              \A j \in DOMAIN ports[k].addrs : j \in DOMAIN ports'[k].addrs /\ Kept(k, j)
  <2>1. CASE k # k0
    BY <1>9, <2>1 DEF Kept
  <2>2. CASE k = k0
    BY <1>6, <1>9, <1>9a, <2>2 DEF Kept
  <2> QED BY <2>1, <2>2
<1>12. ASSUME NEW k \in DOMAIN ports', NEW j \in DOMAIN ports'[k].addrs
       PROVE  \/ ~Mine(k, j) /\ Kept(k, j) /\ Same(k, j)
              \/ Mine(k, j) /\ (Joined(k, j) \/ Opened(k, j))
  <2>0. \A m \in DOMAIN ports : ports[m].port = Listener.port => m = k0
    BY <1>1, <1>2 DEF OneEntry
  <2>1. CASE k # k0
    BY <1>9, <2>0, <2>1 DEF Mine, Kept, Same
  <2>2. CASE k = k0 /\ j \in DOMAIN old
    BY <1>6, <1>9, <1>9a, <1>9b, <2>2 DEF Mine, Kept, Same
  <2>3. CASE k = k0 /\ j = n + 1
    <3>1. ports'[k].addrs[j] = a /\ ports'[k].port = Listener.port
      BY <1>1, <1>6, <1>8, <1>9, <2>3
    <3>2. Opened(k, j)
      BY <1>3, <1>9b, <2>0, <3>1 DEF Opened, a
    <3> QED BY <1>3, <3>1, <3>2 DEF Mine
  <2> QED BY <1>9, <1>9a, <2>1, <2>2, <2>3
<1>13. \E k \in DOMAIN ports' : \E j \in DOMAIN ports'[k].addrs : Mine(k, j)
  <2>1. k0 \in DOMAIN ports' /\ n + 1 \in DOMAIN ports'[k0].addrs /\ Mine(k0, n + 1)
    BY <1>1, <1>3, <1>6, <1>8, <1>9, <1>9a DEF Mine
  <2> QED BY <2>1
<1> QED BY <1>1, <1>9, <1>10, <1>11, <1>12, <1>13 DEF Turn

\* One more server on an address.
LEMMA ServerTurn ==
    ASSUME ConfInv, AddServer
    PROVE  Turn
<1>1. PICK k0 \in DOMAIN ports : \E j \in DOMAIN ports[k0].addrs :
         /\ Adding /\ ports[k0].port = Listener.port /\ ports[k0].addrs[j].ip = Listener.ip
         /\ ~Conflict(next, ports[k0].addrs[j], Listener)
         /\ ports' = [ports EXCEPT ![k0].addrs[j] = Merge(next, @, Listener)]
         /\ next' = next + 1 /\ UNCHANGED <<phase, servers, listeners>>
  BY DEF AddServer, SamePort, SameAddress
<1> DEFINE old == ports[k0].addrs
<1>2. PICK j0 \in DOMAIN old :
         /\ Adding /\ ports[k0].port = Listener.port /\ old[j0].ip = Listener.ip
         /\ ~Conflict(next, old[j0], Listener)
         /\ ports' = [ports EXCEPT ![k0].addrs[j0] = Merge(next, @, Listener)]
         /\ next' = next + 1 /\ UNCHANGED <<phase, servers, listeners>>
  BY <1>1
<1>3. /\ next \in Nat /\ Listener \in ListenSet /\ ports \in Seq(PortSet) /\ OneEntry
  BY <1>2, ListenerType DEF AddInv
<1> DEFINE a == Merge(next, old[j0], Listener)
           new == [old EXCEPT ![j0] = a]
           p == [ports[k0] EXCEPT !.addrs = new]
<1>4. old \in Seq(AddrSet) /\ old[j0] \in AddrSet /\ ports[k0] \in PortSet
  BY <1>3, EntryTypes
<1>5. /\ a \in AddrSet /\ a.ip = old[j0].ip
      /\ a.bind = (old[j0].bind \/ Listener.bind)
      /\ a.default = (old[j0].default \/ Listener.default)
      /\ ToSet(a.servers) = ToSet(old[j0].servers) \cup {next}
  BY <1>3, <1>4, MergeType
<1>5a. ports' = [ports EXCEPT ![k0] = p]
  BY <1>2
<1> HIDE DEF a
<1>6. /\ new \in Seq(AddrSet) /\ DOMAIN new = DOMAIN old /\ new[j0] = a
      /\ \A j \in DOMAIN old : j # j0 => new[j] = old[j]
  BY <1>4, <1>5
<1> HIDE DEF new
<1>7. p \in PortSet /\ p.port = ports[k0].port /\ p.addrs = new
  BY <1>4, <1>6 DEF PortSet
<1> HIDE DEF p
<1>8. /\ ports' \in Seq(PortSet) /\ DOMAIN ports' = DOMAIN ports
      /\ ports'[k0] = p /\ \A k \in DOMAIN ports : k # k0 => ports'[k] = ports[k]
  BY <1>3, <1>7, <1>5a
<1>9. /\ ports'[k0].addrs = new /\ ports'[k0].port = ports[k0].port
      /\ \A j \in DOMAIN old : new[j].ip = old[j].ip
  BY <1>5, <1>6, <1>7, <1>8
<1>9a. \A k \in DOMAIN ports : ports[k].port = Listener.port => k = k0
  BY <1>2, <1>3 DEF OneEntry
<1>9b. \A j \in DOMAIN old : old[j].ip = Listener.ip => j = j0
  BY <1>2, <1>3 DEF OneEntry
<1>10. OneEntry'
  <2>1. ASSUME NEW k \in DOMAIN ports', NEW m \in DOMAIN ports', ports'[k].port = ports'[m].port
        PROVE  k = m
    BY <1>3, <1>8, <1>9, <2>1 DEF OneEntry
  <2>2. ASSUME NEW k \in DOMAIN ports', NEW j \in DOMAIN ports'[k].addrs,
               NEW m \in DOMAIN ports'[k].addrs, ports'[k].addrs[j].ip = ports'[k].addrs[m].ip
        PROVE  j = m
    <3>1. CASE k # k0
      BY <1>3, <1>8, <2>2, <3>1 DEF OneEntry
    <3>2. CASE k = k0
      BY <1>3, <1>6, <1>9, <2>2, <3>2 DEF OneEntry
    <3> QED BY <3>1, <3>2
  <2> QED BY <2>1, <2>2 DEF OneEntry
<1>11. ASSUME NEW k \in DOMAIN ports
       PROVE  k \in DOMAIN ports' /\
              \A j \in DOMAIN ports[k].addrs : j \in DOMAIN ports'[k].addrs /\ Kept(k, j)
  <2>1. CASE k # k0
    BY <1>8, <2>1 DEF Kept
  <2>2. CASE k = k0
    BY <1>6, <1>8, <1>9, <2>2 DEF Kept
  <2> QED BY <2>1, <2>2
<1>12. ASSUME NEW k \in DOMAIN ports', NEW j \in DOMAIN ports'[k].addrs
       PROVE  \/ ~Mine(k, j) /\ Kept(k, j) /\ Same(k, j)
              \/ Mine(k, j) /\ (Joined(k, j) \/ Opened(k, j))
  <2>1. CASE k # k0
    BY <1>8, <1>9a, <2>1 DEF Mine, Kept, Same
  <2>2. CASE k = k0 /\ j # j0
    BY <1>6, <1>8, <1>9, <1>9b, <2>2 DEF Mine, Kept, Same
  <2>3. CASE k = k0 /\ j = j0
    <3>1. ports'[k].addrs[j] = a /\ ports'[k].port = Listener.port
      BY <1>2, <1>6, <1>9, <2>3
    <3>2. ~(old[j0].bind /\ Listener.bind) /\ ~(old[j0].default /\ Listener.default)
      BY <1>2 DEF Conflict
    <3>3. Joined(k, j)
      BY <1>5, <1>8, <1>9, <2>3, <3>1, <3>2 DEF Joined, Kept, a
    <3> QED BY <1>2, <1>5, <3>1, <3>3 DEF Mine
  <2> QED BY <2>1, <2>2, <2>3
<1>13. \E k \in DOMAIN ports' : \E j \in DOMAIN ports'[k].addrs : Mine(k, j)
  <2>1. k0 \in DOMAIN ports' /\ j0 \in DOMAIN ports'[k0].addrs /\ Mine(k0, j0)
    BY <1>2, <1>6, <1>8, <1>9 DEF Mine
  <2> QED BY <2>1
<1> QED BY <1>2, <1>8, <1>10, <1>11, <1>12, <1>13 DEF Turn
-----------------------------------------------------------------------------
(* A turn keeps the invariant.                                             *)

LEMMA TurnKeeps ==
    ASSUME ConfInv, Turn
    PROVE  ConfInv'
<1> DEFINE L == Listener
<1>1. /\ Adding /\ next' = next + 1 /\ phase' = phase /\ servers' = servers
      /\ listeners' = listeners
  BY DEF Turn
<1>2. /\ AddInv /\ next \in 1 .. Len(listeners) /\ Len(listeners) \in Nat
      /\ L \in ListenSet /\ L = listeners[next]
      /\ \A i \in 1 .. Len(listeners) : listeners[i] \in ListenSet
      /\ Before \subseteq 1 .. Len(listeners) /\ next \notin Before
  BY <1>1, ListenerType
<1>2a. Entered /\ OneEntry /\ BitsExact /\ ServersSeen /\ NoneYet /\ ports \in Seq(PortSet)
  BY <1>2 DEF AddInv
<1>3. Before' = Before \cup {next} /\ next' \in 1 .. Len(listeners) + 1
  BY <1>1, <1>2 DEF Before
<1>4. /\ ports' \in Seq(PortSet) /\ OneEntry'
      /\ \A k \in DOMAIN ports : k \in DOMAIN ports' /\
            \A j \in DOMAIN ports[k].addrs : j \in DOMAIN ports'[k].addrs /\ Kept(k, j)
      /\ \A k \in DOMAIN ports' : \A j \in DOMAIN ports'[k].addrs :
            \/ ~Mine(k, j) /\ Kept(k, j) /\ Same(k, j)
            \/ Mine(k, j) /\ (Joined(k, j) \/ Opened(k, j))
      /\ \E k \in DOMAIN ports' : \E j \in DOMAIN ports'[k].addrs : Mine(k, j)
  BY DEF Turn
<1> DEFINE AtN(i, k, j) == /\ listeners[i].port = ports'[k].port
                           /\ listeners[i].ip = ports'[k].addrs[j].ip
<1>5. ASSUME NEW k, NEW j, NEW i, Kept(k, j)
      PROVE  AtN(i, k, j) <=> At(i, k, j)
  BY <1>5 DEF Kept, At
<1>6. ASSUME NEW k, NEW j
      PROVE  AtN(next, k, j) <=> Mine(k, j)
  BY <1>2 DEF Mine
<1>6a. ASSUME NEW k, NEW j, NEW i, AtN(i, k, j), Mine(k, j)
       PROVE  listeners[i].port = L.port /\ listeners[i].ip = L.ip
  BY <1>6a DEF Mine
<1>7. Entered'
  <2> SUFFICES ASSUME NEW i \in Before'
               PROVE  \E k \in DOMAIN ports' : \E j \in DOMAIN ports'[k].addrs : AtN(i, k, j)
    BY <1>1, Zenon DEF Entered, At
  <2>1. CASE i = next
    BY <1>4, <1>6, <2>1
  <2>2. CASE i \in Before
    <3>1. PICK k \in DOMAIN ports : \E j \in DOMAIN ports[k].addrs : At(i, k, j)
      BY <1>2a, <2>2 DEF Entered
    <3>2. PICK j \in DOMAIN ports[k].addrs : At(i, k, j)
      BY <3>1
    <3>3. k \in DOMAIN ports' /\ j \in DOMAIN ports'[k].addrs /\ Kept(k, j)
      BY <1>4
    <3> QED BY <1>5, <3>2, <3>3
  <2> QED BY <1>3, <2>1, <2>2
\* No directive before is for an entry that is opened.
<1>8. ASSUME NEW k \in DOMAIN ports', NEW j \in DOMAIN ports'[k].addrs, Mine(k, j),
             Opened(k, j), NEW i \in Before
      PROVE  ~AtN(i, k, j)
  <2> SUFFICES ASSUME AtN(i, k, j) PROVE FALSE
    OBVIOUS
  <2>1. listeners[i].port = L.port /\ listeners[i].ip = L.ip
    BY <1>6a, <1>8
  <2>2. PICK m \in DOMAIN ports : \E n \in DOMAIN ports[m].addrs : At(i, m, n)
    BY <1>2a DEF Entered
  <2>3. PICK n \in DOMAIN ports[m].addrs : At(i, m, n)
    BY <2>2
  <2> QED BY <1>8, <2>1, <2>3 DEF At, Opened
\* The bits of one entry.
<1>9. ASSUME NEW k \in DOMAIN ports', NEW j \in DOMAIN ports'[k].addrs
      PROVE  /\ ports'[k].addrs[j].bind <=>
                   \E i \in Before \cup {next} : AtN(i, k, j) /\ listeners[i].bind
             /\ ports'[k].addrs[j].default <=>
                   \E i \in Before \cup {next} : AtN(i, k, j) /\ listeners[i].default
             /\ ToSet(ports'[k].addrs[j].servers) \subseteq Before \cup {next}
  <2>0. ASSUME Kept(k, j)
        PROVE  /\ ports[k].addrs[j].bind <=>
                     \E i \in Before : AtN(i, k, j) /\ listeners[i].bind
               /\ ports[k].addrs[j].default <=>
                     \E i \in Before : AtN(i, k, j) /\ listeners[i].default
               /\ ToSet(ports[k].addrs[j].servers) \subseteq Before
    <3>1. k \in DOMAIN ports /\ j \in DOMAIN ports[k].addrs
      BY <2>0 DEF Kept
    <3>2. \A i \in Before : AtN(i, k, j) <=> At(i, k, j)
      BY <1>5, <2>0
    <3> HIDE DEF AtN
    <3> QED BY <1>2a, <3>1, <3>2 DEF BitsExact, ServersSeen
  <2>1. CASE ~Mine(k, j) /\ Kept(k, j) /\ Same(k, j)
    <3>1. ~AtN(next, k, j)
      BY <1>6, <2>1
    <3> HIDE DEF AtN
    <3> QED BY <2>0, <2>1, <3>1 DEF Same
  <2>2. CASE Mine(k, j) /\ Joined(k, j)
    <3>1. AtN(next, k, j) /\ Kept(k, j)
      BY <1>6, <2>2 DEF Joined
    <3>2. /\ ports'[k].addrs[j].bind = (ports[k].addrs[j].bind \/ listeners[next].bind)
          /\ ports'[k].addrs[j].default = (ports[k].addrs[j].default \/ listeners[next].default)
          /\ ToSet(ports'[k].addrs[j].servers) = ToSet(ports[k].addrs[j].servers) \cup {next}
      BY <1>2, <2>2 DEF Joined
    <3> HIDE DEF AtN
    <3> QED BY <2>0, <3>1, <3>2
  <2>3. CASE Mine(k, j) /\ Opened(k, j)
    <3>1. AtN(next, k, j) /\ \A i \in Before : ~AtN(i, k, j)
      BY <1>6, <1>8, <2>3
    <3>2. /\ ports'[k].addrs[j].bind = listeners[next].bind
          /\ ports'[k].addrs[j].default = listeners[next].default
          /\ ToSet(ports'[k].addrs[j].servers) = {next}
      BY <1>2, <2>3 DEF Opened
    <3> HIDE DEF AtN
    <3> QED BY <3>1, <3>2
  <2> QED BY <1>4, <2>1, <2>2, <2>3
<1>10. BitsExact' /\ ServersSeen'
  <2>1. \A i, k, j : At(i, k, j)' <=> AtN(i, k, j)
    BY <1>1, Zenon DEF At
  <2> HIDE DEF AtN
  <2>2. BitsExact'
    <3> SUFFICES ASSUME NEW k \in DOMAIN ports', NEW j \in DOMAIN ports'[k].addrs
                 PROVE  /\ ports'[k].addrs[j].bind <=>
                              \E i \in Before' : At(i, k, j)' /\ listeners'[i].bind
                        /\ ports'[k].addrs[j].default <=>
                              \E i \in Before' : At(i, k, j)' /\ listeners'[i].default
      BY DEF BitsExact
    <3> QED BY <1>1, <1>3, <1>9, <2>1, Zenon
  <2>3. ServersSeen'
    BY <1>3, <1>9 DEF ServersSeen
  <2> QED BY <2>2, <2>3
<1>11. NoneYet'
  <2>1. ASSUME NEW i \in Before PROVE ~Clash(i, next)
    <3> SUFFICES ASSUME Clash(i, next) PROVE FALSE
      OBVIOUS
    <3>1. PICK k \in DOMAIN ports' : \E j \in DOMAIN ports'[k].addrs : Mine(k, j)
      BY <1>4
    <3>2. PICK j \in DOMAIN ports'[k].addrs : Mine(k, j)
      BY <3>1
    <3>3. AtN(i, k, j)
      BY <1>2, <3>2 DEF Clash, Mine
    <3>4. Joined(k, j)
      BY <1>4, <1>8, <3>2, <3>3
    <3>5. At(i, k, j) /\ k \in DOMAIN ports /\ j \in DOMAIN ports[k].addrs
      BY <1>5, <3>3, <3>4 DEF Joined, Kept
    <3>6. /\ listeners[i].bind => ports[k].addrs[j].bind
          /\ listeners[i].default => ports[k].addrs[j].default
      BY <1>2a, <3>5 DEF BitsExact
    <3> QED BY <1>2, <3>4, <3>6 DEF Clash, Joined
  <2>2. \A i, j \in Before \cup {next} : i < j => ~Clash(i, j)
    <3> SUFFICES ASSUME NEW i \in Before \cup {next}, NEW j \in Before \cup {next}, i < j
                 PROVE  ~Clash(i, j)
      OBVIOUS
    <3>1. i \in Before
      BY <1>2 DEF Before
    <3> QED BY <1>2a, <2>1, <3>1 DEF NoneYet
  <2> QED BY <1>1, <1>3, <2>2 DEF NoneYet, Clash
<1>12. AddInv'
  BY <1>1, <1>3, <1>4, <1>7, <1>10, <1>11 DEF AddInv
<1>13. RefusedIffContradiction' /\ phase' = "add"
  BY <1>1 DEF RefusedIffContradiction, Adding
<1> QED BY <1>1, <1>12, <1>13 DEF ConfInv
-----------------------------------------------------------------------------
(* The other steps.                                                        *)

LEMMA ConfInitially ==
    ASSUME Init
    PROVE  ConfInv
  BY DEF Init, ConfInv, RefusedIffContradiction

LEMMA CreateServerKeeps ==
    ASSUME ConfInv, CreateServer
    PROVE  ConfInv'
<1>1. PICK names \in SUBSET Names : servers' = Append(servers, names)
  BY DEF CreateServer
<1>2. servers' \in Seq(SUBSET Names)
  BY <1>1 DEF ConfInv
<1> QED BY <1>2 DEF ConfInv, CreateServer, RefusedIffContradiction

LEMMA CreateListenerKeeps ==
    ASSUME ConfInv, CreateListener
    PROVE  ConfInv'
<1>1. PICK l \in Listens(Len(servers)) : listeners' = Append(listeners, l)
  BY DEF CreateListener
<1>2. l \in ListenSet
  <2>1. Len(servers) \in Nat
    BY DEF ConfInv
  <2> QED BY <2>1 DEF Listens, ListenSet
<1>3. listeners' \in Seq(ListenSet)
  BY <1>1, <1>2 DEF ConfInv
<1> QED BY <1>3 DEF ConfInv, CreateListener, RefusedIffContradiction

\* With no entry and no directive seen, the invariant of the loop holds.
LEMMA ParseEndKeeps ==
    ASSUME ConfInv, ParseEnd
    PROVE  ConfInv'
<1>1. /\ phase = "parse" /\ ports' = <<>> /\ next' = 1
      /\ servers' = Defaulted[1] /\ listeners' = Defaulted[2]
      /\ phase' \in {"add", "refused"}
  BY DEF ParseEnd, ConfInv
<1>2. servers' \in Seq(SUBSET Names) /\ listeners' \in Seq(ListenSet)
  <2>1. CASE servers # <<>>
    <3>1. Defaulted[1] = servers /\ Defaulted[2] = listeners
      BY <2>1 DEF Defaulted
    <3> QED BY <1>1, <3>1 DEF ConfInv
  <2>2. CASE servers = <<>>
    <3>1. Defaulted[1] = <<{}>> /\ Defaulted[2] = <<PlainListener>>
      BY <2>2 DEF Defaulted
    <3>2. PlainListener \in ListenSet
      BY ListenConfAssumption DEF PlainListener, ListenSet
    <3>3. \A l \in ListenSet : <<l>> \in Seq(ListenSet)
      OBVIOUS
    <3>4. <<{}>> \in Seq(SUBSET Names)
      OBVIOUS
    <3> QED BY <1>1, <3>1, <3>2, <3>3, <3>4, Zenon
  <2> QED BY <2>1, <2>2
<1>3. /\ next' \in 1 .. Len(listeners') + 1 /\ Before' = {}
      /\ ports' \in Seq(PortSet) /\ DOMAIN ports' = {}
  BY <1>1, <1>2 DEF Before
<1>4. AddInv'
  BY <1>3 DEF AddInv, Entered, OneEntry, BitsExact, ServersSeen, NoneYet
<1> QED BY <1>1, <1>2, <1>4 DEF ConfInv, RefusedIffContradiction

\* The entry that refuses a directive remembers one that clashes with it: its
\* server cannot be on the address yet.
LEMMA AddFailsKeeps ==
    ASSUME ConfInv, AddFails
    PROVE  ConfInv'
<1>1. PICK k \in DOMAIN ports : \E j \in DOMAIN ports[k].addrs :
         SameAddress(k, j) /\ Conflict(next, ports[k].addrs[j], Listener)
  BY DEF AddFails
<1>2. PICK j \in DOMAIN ports[k].addrs :
         SameAddress(k, j) /\ Conflict(next, ports[k].addrs[j], Listener)
  BY <1>1
<1>3. Adding /\ phase' = "failed" /\ servers' = servers /\ listeners' = listeners
  BY DEF AddFails
<1>4. /\ AddInv /\ next \in 1 .. Len(listeners) /\ Len(listeners) \in Nat
      /\ DOMAIN listeners = 1 .. Len(listeners) /\ Listener = listeners[next]
      /\ Before \subseteq 1 .. Len(listeners) /\ next \notin Before
  BY <1>3, ListenerType
<1>5. ~Duplicate(next, ports[k].addrs[j])
  BY <1>4 DEF AddInv, ServersSeen, Duplicate
<1>6. \E i \in Before : Clash(i, next)
  <2>1. CASE Listener.bind /\ ports[k].addrs[j].bind
    <3>1. PICK i \in Before : At(i, k, j) /\ listeners[i].bind
      BY <1>4, <2>1 DEF AddInv, BitsExact
    <3> QED BY <1>2, <1>4, <2>1, <3>1 DEF Clash, At, SameAddress, SamePort
  <2>2. CASE Listener.default /\ ports[k].addrs[j].default
    <3>1. PICK i \in Before : At(i, k, j) /\ listeners[i].default
      BY <1>4, <2>2 DEF AddInv, BitsExact
    <3> QED BY <1>2, <1>4, <2>2, <3>1 DEF Clash, At, SameAddress, SamePort
  <2> QED BY <1>2, <1>5, <2>1, <2>2 DEF Conflict
<1>7. Clashes
  <2>1. \A i \in Before : i \in DOMAIN listeners /\ next \in DOMAIN listeners /\ i < next
    BY <1>4 DEF Before
  <2> QED BY <1>6, <2>1 DEF Clashes
<1>8. Clashes'
  BY <1>3, <1>7 DEF Clashes, Clash
<1> QED BY <1>3, <1>8 DEF ConfInv, RefusedIffContradiction

LEMMA AddEndKeeps ==
    ASSUME ConfInv, AddEnd
    PROVE  ConfInv'
<1>1. /\ phase = "add" /\ next > Len(listeners) /\ phase' = "optimize"
      /\ servers' = servers /\ listeners' = listeners
  BY DEF AddEnd
<1>2. /\ NoneYet /\ next \in 1 .. Len(listeners) + 1 /\ Len(listeners) \in Nat
      /\ DOMAIN listeners = 1 .. Len(listeners)
  BY <1>1 DEF ConfInv, AddInv
<1>3. DOMAIN listeners = Before
  BY <1>1, <1>2 DEF Before
<1>4. ~Clashes
  BY <1>2, <1>3 DEF NoneYet, Clashes
<1>5. ~Clashes'
  BY <1>1, <1>4 DEF Clashes, Clash
<1> QED BY <1>1, <1>5 DEF ConfInv, RefusedIffContradiction

\* Once the directives are grouped, nothing changes them.
LEMMA OptimizeKeeps ==
    ASSUME ConfInv, OptimizePort \/ OptimizeEnd
    PROVE  ConfInv'
<1>1. /\ phase = "optimize" /\ phase' \in {"optimize", "serving"}
      /\ servers' = servers /\ listeners' = listeners
  BY DEF OptimizePort, OptimizeEnd
<1>2. ~Clashes
  BY <1>1 DEF ConfInv, RefusedIffContradiction
<1>3. ~Clashes'
  BY <1>1, <1>2 DEF Clashes, Clash
<1> QED BY <1>1, <1>3 DEF ConfInv, RefusedIffContradiction

\* The grouping of the listen directives keeps the invariant: each entry says
\* exactly what the directives before had for its address.
THEOREM ConfInvariant == Spec => []ConfInv
<1>1. Init => ConfInv
  BY ConfInitially
<1>2. ConfInv /\ [Next]_vars => ConfInv'
  <2> SUFFICES ASSUME ConfInv, [Next]_vars PROVE ConfInv'
    OBVIOUS
  <2>1. CASE CreateServer
    BY <2>1, CreateServerKeeps
  <2>2. CASE CreateListener
    BY <2>2, CreateListenerKeeps
  <2>3. CASE ParseEnd
    BY <2>3, ParseEndKeeps
  <2>4. CASE AddPort
    BY <2>4, PortTurn, TurnKeeps
  <2>5. CASE AddAddress
    BY <2>5, AddressTurn, TurnKeeps
  <2>6. CASE AddServer
    BY <2>6, ServerTurn, TurnKeeps
  <2>7. CASE AddFails
    BY <2>7, AddFailsKeeps
  <2>8. CASE AddEnd
    BY <2>8, AddEndKeeps
  <2>9. CASE OptimizePort \/ OptimizeEnd
    BY <2>9, OptimizeKeeps
  <2>10. CASE UNCHANGED vars
    <3>1. /\ phase' = phase /\ servers' = servers /\ listeners' = listeners
          /\ next' = next /\ ports' = ports
      BY <2>10 DEF vars
    <3>2. RefusedIffContradiction' <=> RefusedIffContradiction
      BY <3>1 DEF RefusedIffContradiction, Clashes, Clash
    <3>3. Entered' <=> Entered
      BY <3>1 DEF Entered, At, Before
    <3>4. (OneEntry' <=> OneEntry) /\ (ServersSeen' <=> ServersSeen)
      BY <3>1 DEF OneEntry, ServersSeen, Before
    <3>5. BitsExact' <=> BitsExact
      BY <3>1 DEF BitsExact, At, Before
    <3>6. NoneYet' <=> NoneYet
      BY <3>1 DEF NoneYet, Clash, Before
    <3>7. AddInv' <=> AddInv
      BY <3>1, <3>3, <3>4, <3>5, <3>6 DEF AddInv
    <3> QED BY <3>1, <3>2, <3>7 DEF ConfInv
  <2> QED BY <2>1, <2>2, <2>3, <2>4, <2>5, <2>6, <2>7, <2>8, <2>9, <2>10 DEF Next
<1> QED BY <1>1, <1>2, PTL DEF Spec

\* Whatever the file, start-up fails exactly when two of its listen directives
\* contradict each other (pgrest_http_add_addresses).
THEOREM ConfRefusedIffContradiction == Spec => []RefusedIffContradiction
<1>1. ConfInv => RefusedIffContradiction
  BY DEF ConfInv
<1> QED BY <1>1, ConfInvariant, PTL

-----------------------------------------------------------------------------
(* From here on: a connection is served as the file asks, through the      *)
(* grouping of the directives, the sort of the addresses of a port, the    *)
(* wildcard socket they may share, and the lookup when it is accepted. For *)
(* any number of servers, ports, addresses and names. First the sort.      *)

\* The addresses of a port in the order the sort makes: those that are bound first,
\* the wildcard last.
Ordered(s) ==
    /\ s \in Seq(AddrSet)
    /\ \A i, j \in DOMAIN s : s[i].ip = s[j].ip => i = j
    /\ \A i \in DOMAIN s : s[i].ip = AnyIp => i = Len(s)
    /\ \A i, j \in DOMAIN s : i < j /\ s[j].bind /\ s[j].ip # AnyIp => s[i].bind

LEMMA InsertOrdered ==
    ASSUME NEW s, Ordered(s), NEW x \in AddrSet, \A i \in DOMAIN s : s[i].ip # x.ip
    PROVE  Ordered(Insert(s, x)) /\ ToSet(Insert(s, x)) = ToSet(s) \cup {x}
<1> DEFINE n == Len(s)
           stays == {i \in DOMAIN s : ~Behind(s[i], x)}
           k == Max(stays \cup {0})
           t == InsertAt(s, k + 1, x)
<1>1. /\ s \in Seq(AddrSet) /\ n \in Nat /\ DOMAIN s = 1 .. n
      /\ \A i, j \in 1 .. n : s[i].ip = s[j].ip => i = j
      /\ \A i \in 1 .. n : s[i].ip = AnyIp => i = n
      /\ \A i, j \in 1 .. n : i < j /\ s[j].bind /\ s[j].ip # AnyIp => s[i].bind
      /\ \A i \in 1 .. n : s[i].ip # x.ip
  BY DEF Ordered
<1>a. n \in Nat /\ DOMAIN s = 1 .. n
  BY <1>1
<1>b. \A i, j \in 1 .. n : s[i].ip = s[j].ip => i = j
  BY <1>1
<1>2. stays \subseteq 1 .. n /\ stays \cup {0} \subseteq Nat /\ stays \cup {0} # {}
      /\ \A i \in stays \cup {0} : i <= n
  <2>1. stays \subseteq 1 .. n
    BY <1>a
  <2> HIDE DEF stays, n
  <2> QED BY <1>a, <2>1
<1>3. k \in stays \cup {0} /\ \A i \in stays \cup {0} : i <= k
  <2> HIDE DEF stays
  <2> QED BY <1>1, <1>2, MaxFacts
<1>4. \A i \in 1 .. n : i > k => s[i].ip = AnyIp \/ (x.ip # AnyIp /\ ~s[i].bind /\ x.bind)
  <2> TAKE i \in 1 .. n
  <2>1. i > k => i \notin stays
    <3> HIDE DEF stays, k, n
    <3> QED BY <1>a, <1>2, <1>3
  <2> HIDE DEF k
  <2> QED BY <1>1, <2>1 DEF Behind
<1>5. k \in 0 .. n
  BY <1>2, <1>3
<1>6. k # 0 => s[k].ip # AnyIp /\ (x.ip = AnyIp \/ s[k].bind \/ ~x.bind)
  <2>1. k # 0 => k \in stays
    BY <1>3
  <2> HIDE DEF k
  <2> QED BY <2>1 DEF Behind
<1>7. Insert(s, x) = t
  BY DEF Insert
<1> HIDE DEF k, stays
<1>8. /\ t \in Seq(AddrSet) /\ Len(t) = n + 1 /\ DOMAIN t = 1 .. n + 1
      /\ \A j \in 1 .. n + 1 :
            t[j] = IF j < k + 1 THEN s[j] ELSE IF j = k + 1 THEN x ELSE s[j - 1]
  <2>1. k + 1 \in 1 .. Len(s) + 1
    BY <1>a, <1>5
  <2>2. s \in Seq(AddrSet)
    BY <1>1
  <2>3. /\ t \in Seq(AddrSet) /\ Len(t) = n + 1
        /\ \A j \in 1 .. n + 1 :
              t[j] = IF j < k + 1 THEN s[j] ELSE IF j = k + 1 THEN x ELSE s[j - 1]
    <3> DEFINE p == k + 1
    <3>1. p \in 1 .. Len(s) + 1 /\ s \in Seq(AddrSet) /\ x \in AddrSet
      BY <2>1, <2>2
    <3> HIDE DEF p
    <3>2. /\ InsertAt(s, p, x) \in Seq(AddrSet) /\ Len(InsertAt(s, p, x)) = Len(s) + 1
          /\ \A j \in 1 .. Len(s) + 1 :
                InsertAt(s, p, x)[j]
                  = IF j < p THEN s[j] ELSE IF j = p THEN x ELSE s[j - 1]
      BY <3>1, InsertIndex
    <3> QED BY <3>2 DEF p
  <2> HIDE DEF t
  <2> QED BY <1>a, <2>3
<1> HIDE DEF t
\* Where an element of the new list was in the old one.
<1> DEFINE was(j) == IF j < k + 1 THEN j ELSE j - 1
<1>9. \A j \in 1 .. n + 1 : j # k + 1 => was(j) \in 1 .. n /\ t[j] = s[was(j)]
  BY <1>a, <1>5, <1>8
<1>10. \A i, j \in 1 .. n + 1 : i # k + 1 /\ j # k + 1 /\ i < j => was(i) < was(j)
  BY <1>a, <1>5
<1>11. t[k + 1] = x /\ k + 1 \in 1 .. n + 1
  BY <1>a, <1>5, <1>8
<1>12. \A j \in 1 .. n + 1 : /\ j < k + 1 => was(j) = j /\ j <= k
                             /\ j > k + 1 => was(j) > k /\ was(j) = j - 1
  BY <1>a, <1>5
<1> HIDE DEF was
<1>13. \A i, j \in 1 .. n + 1 : t[i].ip = t[j].ip => i = j
  <2> TAKE i, j \in 1 .. n + 1
  <2>1. CASE i = k + 1 /\ j # k + 1
    BY <1>1, <1>9, <1>11, <2>1
  <2>2. CASE i # k + 1 /\ j = k + 1
    BY <1>1, <1>9, <1>11, <2>2
  <2>3. CASE i # k + 1 /\ j # k + 1
    <3>0. /\ was(i) \in 1 .. n /\ was(j) \in 1 .. n
          /\ t[i] = s[was(i)] /\ t[j] = s[was(j)]
      BY <1>9, <2>3
    <3>1. t[i].ip = t[j].ip => was(i) = was(j)
      BY <1>b, <3>0, Zenon
    <3>2. was(i) \in Int /\ was(j) \in Int
      BY <1>9, <2>3
    <3> QED BY <1>10, <2>3, <3>1, <3>2
  <2> QED BY <2>1, <2>2, <2>3
<1>14. ASSUME NEW i \in 1 .. n + 1, t[i].ip = AnyIp PROVE i = n + 1
  <2>1. CASE i = k + 1
    <3>1. x.ip = AnyIp
      BY <1>11, <1>14, <2>1
    <3>2. \A m \in 1 .. n : ~(m > k)
      BY <1>4, <3>1
    <3> QED BY <1>a, <1>5, <2>1, <3>2
  <2>2. CASE i < k + 1
    <3>0. i \in 1 .. n /\ i <= k
      BY <1>a, <1>5, <2>2
    <3>1. s[i].ip = AnyIp
      BY <1>a, <1>5, <1>9, <1>12, <1>14, <2>2
    <3>2. i = n
      BY <1>1, <3>0, <3>1
    <3>a. i <= k /\ i # 0
      BY <3>0
    <3>3. k = n /\ k # 0
      <4> HIDE DEF n
      <4>1. n \in Nat /\ k \in 0 .. n
        BY <1>a, <1>5
      <4> QED BY <4>1, <3>a, <3>2
    <3> QED BY <1>6, <3>1, <3>2, <3>3
  <2>3. CASE i > k + 1
    <3>1. s[was(i)].ip = AnyIp /\ was(i) \in 1 .. n
      BY <1>9, <1>14, <2>3
    <3>2. was(i) = n
      BY <1>1, <3>1
    <3>3. was(i) = i - 1
      BY <1>12, <2>3
    <3> QED BY <1>a, <3>2, <3>3
  <2> QED BY <1>5, <2>1, <2>2, <2>3
<1>15. ASSUME NEW i \in 1 .. n + 1, NEW j \in 1 .. n + 1, i < j, t[j].bind, t[j].ip # AnyIp
       PROVE  t[i].bind
  <2>1. CASE j = k + 1
    <3>1. i \in 1 .. n /\ i <= k /\ t[i] = s[i] /\ x.bind /\ x.ip # AnyIp
      BY <1>9, <1>11, <1>12, <1>15, <2>1
    <3>a. i \in 1 .. n /\ i <= k
      BY <3>1
    <3>b. k # 0 /\ k \in 1 .. n /\ (i = k \/ i < k)
      BY <1>a, <1>5, <3>a
    <3>2. s[k].bind /\ s[k].ip # AnyIp
      BY <1>6, <3>1, <3>b
    <3> QED BY <1>1, <3>1, <3>2, <3>b
  <2>2. CASE i = k + 1
    <3>1. was(j) \in 1 .. n /\ t[j] = s[was(j)] /\ was(j) > k
      BY <1>5, <1>9, <1>12, <1>15, <2>2
    <3> QED BY <1>4, <1>15, <3>1
  <2>3. CASE i # k + 1 /\ j # k + 1
    BY <1>1, <1>9, <1>10, <1>15, <2>3
  <2> QED BY <2>1, <2>2, <2>3
<1>16. ToSet(t) = ToSet(s) \cup {x}
  <2>1. ASSUME NEW j \in 1 .. n + 1 PROVE t[j] = x \/ t[j] \in ToSet(s)
    BY <1>1, <1>9, <1>11 DEF ToSet
  <2>2. ASSUME NEW m \in 1 .. n PROVE \E j \in 1 .. n + 1 : t[j] = s[m]
    <3>1. CASE m < k + 1
      <4>1. m \in 1 .. n + 1
        BY <1>a
      <4> QED BY <1>8, <3>1, <4>1
    <3>2. CASE m >= k + 1
      <4>1. m + 1 \in 1 .. n + 1 /\ ~(m + 1 < k + 1) /\ m + 1 # k + 1 /\ (m + 1) - 1 = m
        BY <1>a, <1>5, <3>2
      <4> QED BY <1>8, <4>1
    <3> QED BY <1>a, <1>5, <3>1, <3>2
  <2>3. ToSet(s) = {s[m] : m \in 1 .. n} /\ ToSet(t) = {t[j] : j \in 1 .. n + 1}
    BY <1>a, <1>8 DEF ToSet
  <2> HIDE DEF n
  <2>4. ToSet(t) \subseteq ToSet(s) \cup {x}
    BY <2>1, <2>3
  <2>5. ToSet(s) \cup {x} \subseteq ToSet(t)
    BY <1>11, <2>2, <2>3
  <2> QED BY <2>4, <2>5
<1>17. Ordered(t)
  <2>1. Len(t) = n + 1 /\ DOMAIN t = 1 .. n + 1 /\ t \in Seq(AddrSet)
    BY <1>8
  <2> HIDE DEF n
  <2> QED BY <2>1, <1>13, <1>14, <1>15 DEF Ordered
<1> QED BY <1>7, <1>16, <1>17

\* An insertion keeps the type, whatever it is given.
LEMMA InsertType ==
    ASSUME NEW s \in Seq(AddrSet), NEW x \in AddrSet
    PROVE  Insert(s, x) \in Seq(AddrSet)
<1> DEFINE stays == {i \in DOMAIN s : ~Behind(s[i], x)}
           k == Max(stays \cup {0})
           n == Len(s)
<1>1. n \in Nat /\ DOMAIN s = 1 .. n
  OBVIOUS
<1>2. stays \cup {0} \subseteq 0 .. n
  BY <1>1
<1> HIDE DEF stays, n
<1>3. stays \cup {0} \subseteq Nat /\ stays \cup {0} # {} /\ \A i \in stays \cup {0} : i <= n
  BY <1>1, <1>2
<1>4. k \in stays \cup {0}
  BY <1>1, <1>3, MaxFacts
<1> HIDE DEF k
<1>5. k + 1 \in 1 .. n + 1
  BY <1>1, <1>2, <1>4
<1>6. k + 1 \in 1 .. Len(s) + 1
  BY <1>5 DEF n
<1>7. InsertAt(s, k + 1, x) \in Seq(AddrSet)
  BY <1>6, InsertIndex, Zenon
<1>8. Insert(s, x) = InsertAt(s, k + 1, x)
  BY DEF Insert, k, stays
<1> QED BY <1>7, <1>8

\* pgrest_util_sort: the same addresses, in that order.
LEMMA SortOrdered ==
    ASSUME NEW s \in Seq(AddrSet), \A i, j \in DOMAIN s : s[i].ip = s[j].ip => i = j
    PROVE  Ordered(Sort(s)) /\ ToSet(Sort(s)) = ToSet(s)
<1> DEFINE n == Len(s)
           X == Seq(AddrSet)
           Step(f, k) == IF k = 0 THEN <<>> ELSE Insert(f[k - 1], s[k])
           Is(f) == f = [k \in 0 .. n |-> Step(f, k)]
           r == CHOOSE f : Is(f)
<1>1. n \in Nat /\ DOMAIN s = 1 .. n /\ \A i \in 1 .. n : s[i] \in AddrSet
  OBVIOUS
<1>2. \E f : Is(f)
  <2> DEFINE G == [k \in 1 .. n |-> [q \in X |-> Insert(q, s[k])]]
  <2>1. <<>> \in X
    OBVIOUS
  <2> HIDE DEF n, X
  <2>2. G \in [1 .. n -> [X -> X]]
    BY <1>1, InsertType DEF X
  <2>3. \A k \in 1 .. n : \A q \in X : G[k][q] = Insert(q, s[k])
    OBVIOUS
  <2> HIDE DEF G
  <2>4. PICK f : RecursiveOn(f, X, <<>>, n, G)
    <3>1. n \in Nat
      BY <1>1
    <3> QED BY <2>1, <2>2, <3>1, RecursionOnInterval, Zenon
  <2>5. ASSUME NEW k \in 0 .. n PROVE f[k] = Step(f, k)
    <3>1. CASE k = 0
      BY <2>4, <3>1 DEF RecursiveOn
    <3>2. CASE k # 0
      <4>1. k \in 1 .. n /\ k - 1 \in 0 .. n
        BY <1>1, <3>2
      <4>2. f[k - 1] \in X
        BY <2>4, <4>1 DEF RecursiveOn
      <4> QED BY <2>3, <2>4, <3>2, <4>1, <4>2 DEF RecursiveOn
    <3> QED BY <3>1, <3>2
  <2>6. Is(f)
    <3>1. f \in [0 .. n -> X]
      BY <2>4 DEF RecursiveOn
    <3> QED BY <2>5, <3>1
  <2> QED BY <2>6
<1> HIDE DEF Is
<1>3. Is(r)
  BY <1>2
<1>4. \A k \in 0 .. n : r[k] = Step(r, k)
  BY <1>3 DEF Is
<1>5. Sort(s) = r[n]
  BY DEF Sort, r, Is
<1> HIDE DEF r
<1> DEFINE U == {k \in Nat : k <= n => Ordered(r[k]) /\ ToSet(r[k]) = {s[i] : i \in 1 .. k}}
<1>6. 0 \in U
  <2>1. r[0] = <<>>
    BY <1>1, <1>4
  <2>2. Ordered(<<>>) /\ ToSet(<<>>) = {}
    BY DEF Ordered, ToSet
  <2>3. {s[i] : i \in 1 .. 0} = {}
    OBVIOUS
  <2> QED BY <2>1, <2>2, <2>3
<1>7. ASSUME NEW k \in U PROVE k + 1 \in U
  <2>0. k \in Nat /\ k + 1 \in Nat
    OBVIOUS
  <2> SUFFICES ASSUME k + 1 <= n
               PROVE  Ordered(r[k + 1]) /\ ToSet(r[k + 1]) = {s[i] : i \in 1 .. k + 1}
    BY <2>0
  <2>1. k <= n /\ k + 1 \in 1 .. n /\ k + 1 \in 0 .. n /\ k + 1 # 0 /\ (k + 1) - 1 = k
    BY <1>1, <2>0
  <2>2. Ordered(r[k]) /\ ToSet(r[k]) = {s[i] : i \in 1 .. k}
    BY <2>1
  <2>3. r[k + 1] = Insert(r[k], s[k + 1])
    BY <1>4, <2>1
  <2>4. ASSUME NEW i \in DOMAIN r[k] PROVE r[k][i].ip # s[k + 1].ip
    <3>1. r[k][i] \in ToSet(r[k])
      BY DEF ToSet
    <3>2. PICK m \in 1 .. k : r[k][i] = s[m]
      BY <2>2, <3>1
    <3>3. m \in 1 .. n /\ m # k + 1
      BY <1>1, <2>0, <2>1
    <3> QED BY <1>1, <2>1, <3>2, <3>3
  <2>5. s[k + 1] \in AddrSet
    BY <1>1, <2>1
  <2>6. Ordered(r[k + 1]) /\ ToSet(r[k + 1]) = ToSet(r[k]) \cup {s[k + 1]}
    BY <2>2, <2>3, <2>4, <2>5, InsertOrdered
  <2>7. 1 .. k + 1 = (1 .. k) \cup {k + 1}
    BY <2>0
  <2>8. {s[i] : i \in 1 .. k + 1} = {s[i] : i \in 1 .. k} \cup {s[k + 1]}
    BY <2>7
  <2> QED BY <2>2, <2>6, <2>8
<1>8. n \in U
  <2> HIDE DEF U
  <2>1. U \subseteq Nat
    BY DEF U
  <2> QED BY <1>1, <1>6, <1>7, <2>1, SetInduction
<1>9. ToSet(s) = {s[i] : i \in 1 .. n}
  BY <1>1 DEF ToSet
<1> HIDE DEF n
<1>10. Ordered(r[n]) /\ ToSet(r[n]) = {s[i] : i \in 1 .. n}
  BY <1>1, <1>8
<1> QED BY <1>5, <1>9, <1>10
-----------------------------------------------------------------------------
(* The sockets of a port.                                                  *)

ConfSet == [ip : Ips \cup {AnyIp}, server : Nat, http2 : BOOLEAN,
            hash : [Names -> Nat]]

SocketSet == [port : Ports, ip : Ips \cup {AnyIp}, addrs : Seq(ConfSet)]

\* The socket of address j.
Sock(port, s, j) ==
    [port |-> port, ip |-> s[j].ip,
     addrs |-> [m \in 1 .. Naddrs(s, j) |-> AddrConf(s[j - Naddrs(s, j) + m])]]

\* What the addresses of a port are in order means, member by member.
LEMMA OrderedFacts ==
    ASSUME NEW s, Ordered(s)
    PROVE  /\ s \in Seq(AddrSet) /\ Len(s) \in Nat /\ DOMAIN s = 1 .. Len(s)
           /\ \A i \in 1 .. Len(s) : s[i] \in AddrSet
           /\ \A i, j \in 1 .. Len(s) : s[i].ip = s[j].ip => i = j
           /\ \A i \in 1 .. Len(s) : s[i].ip = AnyIp => i = Len(s)
           /\ \A i, j \in 1 .. Len(s) : i < j /\ s[j].bind /\ s[j].ip # AnyIp => s[i].bind
<1>1. s \in Seq(AddrSet) /\ Len(s) \in Nat /\ DOMAIN s = 1 .. Len(s)
  BY DEF Ordered
<1>2. \A i \in 1 .. Len(s) : s[i] \in AddrSet
  BY <1>1
<1> QED BY <1>1, <1>2, Zenon DEF Ordered

\* The addresses passed over before a socket are those right before it.
LEMMA PassedOver ==
    ASSUME NEW s, Ordered(s), NEW j \in 1 .. Len(s)
    PROVE  \E b \in 0 .. j - 1 : /\ {c \in Covered(s) : c < j} = b + 1 .. j - 1
                                 /\ Naddrs(s, j) = j - b
<1> DEFINE n == Len(s)
           C == {c \in Covered(s) : c < j}
<1>1. n \in Nat /\ j \in 1 .. n
  BY OrderedFacts
<1>2. Covered(s) = {i \in 1 .. n - 1 : s[n].ip = AnyIp /\ ~s[i].bind}
  BY DEF Covered
<1>3. Naddrs(s, j) = Cardinality(C) + 1
  BY DEF Naddrs
<1> SUFFICES \E b \in 0 .. j - 1 : C = b + 1 .. j - 1
  <2>1. ASSUME NEW b \in 0 .. j - 1, C = b + 1 .. j - 1 PROVE Naddrs(s, j) = j - b
    <3> HIDE DEF C, n
    <3>1. b \in Int /\ j \in Int /\ b <= j - 1 /\ b + 1 \in Int /\ j - 1 \in Int
      BY <1>1
    <3>2. Cardinality(b + 1 .. j - 1) = IF b + 1 > j - 1 THEN 0 ELSE (j - 1) - (b + 1) + 1
      BY <3>1, FS_Interval, Zenon
    <3>3. Cardinality(b + 1 .. j - 1) = j - b - 1
      BY <3>1, <3>2
    <3>4. Cardinality(C) = j - b - 1
      BY <2>1, <3>3, Zenon
    <3> QED BY <1>3, <3>1, <3>4
  <2> QED BY <2>1
<1>4. CASE C = {}
  <2> HIDE DEF C
  <2>1. j - 1 \in 0 .. j - 1 /\ (j - 1) + 1 .. j - 1 = {}
    BY <1>1
  <2> QED BY <1>4, <2>1
<1>5. CASE C # {}
  <2> DEFINE c0 == Min(C)
  <2>1. C \subseteq 1 .. j - 1 /\ C \subseteq Nat
    BY <1>1, <1>2
  <2>2. c0 \in C /\ \A c \in C : c0 <= c
    <3> HIDE DEF C
    <3> QED BY <1>5, <2>1, MinFacts
  <2>3. c0 \in 1 .. n - 1 /\ c0 < j /\ s[n].ip = AnyIp /\ ~s[c0].bind
    <3> HIDE DEF c0
    <3> QED BY <1>2, <2>2
  <2> HIDE DEF c0
  <2>4. ASSUME NEW m \in c0 .. j - 1 PROVE m \in C
    <3>0. m \in 1 .. n - 1 /\ m < j /\ m # n /\ m \in 1 .. n /\ (m = c0 \/ c0 < m) /\ c0 \in 1 .. n
      <4> HIDE DEF n, C
      <4> QED BY <1>1, <2>3
    <3>1. s[m].ip # AnyIp
      BY <3>0, OrderedFacts
    <3>2. ~s[m].bind
      BY <2>3, <3>0, <3>1, OrderedFacts
    <3> QED BY <1>2, <2>3, <3>0, <3>2
  <2>5. C \subseteq c0 .. j - 1
    <3> HIDE DEF C
    <3> QED BY <1>1, <2>1, <2>2
  <2>6. C = c0 .. j - 1
    <3> HIDE DEF C
    <3> QED BY <2>4, <2>5
  <2>7. c0 - 1 \in 0 .. j - 1 /\ (c0 - 1) + 1 = c0
    <3> HIDE DEF C, n
    <3> QED BY <1>1, <2>3
  <2> QED BY <2>6, <2>7
<1> QED BY <1>4, <1>5
LEMMA AddrConfType ==
    ASSUME NEW a \in AddrSet
    PROVE  AddrConf(a) \in ConfSet /\ AddrConf(a).ip = a.ip
  BY DEF AddrConf, AddrSet, ConfSet

\* What a connection to the socket of address j is told: of the address it came
\* to, if that is one of those passed over, or else of j.
LEMMA SockTold ==
    ASSUME NEW s, Ordered(s), NEW j \in 1 .. Len(s), NEW port \in Ports
    PROVE  /\ Sock(port, s, j) \in SocketSet
           /\ Sock(port, s, j).port = port /\ Sock(port, s, j).ip = s[j].ip
           /\ \A ip : (\A c \in Covered(s) : c < j => s[c].ip # ip) =>
                 ConnInit(Sock(port, s, j).addrs, ip) = AddrConf(s[j])
           /\ \A i \in Covered(s) : i < j =>
                 ConnInit(Sock(port, s, j).addrs, s[i].ip) = AddrConf(s[i])
<1> DEFINE n == Len(s)
           N == Naddrs(s, j)
           q == [m \in 1 .. N |-> AddrConf(s[j - N + m])]
           C == Covered(s)
<1>1. n \in Nat /\ j \in 1 .. n /\ \A i \in 1 .. n : s[i] \in AddrSet
  BY OrderedFacts
<1>2. PICK b \in 0 .. j - 1 : {c \in C : c < j} = b + 1 .. j - 1 /\ N = j - b
  BY PassedOver
<1> HIDE DEF n, N, C
<1>3. b \in Nat /\ N \in 1 .. j /\ N \in Nat /\ j - N = b /\ b + N = j
  BY <1>1, <1>2
<1>4. q = [m \in 1 .. N |-> AddrConf(s[b + m])]
  BY <1>3
<1>5. \A m \in 1 .. N : b + m \in 1 .. n
  BY <1>1, <1>3
<1>6. q \in [1 .. N -> ConfSet]
  BY <1>1, <1>4, <1>5, AddrConfType
<1>7. /\ q \in Seq(ConfSet) /\ Len(q) = N /\ q[N] = AddrConf(s[j])
      /\ \A m \in 1 .. N : q[m] = AddrConf(s[b + m])
  <2>1. q \in Seq(ConfSet) /\ Len(q) = N
    BY <1>3, <1>6, IntervalSeq
  <2>2. \A m \in 1 .. N : q[m] = AddrConf(s[b + m])
    BY <1>4
  <2>3. N \in 1 .. N
    BY <1>3
  <2> QED BY <1>3, <2>1, <2>2, <2>3
<1>8. \A m \in 1 .. N : q[m].ip = s[b + m].ip
  BY <1>1, <1>5, <1>7, AddrConfType
<1>9. Sock(port, s, j) = [port |-> port, ip |-> s[j].ip, addrs |-> q]
  BY DEF Sock, N
<1> HIDE DEF q
<1>10. /\ Sock(port, s, j) \in SocketSet /\ Sock(port, s, j).addrs = q
       /\ Sock(port, s, j).port = port /\ Sock(port, s, j).ip = s[j].ip
  <2>1. s[j].ip \in Ips \cup {AnyIp}
    BY <1>1 DEF AddrSet
  <2> QED BY <1>7, <1>9, <2>1 DEF SocketSet
<1> DEFINE hits(ip) == {k \in 1 .. Len(q) - 1 : q[k].ip = ip}
<1>11. \A ip : ConnInit(q, ip) = q[Min(hits(ip) \cup {Len(q)})]
  BY DEF ConnInit
<1>12. \A k \in 1 .. N - 1 : k \in 1 .. N /\ b + k \in C /\ b + k < j
  <2>1. \A k \in 1 .. N - 1 : k \in 1 .. N /\ b + k \in b + 1 .. j - 1
    BY <1>3
  <2> QED BY <1>2, <2>1
<1>13. ASSUME NEW ip, \A c \in C : c < j => s[c].ip # ip
       PROVE  ConnInit(q, ip) = AddrConf(s[j])
  <2>1. hits(ip) = {}
    BY <1>7, <1>8, <1>12, <1>13
  <2>2. hits(ip) \cup {Len(q)} = {N}
    BY <1>7, <2>1
  <2>3. {N} \subseteq Nat /\ {N} # {}
    BY <1>3
  <2>4. Min({N}) = N
    BY <2>3, MinFacts
  <2> QED BY <1>7, <1>11, <2>2, <2>4
<1>14. ASSUME NEW i \in C, i < j
       PROVE  ConnInit(q, s[i].ip) = AddrConf(s[i])
  <2>1. i \in b + 1 .. j - 1
    BY <1>2, <1>14
  <2>2. i - b \in 1 .. N - 1 /\ i - b \in 1 .. N /\ b + (i - b) = i /\ i \in 1 .. n
    BY <1>1, <1>3, <2>1
  <2>3. q[i - b] = AddrConf(s[i]) /\ q[i - b].ip = s[i].ip
    BY <1>7, <1>8, <2>2
  <2> DEFINE H == hits(s[i].ip) \cup {Len(q)}
  <2>4. ASSUME NEW k \in H PROVE k \in Nat /\ (k # N => k = i - b)
    <3>1. CASE k \in hits(s[i].ip)
      <4>1. k \in 1 .. N - 1 /\ q[k].ip = s[i].ip
        BY <1>7, <3>1
      <4>2. k \in 1 .. N /\ b + k \in 1 .. n /\ s[b + k].ip = s[i].ip
        BY <1>5, <1>8, <1>12, <4>1
      <4>3. b + k = i
        BY <2>2, <4>2, OrderedFacts DEF n
      <4> QED BY <1>3, <4>1, <4>3
    <3>2. CASE k = Len(q)
      BY <1>3, <1>7, <3>2
    <3> QED BY <3>1, <3>2
  <2>5. i - b \in H
    BY <1>7, <2>2, <2>3
  <2> HIDE DEF H
  <2>6. H \subseteq Nat /\ H # {}
    BY <2>4, <2>5
  <2>7. Min(H) \in H /\ Min(H) <= i - b
    BY <2>5, <2>6, MinFacts
  <2>8. Min(H) = i - b
    BY <1>3, <2>2, <2>4, <2>7
  <2> QED BY <1>11, <2>3, <2>8 DEF H
<1> QED BY <1>10, <1>13, <1>14 DEF C
\* t has the sockets of the addresses in A, each once.
Opens(t, port, s, A) ==
    /\ t \in Seq(SocketSet)
    /\ \A k \in DOMAIN t : \E j \in A : t[k] = Sock(port, s, j)
    /\ \A j \in A : \E k \in DOMAIN t : t[k] = Sock(port, s, j)
    /\ \A k, m \in DOMAIN t : t[k].ip = t[m].ip => k = m

\* pgrest_http_init_listener opens one more socket.
LEMMA OpensOneMore ==
    ASSUME NEW s, Ordered(s), NEW port \in Ports, NEW A, A \subseteq 1 .. Len(s), NEW t,
           Opens(t, port, s, A), NEW j \in 1 .. Len(s), j \notin A
    PROVE  Opens(Append(t, Sock(port, s, j)), port, s, A \cup {j})
<1> DEFINE x == Sock(port, s, j)
           u == Append(t, x)
           n == Len(t)
<1>1. x \in SocketSet /\ x.ip = s[j].ip
  BY SockTold
<1>2. /\ t \in Seq(SocketSet) /\ n \in Nat /\ DOMAIN t = 1 .. n
  BY DEF Opens
<1> HIDE DEF x
<1>3. /\ u \in Seq(SocketSet) /\ DOMAIN u = 1 .. n + 1 /\ u[n + 1] = x
      /\ \A k \in 1 .. n : u[k] = t[k]
  BY <1>1, <1>2
<1> HIDE DEF u, n
<1>4. \A k \in 1 .. n + 1 : k \in 1 .. n \/ k = n + 1
  BY <1>2
<1>4a. \A k \in 1 .. n : k \in 1 .. n + 1
  BY <1>2
<1>4b. n + 1 \in 1 .. n + 1
  BY <1>2
<1>5. \A k \in DOMAIN u : \E i \in A \cup {j} : u[k] = Sock(port, s, i)
  <2>1. ASSUME NEW k \in 1 .. n PROVE \E i \in A \cup {j} : u[k] = Sock(port, s, i)
    <3>1. \E i \in A : t[k] = Sock(port, s, i)
      BY <1>2 DEF Opens
    <3> QED BY <1>3, <3>1
  <2>2. u[n + 1] = Sock(port, s, j)
    BY <1>3 DEF x
  <2> QED BY <1>3, <1>4, <2>1, <2>2
<1>6. \A i \in A \cup {j} : \E k \in DOMAIN u : u[k] = Sock(port, s, i)
  BY <1>2, <1>3, <1>4a, <1>4b DEF Opens, x
<1>7. \A k \in 1 .. n : t[k].ip # x.ip
  <2> SUFFICES ASSUME NEW k \in 1 .. n, t[k].ip = x.ip PROVE FALSE
    OBVIOUS
  <2>1. PICK i \in A : t[k] = Sock(port, s, i)
    BY <1>2 DEF Opens
  <2>2. t[k].ip = s[i].ip /\ i \in 1 .. Len(s)
    BY <2>1, SockTold
  <2>3. i = j
    BY <1>1, <2>2, OrderedFacts
  <2> QED BY <2>3
<1>8. ASSUME NEW k \in 1 .. n + 1, NEW m \in 1 .. n + 1, u[k].ip = u[m].ip PROVE k = m
  <2>1. CASE k \in 1 .. n /\ m \in 1 .. n
    BY <1>2, <1>3, <1>8, <2>1 DEF Opens
  <2>2. CASE k \in 1 .. n /\ m = n + 1
    BY <1>3, <1>7, <1>8, <2>2
  <2>3. CASE k = n + 1 /\ m \in 1 .. n
    BY <1>3, <1>7, <1>8, <2>3
  <2> QED BY <1>4, <2>1, <2>2, <2>3
<1>9. Opens(u, port, s, A \cup {j})
  BY <1>3, <1>5, <1>6, <1>8 DEF Opens
<1> QED BY <1>9 DEF u, x

\* It opens one for every address that has none to share.
LEMMA ListenerOpens ==
    ASSUME NEW s, Ordered(s), NEW port \in Ports
    PROVE  Opens(InitListener(port, s), port, s, (1 .. Len(s)) \ Covered(s))
<1> DEFINE n == Len(s)
           C == Covered(s)
           X == Seq(SocketSet)
           Step(f, k) == IF k = 0 THEN <<>>
                         ELSE IF k \in C THEN f[k - 1] ELSE Append(f[k - 1], Sock(port, s, k))
           Is(f) == f = [k \in 0 .. n |-> Step(f, k)]
           r == CHOOSE f : Is(f)
<1>1. n \in Nat
  BY OrderedFacts
<1>2. \E f : Is(f)
  <2> DEFINE G == [k \in 1 .. n |-> [q \in X |->
                      IF k \in C THEN q ELSE Append(q, Sock(port, s, k))]]
  <2>1. <<>> \in X
    OBVIOUS
  <2>2. \A x \in SocketSet : \A q \in X : Append(q, x) \in X
    OBVIOUS
  <2>2a. \A k \in 1 .. n : Sock(port, s, k) \in SocketSet
    BY SockTold
  <2> HIDE DEF n, X, C
  <2>3. G \in [1 .. n -> [X -> X]]
    BY <2>2, <2>2a
  <2>4. \A k \in 1 .. n : \A q \in X :
           G[k][q] = IF k \in C THEN q ELSE Append(q, Sock(port, s, k))
    OBVIOUS
  <2> HIDE DEF G
  <2>5. PICK f : RecursiveOn(f, X, <<>>, n, G)
    <3>1. n \in Nat
      BY <1>1
    <3> QED BY <2>1, <2>3, <3>1, RecursionOnInterval, Zenon
  <2>6. ASSUME NEW k \in 0 .. n PROVE f[k] = Step(f, k)
    <3>1. CASE k = 0
      BY <2>5, <3>1 DEF RecursiveOn
    <3>2. CASE k # 0
      <4>1. k \in 1 .. n /\ k - 1 \in 0 .. n
        BY <1>1, <3>2
      <4>2. f[k - 1] \in X
        BY <2>5, <4>1 DEF RecursiveOn
      <4> QED BY <2>4, <2>5, <3>2, <4>1, <4>2 DEF RecursiveOn
    <3> QED BY <3>1, <3>2
  <2>7. Is(f)
    <3>1. f \in [0 .. n -> X]
      BY <2>5 DEF RecursiveOn
    <3> QED BY <2>6, <3>1
  <2> QED BY <2>7
<1> HIDE DEF Is
<1>3. Is(r)
  BY <1>2
<1>4. \A k \in 0 .. n : r[k] = Step(r, k)
  BY <1>3 DEF Is
<1>5. InitListener(port, s) = r[n]
  BY DEF InitListener, r, Is, Sock
<1> HIDE DEF r, n, C
<1> DEFINE U == {k \in Nat : k <= n => Opens(r[k], port, s, (1 .. k) \ C)}
<1>6. 0 \in U
  <2>1. r[0] = <<>>
    BY <1>1, <1>4
  <2>2. (1 .. 0) \ C = {}
    OBVIOUS
  <2>3. Opens(<<>>, port, s, {})
    BY DEF Opens
  <2> QED BY <2>1, <2>2, <2>3
<1>7. ASSUME NEW k \in U PROVE k + 1 \in U
  <2>0. k \in Nat /\ k + 1 \in Nat
    OBVIOUS
  <2> SUFFICES ASSUME k + 1 <= n PROVE Opens(r[k + 1], port, s, (1 .. k + 1) \ C)
    BY <2>0
  <2>1. k <= n /\ k + 1 \in 1 .. n /\ k + 1 \in 0 .. n /\ k + 1 # 0 /\ (k + 1) - 1 = k
    BY <1>1, <2>0
  <2>2. Opens(r[k], port, s, (1 .. k) \ C)
    BY <2>1
  <2>3. 1 .. k + 1 = (1 .. k) \cup {k + 1} /\ k + 1 \notin 1 .. k
    BY <2>0
  <2>4. CASE k + 1 \in C
    <3>1. r[k + 1] = r[k]
      BY <1>4, <2>1, <2>4
    <3>2. (1 .. k + 1) \ C = (1 .. k) \ C
      BY <2>3, <2>4
    <3> QED BY <2>2, <3>1, <3>2
  <2>5. CASE k + 1 \notin C
    <3>1. r[k + 1] = Append(r[k], Sock(port, s, k + 1))
      BY <1>4, <2>1, <2>5
    <3>2. (1 .. k + 1) \ C = ((1 .. k) \ C) \cup {k + 1}
      BY <2>3, <2>5
    <3>3. (1 .. k) \ C \subseteq 1 .. n /\ k + 1 \notin (1 .. k) \ C
      BY <1>1, <2>0, <2>1
    <3>4. (1 .. k) \ C \subseteq 1 .. Len(s) /\ k + 1 \in 1 .. Len(s)
      BY <2>1, <3>3 DEF n
    <3> DEFINE A == (1 .. k) \ C
    <3> HIDE DEF A
    <3>5. Opens(Append(r[k], Sock(port, s, k + 1)), port, s, A \cup {k + 1})
      BY <2>2, <3>3, <3>4, OpensOneMore, Zenon DEF A
    <3> QED BY <3>1, <3>2, <3>5, Zenon DEF A
  <2> QED BY <2>4, <2>5
<1>8. n \in U
  <2> HIDE DEF U
  <2>1. U \subseteq Nat
    BY DEF U
  <2> QED BY <1>1, <1>6, <1>7, <2>1, SetInduction
<1>9. Opens(r[n], port, s, (1 .. n) \ C)
  BY <1>1, <1>8
<1> QED BY <1>5, <1>9 DEF n, C
-----------------------------------------------------------------------------
(* The socket a connection reaches.                                        *)

SocketsAt(t, p, x) == {k \in DOMAIN t : t[k].port = p /\ t[k].ip = x}

ReachedOf(t, p, ip) ==
    IF SocketsAt(t, p, ip) # {} THEN SocketsAt(t, p, ip) ELSE SocketsAt(t, p, AnyIp)

\* Entry i of s is the one for address ip.
Entry(s, ip, i) ==
    s[i].ip = ip \/ (s[i].ip = AnyIp /\ \A j \in 1 .. Len(s) : s[j].ip # ip)

\* A connection to address ip is told of the entry for it; without one it is refused.
Reaches(t, port, s, ip) ==
    /\ t \in Seq(SocketSet) /\ \A k \in DOMAIN t : t[k].port = port
    /\ \A i \in 1 .. Len(s) : Entry(s, ip, i) =>
          \E k \in DOMAIN t : /\ ReachedOf(t, port, ip) = {k}
                              /\ ConnInit(t[k].addrs, ip) = AddrConf(s[i])
    /\ (\A i \in 1 .. Len(s) : ~Entry(s, ip, i)) => ReachedOf(t, port, ip) = {}

\* That is so when the sockets of the port are open.
LEMMA PortReaches ==
    ASSUME NEW s, Ordered(s), NEW port \in Ports, NEW ip \in Ips
    PROVE  Reaches(InitListener(port, s), port, s, ip)
<1> DEFINE t == InitListener(port, s)
<1> DEFINE n == Len(s)
           C == Covered(s)
           A == (1 .. n) \ C
<1>1. n \in Nat /\ \A i \in 1 .. n : s[i].ip = AnyIp => i = n
  BY OrderedFacts
<1>2. C = {i \in 1 .. n - 1 : s[n].ip = AnyIp /\ ~s[i].bind}
  BY DEF Covered
<1>2a. \A i, j \in 1 .. n : s[i].ip = s[j].ip => i = j
  BY OrderedFacts
<1>3. /\ t \in Seq(SocketSet)
      /\ \A k \in DOMAIN t : \E j \in A : t[k] = Sock(port, s, j)
      /\ \A j \in A : \E k \in DOMAIN t : t[k] = Sock(port, s, j)
      /\ \A k, m \in DOMAIN t : t[k].ip = t[m].ip => k = m
  BY ListenerOpens DEF Opens
<1> HIDE DEF t
<1>4. \A j \in 1 .. n : Sock(port, s, j).port = port /\ Sock(port, s, j).ip = s[j].ip
  BY SockTold
<1>4a. \A j \in 1 .. n :
          /\ \A x : (\A c \in C : c < j => s[c].ip # x) =>
                ConnInit(Sock(port, s, j).addrs, x) = AddrConf(s[j])
          /\ \A i \in C : i < j => ConnInit(Sock(port, s, j).addrs, s[i].ip) = AddrConf(s[i])
  BY SockTold
<1> HIDE DEF n, C
<1>5. \A k \in DOMAIN t : t[k].port = port
  BY <1>3, <1>4
<1>6. ASSUME NEW j \in A
      PROVE  \E k \in DOMAIN t : SocketsAt(t, port, s[j].ip) = {k} /\ t[k] = Sock(port, s, j)
  <2>1. PICK k \in DOMAIN t : t[k] = Sock(port, s, j)
    BY <1>3
  <2>2. t[k].ip = s[j].ip
    BY <1>4, <2>1
  <2>3. \A m \in DOMAIN t : t[m].ip = s[j].ip => m = k
    BY <1>3, <2>2
  <2>4. SocketsAt(t, port, s[j].ip) = {k}
    BY <1>5, <2>2, <2>3 DEF SocketsAt
  <2> QED BY <2>1, <2>4
<1>7. ASSUME NEW x, \A j \in A : s[j].ip # x
      PROVE  SocketsAt(t, port, x) = {}
  <2>1. \A k \in DOMAIN t : t[k].ip # x
    <3> TAKE k \in DOMAIN t
    <3>1. PICK j \in A : t[k] = Sock(port, s, j)
      BY <1>3
    <3> QED BY <1>4, <1>7, <3>1
  <2> QED BY <2>1 DEF SocketsAt
<1>8. ASSUME NEW i \in 1 .. n, Entry(s, ip, i)
      PROVE  \E k \in DOMAIN t : /\ ReachedOf(t, port, ip) = {k}
                                 /\ ConnInit(t[k].addrs, ip) = AddrConf(s[i])
  \* The entry has a socket of its own and names the address.
  <2>1. CASE i \in A /\ s[i].ip = ip
    <3>1. PICK k \in DOMAIN t : SocketsAt(t, port, ip) = {k} /\ t[k] = Sock(port, s, i)
      BY <1>6, <2>1
    <3>2. ReachedOf(t, port, ip) = {k}
      BY <3>1 DEF ReachedOf
    <3>3. \A c \in C : c < i => s[c].ip # ip
      <4> SUFFICES ASSUME NEW c \in C, c < i, s[c].ip = ip PROVE FALSE
        OBVIOUS
      <4>1. c \in 1 .. n
        BY <1>1, <1>2
      <4>2. c = i
        BY <1>2a, <2>1, <4>1
      <4> QED BY <4>1, <4>2
    <3>4. ConnInit(t[k].addrs, ip) = AddrConf(s[i])
      BY <1>4a, <3>1, <3>3
    <3> QED BY <3>2, <3>4
  \* The wildcard's socket serves it.
  <2>2. CASE i \in C /\ s[i].ip = ip
    <3>1. s[n].ip = AnyIp /\ n \in A /\ i < n /\ i \in 1 .. n
      BY <1>1, <1>2, <2>2
    <3>2. PICK k \in DOMAIN t : SocketsAt(t, port, AnyIp) = {k} /\ t[k] = Sock(port, s, n)
      BY <1>6, <3>1
    <3>3. \A j \in A : s[j].ip # ip
      BY <1>2a, <2>2, <3>1
    <3>4. SocketsAt(t, port, ip) = {}
      BY <1>7, <3>3
    <3>5. ReachedOf(t, port, ip) = {k}
      BY <3>2, <3>4 DEF ReachedOf
    <3>6. ConnInit(t[k].addrs, ip) = AddrConf(s[i])
      <4>1. n \in 1 .. n
        BY <3>1
      <4> QED BY <1>4a, <2>2, <3>1, <3>2, <4>1
    <3> QED BY <3>5, <3>6
  \* It is the wildcard's.
  <2>3. CASE s[i].ip = AnyIp /\ \A j \in 1 .. n : s[j].ip # ip
    <3>1. i \in A
      BY <1>1, <1>2, <2>3
    <3>2. PICK k \in DOMAIN t : SocketsAt(t, port, AnyIp) = {k} /\ t[k] = Sock(port, s, i)
      BY <1>6, <2>3, <3>1
    <3>3. SocketsAt(t, port, ip) = {}
      BY <1>7, <2>3
    <3>4. ReachedOf(t, port, ip) = {k}
      BY <3>2, <3>3 DEF ReachedOf
    <3>5. \A c \in C : s[c].ip # ip
      <4>1. \A c \in C : c \in 1 .. n
        BY <1>1, <1>2
      <4> QED BY <2>3, <4>1
    <3>6. ConnInit(t[k].addrs, ip) = AddrConf(s[i])
      BY <1>4a, <3>2, <3>5
    <3> QED BY <3>4, <3>6
  <2> QED BY <1>8, <2>1, <2>2, <2>3 DEF Entry, n
<1>9. ASSUME \A i \in 1 .. n : ~Entry(s, ip, i)
      PROVE  ReachedOf(t, port, ip) = {}
  <2>1. \A i \in 1 .. n : s[i].ip # ip
    BY <1>9 DEF Entry
  <2>2. \A i \in 1 .. n : s[i].ip # AnyIp
    BY <1>9, <2>1 DEF Entry, n
  <2>3. SocketsAt(t, port, ip) = {} /\ SocketsAt(t, port, AnyIp) = {}
    BY <1>7, <2>1, <2>2
  <2> QED BY <2>3 DEF ReachedOf
<1>10. Reaches(t, port, s, ip)
  BY <1>3, <1>5, <1>8, <1>9 DEF n, Reaches
<1> QED BY <1>10 DEF t
-----------------------------------------------------------------------------
(* What an entry says of the directives for its address.                   *)

\* The directives among the first b for address x of port p.
Dirs(L, b, p, x) == {i \in 1 .. b : L[i].port = p /\ L[i].ip = x}

\* Entry a has the servers of D in the order of the file; its own server is the
\* default of D, or else the first.
Describes(L, a, D) ==
    /\ ToSet(a.servers) = D
    /\ \A x, y \in DOMAIN a.servers : x < y => a.servers[x] < a.servers[y]
    /\ a.server \in D
    /\ (\E i \in D : L[i].default) => L[a.server].default
    /\ (\A i \in D : ~L[i].default) => \A i \in D : a.server <= i
    /\ a.http2 <=> \E i \in D : L[i].http2
    /\ a.hash = [n \in Names |-> 0]

LEMMA NewDescribed ==
    ASSUME NEW L, NEW s \in Nat, L[s] \in ListenSet
    PROVE  Describes(L, NewAddress(s, L[s]), {s})
<1> DEFINE a == NewAddress(s, L[s])
<1>1. /\ a.servers = <<s>> /\ a.server = s /\ a.hash = [n \in Names |-> 0]
      /\ a.http2 = L[s].http2
  BY DEF NewAddress
<1>2. DOMAIN <<s>> = {1} /\ <<s>>[1] = s
  OBVIOUS
<1>3. ToSet(<<s>>) = {s}
  BY <1>2, Zenon DEF ToSet
<1>4. L[s].http2 \in BOOLEAN
  BY DEF ListenSet
<1>5. \A x, y \in DOMAIN <<s>> : ~(x < y)
  BY <1>2
<1>6. \A i \in {s} : s <= i
  OBVIOUS
<1> HIDE DEF a
<1>7. Describes(L, a, {s})
  BY <1>1, <1>3, <1>4, <1>5, <1>6 DEF Describes
<1> QED BY <1>7 DEF a

LEMMA MergeDescribed ==
    ASSUME NEW L, NEW s \in Nat, L[s] \in ListenSet, NEW a \in AddrSet,
           NEW D, D \subseteq Nat, \A i \in D : i < s, Describes(L, a, D)
    PROVE  Describes(L, Merge(s, a, L[s]), D \cup {s})
<1> DEFINE m == Merge(s, a, L[s])
           q == a.servers
           t == Append(q, s)
           N == Len(q)
<1>1. /\ q \in Seq(Nat) /\ a.server \in Nat /\ a.http2 \in BOOLEAN
      /\ L[s].default \in BOOLEAN /\ L[s].http2 \in BOOLEAN
  BY DEF AddrSet, ListenSet
<1>2. /\ m.servers = t /\ m.server = IF L[s].default THEN s ELSE a.server
      /\ m.http2 = (a.http2 \/ L[s].http2) /\ m.hash = a.hash
      /\ ToSet(m.servers) = ToSet(q) \cup {s}
  <2>1. ToSet(m.servers) = ToSet(q) \cup {s}
    BY MergeType
  <2> QED BY <2>1 DEF Merge, AddrSet
<1>3. /\ N \in Nat /\ DOMAIN q = 1 .. N /\ DOMAIN t = 1 .. N + 1 /\ t[N + 1] = s
      /\ \A i \in 1 .. N : t[i] = q[i] /\ q[i] \in Nat
  BY <1>1
<1> HIDE DEF m, t, N, q
<1>4. ASSUME NEW x \in DOMAIN t, NEW y \in DOMAIN t, x < y PROVE t[x] < t[y]
  <2>1. x \in 1 .. N
    BY <1>3, <1>4
  <2>2. CASE y \in 1 .. N
    BY <1>3, <1>4, <2>1, <2>2 DEF Describes, q
  <2>3. CASE y = N + 1
    <3>1. q[x] \in D
      BY <1>3, <2>1 DEF Describes, q, ToSet
    <3> QED BY <1>3, <2>1, <2>3, <3>1
  <2> QED BY <1>3, <2>2, <2>3
<1>5. m.server \in D \cup {s}
  BY <1>2 DEF Describes
<1>6. (\E i \in D \cup {s} : L[i].default) => L[m.server].default
  BY <1>2 DEF Describes
<1>7. ASSUME \A i \in D \cup {s} : ~L[i].default, NEW i \in D \cup {s} PROVE m.server <= i
  <2>1. m.server = a.server /\ \A j \in D : a.server <= j /\ a.server \in D
    BY <1>2, <1>7 DEF Describes
  <2>2. a.server < s
    BY DEF Describes
  <2>3. a.server <= s
    BY <1>1, <2>2
  <2> QED BY <2>1, <2>3
<1>8. m.http2 <=> \E i \in D \cup {s} : L[i].http2
  BY <1>1, <1>2 DEF Describes
<1>9. ToSet(m.servers) = D \cup {s} /\ m.hash = [n \in Names |-> 0]
  BY <1>2 DEF Describes, q
<1> QED BY <1>2, <1>4, <1>5, <1>6, <1>7, <1>8, <1>9 DEF Describes, m

\* What a connection is told matches the directives D of its address, and, if they
\* are several, the names of their servers.
Match(L, V, D, told) ==
    /\ told \in ConfSet
    /\ told.server \in D
    /\ (\E i \in D : L[i].default) => L[told.server].default
    /\ (\A i \in D : ~L[i].default) => \A i \in D : told.server <= i
    /\ told.http2 <=> \E i \in D : L[i].http2
    /\ \A n \in Names :
          IF Cardinality(D) > 1 /\ (\E i \in D : n \in V[i])
          THEN /\ told.hash[n] \in D /\ n \in V[told.hash[n]]
               /\ \A i \in D : n \in V[i] => i <= told.hash[n]
          ELSE told.hash[n] = 0

\* Several servers are on an address when there are several directives for it.
LEMMA SeveralServers ==
    ASSUME NEW q \in Seq(Nat), \A x, y \in DOMAIN q : x < y => q[x] < q[y],
           NEW D, ToSet(q) = D, IsFiniteSet(D)
    PROVE  Len(q) > 1 <=> Cardinality(D) > 1
<1> DEFINE N == Len(q)
<1>1. N \in Nat /\ DOMAIN q = 1 .. N /\ \A x \in 1 .. N : q[x] \in Nat
  OBVIOUS
<1>2. D = {q[x] : x \in 1 .. N}
  BY <1>1 DEF ToSet
<1>2a. \A x, y \in 1 .. N : x < y => q[x] < q[y]
  BY <1>1
<1> HIDE DEF N
<1>3. Cardinality(D) \in Nat
  BY FS_CardinalityType
<1>4. CASE N = 0
  <2>1. 1 .. N = {}
    BY <1>4
  <2>1a. D = {}
    BY <1>2, <2>1
  <2>2. Cardinality(D) = 0
    BY <2>1a, FS_EmptySet
  <2> QED BY <1>4, <2>2 DEF N
<1>5. CASE N = 1
  <2>1. 1 .. N = {1}
    BY <1>5
  <2>1a. D = {q[1]}
    BY <1>2, <2>1
  <2>2. Cardinality(D) = 1
    BY <2>1a, FS_Singleton
  <2> QED BY <1>5, <2>2 DEF N
<1>6. CASE N > 1
  <2>1. 1 \in 1 .. N /\ 2 \in 1 .. N
    BY <1>1, <1>6
  <2>2. q[1] \in D /\ q[2] \in D /\ q[1] # q[2]
    BY <1>1, <1>2, <1>2a, <2>1
  <2>3. Cardinality(D) # 0
    BY <2>2, FS_EmptySet
  <2>4. Cardinality(D) # 1
    BY <2>2, FS_Singleton
  <2> QED BY <1>3, <1>6, <2>3, <2>4 DEF N
<1> QED BY <1>1, <1>4, <1>5, <1>6

\* pgrest_http_server_names and pgrest_http_add_addrs: what a connection is told of
\* an entry matches the directives for it.
LEMMA NamesMatch ==
    ASSUME NEW L, NEW a \in AddrSet, NEW D, D \subseteq Nat, IsFiniteSet(D), Describes(L, a, D)
    PROVE  /\ ServerNames(a) \in AddrSet
           /\ ServerNames(a).ip = a.ip /\ ServerNames(a).bind = a.bind
           /\ Match(L, servers, D, AddrConf(ServerNames(a)))
<1> DEFINE q == a.servers
           N == Len(q)
           named(n) == {k \in DOMAIN q : n \in servers[q[k]]}
           last(n) == IF named(n) = {} THEN 0 ELSE q[Max(named(n))]
           h == IF N > 1 THEN [n \in Names |-> last(n)] ELSE a.hash
           b == ServerNames(a)
<1>1. /\ q \in Seq(Nat) /\ a.server \in Nat /\ a.http2 \in BOOLEAN /\ a.bind \in BOOLEAN
      /\ a.ip \in Ips \cup {AnyIp} /\ a.hash \in [Names -> Nat] /\ a.default \in BOOLEAN
  BY DEF AddrSet
<1>2. N \in Nat /\ DOMAIN q = 1 .. N /\ \A k \in 1 .. N : q[k] \in Nat
  BY <1>1
<1>3. /\ \A x, y \in 1 .. N : x < y => q[x] < q[y]
      /\ D = {q[x] : x \in 1 .. N}
      /\ a.hash = [n \in Names |-> 0]
  BY <1>2 DEF Describes, ToSet
<1>4. N > 1 <=> Cardinality(D) > 1
  <2>1. ToSet(q) = D /\ \A x, y \in DOMAIN q : x < y => q[x] < q[y]
    BY DEF Describes
  <2> QED BY <1>1, <2>1, SeveralServers
<1>5. b = [a EXCEPT !.hash = h]
  <2>1. CASE Len(a.servers) > 1
    <3>1. b = [a EXCEPT !.hash = [n \in Names |-> last(n)]]
      BY <2>1 DEF ServerNames
    <3> HIDE DEF b, last
    <3> QED BY <2>1, <3>1
  <2>2. CASE ~(Len(a.servers) > 1)
    <3>1. b = a
      BY <2>2 DEF ServerNames
    <3>2. h = a.hash
      <4> HIDE DEF last
      <4> QED BY <2>2
    <3>3. [a EXCEPT !.hash = a.hash] = a
      BY DEF AddrSet
    <3> QED BY <3>1, <3>2, <3>3
  <2> QED BY <2>1, <2>2
<1> HIDE DEF b, q, N
<1>6. ASSUME NEW n \in Names, N > 1, \E i \in D : n \in servers[i]
      PROVE  /\ last(n) \in D /\ n \in servers[last(n)]
             /\ \A i \in D : n \in servers[i] => i <= last(n)
  <2> DEFINE K == named(n)
  <2>1. K \subseteq 1 .. N /\ K \subseteq Nat /\ \A k \in K : k <= N
    BY <1>2
  <2>2. K # {}
    BY <1>2, <1>3, <1>6
  <2>3. last(n) = q[Max(K)]
    BY <2>2
  <2>3a. \A k \in 1 .. N : k \in K <=> n \in servers[q[k]]
    BY <1>2
  <2> HIDE DEF K, last
  <2>4. Max(K) \in K /\ \A k \in K : k <= Max(K)
    BY <1>2, <2>1, <2>2, MaxFacts
  <2>5. last(n) \in D /\ n \in servers[last(n)]
    BY <1>3, <2>1, <2>3, <2>3a, <2>4
  <2>6. ASSUME NEW i \in D, n \in servers[i] PROVE i <= last(n)
    <3>1. PICK k \in 1 .. N : q[k] = i
      BY <1>3
    <3>2. k <= Max(K) /\ Max(K) \in 1 .. N
      BY <2>1, <2>3a, <2>4, <2>6, <3>1
    <3>3. k = Max(K) \/ k < Max(K)
      BY <1>2, <3>2
    <3>4. q[k] \in Nat /\ q[Max(K)] \in Nat /\ (k < Max(K) => q[k] < q[Max(K)])
      BY <1>2, <1>3, <3>2
    <3> QED BY <2>3, <3>1, <3>3, <3>4
  <2> QED BY <2>5, <2>6
<1>7. ASSUME NEW n \in Names, ~(\E i \in D : n \in servers[i])
      PROVE  last(n) = 0
  <2>1. named(n) = {}
    BY <1>2, <1>3, <1>7
  <2> QED BY <2>1
<1>8. \A n \in Names : last(n) \in Nat
  <2> TAKE n \in Names
  <2>1. CASE named(n) = {}
    BY <2>1
  <2>2. CASE named(n) # {}
    <3> DEFINE K == named(n)
    <3>1. K \subseteq 1 .. N /\ K \subseteq Nat /\ \A k \in K : k <= N
      BY <1>2
    <3>2. last(n) = q[Max(K)] /\ K # {}
      BY <2>2
    <3> HIDE DEF K, last
    <3>3. Max(K) \in K
      BY <1>2, <3>1, <3>2, MaxFacts
    <3> QED BY <1>2, <3>1, <3>2, <3>3
  <2> QED BY <2>1, <2>2
<1> HIDE DEF last
<1>9. h \in [Names -> Nat]
  BY <1>1, <1>8
<1>10. \A n \in Names : IF Cardinality(D) > 1 /\ (\E i \in D : n \in servers[i])
                        THEN /\ h[n] \in D /\ n \in servers[h[n]]
                             /\ \A i \in D : n \in servers[i] => i <= h[n]
                        ELSE h[n] = 0
  <2> TAKE n \in Names
  <2>1. CASE N > 1
    <3>1. h[n] = last(n)
      BY <2>1
    <3> QED BY <1>4, <1>6, <1>7, <2>1, <3>1
  <2>2. CASE ~(N > 1)
    <3>1. h[n] = 0
      BY <1>3, <2>2
    <3> QED BY <1>4, <2>2, <3>1
  <2> QED BY <2>1, <2>2
<1> HIDE DEF h
<1>11. /\ b \in AddrSet /\ b.ip = a.ip /\ b.bind = a.bind /\ b.server = a.server
       /\ b.http2 = a.http2 /\ b.hash = h
  BY <1>1, <1>5, <1>9 DEF AddrSet
<1>12. /\ AddrConf(b) \in ConfSet /\ AddrConf(b).server = a.server
       /\ AddrConf(b).http2 = a.http2 /\ AddrConf(b).hash = h
  BY <1>11, AddrConfType DEF AddrConf
<1>13. Match(L, servers, D, AddrConf(b))
  BY <1>10, <1>12 DEF Match, Describes
<1> QED BY <1>11, <1>13 DEF b
-----------------------------------------------------------------------------
(* A port whose sockets are open.                                          *)

\* The directives that concern address ip of port p.
Meant(L, p, ip) ==
    IF Dirs(L, Len(L), p, ip) # {} THEN Dirs(L, Len(L), p, ip)
    ELSE Dirs(L, Len(L), p, AnyIp)

\* Sockets t serve a connection to address ip of port p as the directives L and the
\* server names V ask.
Serves(L, V, t, p, ip) ==
    IF Meant(L, p, ip) = {} THEN ReachedOf(t, p, ip) = {}
    ELSE \E k \in DOMAIN t :
            /\ ReachedOf(t, p, ip) = {k}
            /\ Match(L, V, Meant(L, p, ip), ConnInit(t[k].addrs, ip))

\* Port r has an entry for every address its directives name, and no other.
Grouped(L, r) ==
    /\ r \in PortSet
    /\ \A i, j \in DOMAIN r.addrs : r.addrs[i].ip = r.addrs[j].ip => i = j
    /\ \A j \in DOMAIN r.addrs :
          Describes(L, r.addrs[j], Dirs(L, Len(L), r.port, r.addrs[j].ip))
    /\ \A i \in 1 .. Len(L) : L[i].port = r.port =>
          \E j \in DOMAIN r.addrs : r.addrs[j].ip = L[i].ip

LEMMA DirsFinite ==
    ASSUME NEW L, NEW b \in Nat, NEW p, NEW x
    PROVE  Dirs(L, b, p, x) \subseteq Nat /\ IsFiniteSet(Dirs(L, b, p, x))
<1>1. Dirs(L, b, p, x) \subseteq 1 .. b /\ 1 .. b \subseteq Nat
  BY DEF Dirs
<1>2. 1 \in Int /\ b \in Int
  OBVIOUS
<1>3. IsFiniteSet(1 .. b)
  BY <1>2, FS_Interval
<1> QED BY <1>1, <1>3, FS_Subset

\* The addresses of a port as they are when its sockets are opened.
Final(r) == [j \in DOMAIN Sort(r.addrs) |-> ServerNames(Sort(r.addrs)[j])]

\* The sockets t serve the port r.
Ready(L, V, r, u, t) ==
    /\ u \in Seq(AddrSet) /\ t \in Seq(SocketSet)
    /\ \A k \in DOMAIN t : t[k].port = r.port
    /\ \A ip \in Ips : Serves(L, V, t, r.port, ip)

\* pgrest_http_optimize_servers opens such sockets.
LEMMA PortServed ==
    ASSUME NEW L, Len(L) \in Nat, NEW r, Grouped(L, r)
    PROVE  Ready(L, servers, r, Final(r), InitListener(r.port, Final(r)))
<1> DEFINE u == Final(r)
           t == InitListener(r.port, u)
<1> DEFINE s == Sort(r.addrs)
           n == Len(s)
           D(x) == Dirs(L, Len(L), r.port, x)
<1>1. r.addrs \in Seq(AddrSet) /\ r.port \in Ports
  BY DEF Grouped, PortSet
<1>2. Ordered(s) /\ ToSet(s) = ToSet(r.addrs)
  BY <1>1, SortOrdered DEF Grouped
<1> HIDE DEF s
<1>3. s \in Seq(AddrSet) /\ n \in Nat /\ DOMAIN s = 1 .. n /\ \A j \in 1 .. n : s[j] \in AddrSet
  BY <1>2, OrderedFacts
<1>4. \A j \in 1 .. n : Describes(L, s[j], D(s[j].ip))
  <2> TAKE j \in 1 .. n
  <2>1. s[j] \in ToSet(s)
    BY <1>3 DEF ToSet
  <2>2. PICK i \in DOMAIN r.addrs : r.addrs[i] = s[j]
    BY <1>2, <2>1 DEF ToSet
  <2>3. Describes(L, r.addrs[i], D(r.addrs[i].ip))
    BY DEF Grouped
  <2> QED BY <2>2, <2>3
<1>5. \A x : D(x) # {} => \E j \in 1 .. n : s[j].ip = x
  <2> TAKE x
  <2> SUFFICES ASSUME D(x) # {} PROVE \E j \in 1 .. n : s[j].ip = x
    OBVIOUS
  <2>1. PICK i \in 1 .. Len(L) : L[i].port = r.port /\ L[i].ip = x
    BY DEF Dirs
  <2>2. PICK m \in DOMAIN r.addrs : r.addrs[m].ip = x
    BY <2>1 DEF Grouped
  <2>3. r.addrs[m] \in ToSet(s)
    BY <1>2 DEF ToSet
  <2>4. PICK j \in 1 .. n : s[j] = r.addrs[m]
    BY <1>3, <2>3 DEF ToSet
  <2> QED BY <2>2, <2>4
<1>6. \A x : D(x) \subseteq Nat /\ IsFiniteSet(D(x))
  BY DirsFinite
<1> HIDE DEF D, n
<1>7. u = [j \in 1 .. n |-> ServerNames(s[j])]
  BY <1>3 DEF s, Final
<1> HIDE DEF u
<1>8. \A j \in 1 .. n : /\ u[j] \in AddrSet /\ u[j].ip = s[j].ip /\ u[j].bind = s[j].bind
                        /\ Match(L, servers, D(s[j].ip), AddrConf(u[j]))
  <2> TAKE j \in 1 .. n
  <2>1. s[j] \in AddrSet /\ D(s[j].ip) \subseteq Nat /\ IsFiniteSet(D(s[j].ip))
    BY <1>3, <1>6
  <2>2. Describes(L, s[j], D(s[j].ip))
    BY <1>4
  <2>3. u[j] = ServerNames(s[j])
    BY <1>7
  <2> QED BY <2>1, <2>2, <2>3, NamesMatch
<1>9. u \in Seq(AddrSet) /\ Len(u) = n /\ DOMAIN u = 1 .. n
  <2>1. u \in [1 .. n -> AddrSet]
    BY <1>7, <1>8
  <2>2. u \in Seq(AddrSet) /\ Len(u) = n
    BY <1>3, <2>1, IntervalSeq
  <2> QED BY <2>1, <2>2
<1>10. Ordered(u)
  <2>1. /\ \A i, j \in 1 .. n : s[i].ip = s[j].ip => i = j
        /\ \A i \in 1 .. n : s[i].ip = AnyIp => i = n
        /\ \A i, j \in 1 .. n : i < j /\ s[j].bind /\ s[j].ip # AnyIp => s[i].bind
    BY <1>2, OrderedFacts DEF n
  <2>1a. \A j \in DOMAIN u : j \in 1 .. n /\ u[j].ip = s[j].ip /\ u[j].bind = s[j].bind
    BY <1>8, <1>9
  <2>2. ASSUME NEW i \in DOMAIN u, NEW j \in DOMAIN u, u[i].ip = u[j].ip PROVE i = j
    <3>1. i \in 1 .. n /\ j \in 1 .. n
      BY <2>1a
    <3>2. s[i].ip = u[i].ip /\ s[j].ip = u[j].ip
      BY <2>1a
    <3>3. s[i].ip = s[j].ip
      BY <2>2, <3>2
    <3> QED BY <2>1, <3>1, <3>3
  <2>3. \A i \in DOMAIN u : u[i].ip = AnyIp => i = Len(u)
    BY <1>9, <2>1, <2>1a
  <2>4. ASSUME NEW i \in DOMAIN u, NEW j \in DOMAIN u, i < j, u[j].bind, u[j].ip # AnyIp
        PROVE  u[i].bind
    BY <2>1, <2>1a, <2>4, Zenon
  <2> QED BY <1>9, <2>2, <2>3, <2>4 DEF Ordered
<1> HIDE DEF t
<1>11. ASSUME NEW ip \in Ips
       PROVE  Serves(L, servers, t, r.port, ip)
  <2>1. /\ \A i \in 1 .. n : Entry(u, ip, i) =>
              \E k \in DOMAIN t : /\ ReachedOf(t, r.port, ip) = {k}
                                  /\ ConnInit(t[k].addrs, ip) = AddrConf(u[i])
        /\ (\A i \in 1 .. n : ~Entry(u, ip, i)) => ReachedOf(t, r.port, ip) = {}
    <3>1. Reaches(t, r.port, u, ip)
      BY <1>1, <1>10, PortReaches, Zenon DEF t
    <3> QED BY <1>9, <3>1 DEF Reaches
  <2>2. Meant(L, r.port, ip) = IF D(ip) # {} THEN D(ip) ELSE D(AnyIp)
    BY DEF Meant, D
  <2>3. \A j \in 1 .. n : D(s[j].ip) # {}
    BY <1>4 DEF Describes
  <2>4. CASE \E i \in 1 .. n : s[i].ip = ip
    <3>1. PICK i \in 1 .. n : s[i].ip = ip
      BY <2>4
    <3>2. Meant(L, r.port, ip) = D(ip) /\ D(ip) # {}
      BY <2>2, <2>3, <3>1
    <3>3. Entry(u, ip, i)
      BY <1>8, <3>1 DEF Entry
    <3>4. Match(L, servers, D(ip), AddrConf(u[i]))
      BY <1>8, <3>1
    <3> QED BY <2>1, <3>2, <3>3, <3>4 DEF Serves
  <2>5. CASE (\A j \in 1 .. n : s[j].ip # ip) /\ \E i \in 1 .. n : s[i].ip = AnyIp
    <3>1. PICK i \in 1 .. n : s[i].ip = AnyIp
      BY <2>5
    <3>2. Meant(L, r.port, ip) = D(AnyIp) /\ D(AnyIp) # {}
      BY <1>5, <2>2, <2>3, <2>5, <3>1
    <3>3. Entry(u, ip, i)
      BY <1>8, <1>9, <2>5, <3>1 DEF Entry
    <3>4. Match(L, servers, D(AnyIp), AddrConf(u[i]))
      BY <1>8, <3>1
    <3> QED BY <2>1, <3>2, <3>3, <3>4 DEF Serves
  <2>6. CASE \A j \in 1 .. n : s[j].ip # ip /\ s[j].ip # AnyIp
    <3>1. Meant(L, r.port, ip) = {}
      BY <1>5, <2>2, <2>6
    <3>2. \A i \in 1 .. n : ~Entry(u, ip, i)
      BY <1>8, <2>6 DEF Entry
    <3> QED BY <2>1, <3>1, <3>2 DEF Serves
  <2> QED BY <2>4, <2>5, <2>6
<1>12. t \in Seq(SocketSet) /\ \A k \in DOMAIN t : t[k].port = r.port
  <2>1. /\ t \in Seq(SocketSet)
        /\ \A k \in DOMAIN t : \E j \in (1 .. Len(u)) \ Covered(u) : t[k] = Sock(r.port, u, j)
    <3>1. Opens(t, r.port, u, (1 .. Len(u)) \ Covered(u))
      BY <1>1, <1>10, ListenerOpens, Zenon DEF t
    <3> QED BY <3>1 DEF Opens
  <2>2. \A j \in 1 .. Len(u) : Sock(r.port, u, j).port = r.port
    BY <1>1, <1>10, SockTold
  <2> QED BY <2>1, <2>2
<1>13. Ready(L, servers, r, u, t)
  BY <1>9, <1>11, <1>12 DEF Ready
<1> QED BY <1>13 DEF u, t

\* The sockets of other ports do not matter.
LEMMA ServesConcat ==
    ASSUME NEW L, NEW V, NEW t \in Seq(SocketSet), NEW u \in Seq(SocketSet), NEW p, NEW ip
    PROVE  /\ Serves(L, V, t, p, ip) /\ (\A k \in DOMAIN u : u[k].port # p) =>
                 Serves(L, V, t \o u, p, ip)
           /\ Serves(L, V, u, p, ip) /\ (\A k \in DOMAIN t : t[k].port # p) =>
                 Serves(L, V, t \o u, p, ip)
<1> DEFINE m == Len(t)
           n == Len(u)
           w == t \o u
<1>1. m \in Nat /\ n \in Nat /\ DOMAIN t = 1 .. m /\ DOMAIN u = 1 .. n
  OBVIOUS
<1>2. /\ DOMAIN w = 1 .. m + n
      /\ \A k \in 1 .. m : w[k] = t[k]
      /\ \A k \in 1 .. n : w[m + k] = u[k]
  OBVIOUS
<1> HIDE DEF w, m, n
<1>3. \A k \in 1 .. m : k \in 1 .. m + n
  BY <1>1
<1>4. \A k \in 1 .. n : m + k \in 1 .. m + n /\ m + k \notin 1 .. m
  BY <1>1
<1>5. \A k \in 1 .. m + n : k \in 1 .. m \/ \E j \in 1 .. n : k = m + j
  <2> TAKE k \in 1 .. m + n
  <2>1. k \in 1 .. m \/ (k - m \in 1 .. n /\ k = m + (k - m))
    BY <1>1
  <2> QED BY <2>1
<1>6. ASSUME Serves(L, V, t, p, ip), \A k \in DOMAIN u : u[k].port # p
      PROVE  Serves(L, V, w, p, ip)
  <2>1. ASSUME NEW x PROVE SocketsAt(w, p, x) = SocketsAt(t, p, x)
    <3>1. \A k \in 1 .. n : w[m + k].port # p
      BY <1>1, <1>2, <1>6
    <3>2. \A k \in DOMAIN w : w[k].port = p => k \in 1 .. m
      BY <1>2, <1>5, <3>1
    <3>3. \A k \in DOMAIN w : k \in 1 .. m => k \in DOMAIN t /\ w[k] = t[k]
      BY <1>1, <1>2
    <3>4. \A k \in DOMAIN t : k \in DOMAIN w /\ w[k] = t[k]
      BY <1>1, <1>2, <1>3
    <3> QED BY <3>2, <3>3, <3>4 DEF SocketsAt
  <2>2. ReachedOf(w, p, ip) = ReachedOf(t, p, ip)
    BY <2>1 DEF ReachedOf
  <2>3. CASE Meant(L, p, ip) = {}
    BY <1>6, <2>2, <2>3 DEF Serves
  <2>4. CASE Meant(L, p, ip) # {}
    <3>1. PICK k \in DOMAIN t : /\ ReachedOf(t, p, ip) = {k}
                                /\ Match(L, V, Meant(L, p, ip), ConnInit(t[k].addrs, ip))
      BY <1>6, <2>4 DEF Serves
    <3>2. k \in DOMAIN w /\ w[k] = t[k]
      BY <1>1, <1>2, <1>3
    <3> QED BY <2>2, <2>4, <3>1, <3>2 DEF Serves
  <2> QED BY <2>3, <2>4
<1>7. ASSUME Serves(L, V, u, p, ip), \A k \in DOMAIN t : t[k].port # p
      PROVE  Serves(L, V, w, p, ip)
  <2>1. ASSUME NEW x PROVE SocketsAt(w, p, x) = {m + k : k \in SocketsAt(u, p, x)}
    <3>1. ASSUME NEW k \in SocketsAt(w, p, x) PROVE k \in {m + j : j \in SocketsAt(u, p, x)}
      <4>1. k \in 1 .. m + n /\ w[k].port = p /\ w[k].ip = x
        BY <1>2, <3>1 DEF SocketsAt
      <4>2. k \notin 1 .. m
        BY <1>1, <1>2, <1>7, <4>1
      <4>3. PICK j \in 1 .. n : k = m + j
        BY <1>5, <4>1, <4>2
      <4>4. j \in SocketsAt(u, p, x)
        BY <1>1, <1>2, <4>1, <4>3 DEF SocketsAt
      <4> QED BY <4>3, <4>4
    <3>2. ASSUME NEW j \in SocketsAt(u, p, x) PROVE m + j \in SocketsAt(w, p, x)
      <4>1. j \in 1 .. n /\ u[j].port = p /\ u[j].ip = x
        BY <1>1 DEF SocketsAt
      <4> QED BY <1>2, <1>4, <4>1 DEF SocketsAt
    <3> QED BY <3>1, <3>2
  <2>2. ReachedOf(w, p, ip) = {m + k : k \in ReachedOf(u, p, ip)}
    <3>1. SocketsAt(w, p, ip) = {} <=> SocketsAt(u, p, ip) = {}
      BY <2>1
    <3> QED BY <2>1, <3>1 DEF ReachedOf
  <2>3. CASE Meant(L, p, ip) = {}
    <3>1. ReachedOf(u, p, ip) = {}
      BY <1>7, <2>3 DEF Serves
    <3>2. ReachedOf(w, p, ip) = {}
      BY <2>2, <3>1
    <3> QED BY <2>3, <3>2 DEF Serves
  <2>4. CASE Meant(L, p, ip) # {}
    <3>1. PICK k \in DOMAIN u : /\ ReachedOf(u, p, ip) = {k}
                                /\ Match(L, V, Meant(L, p, ip), ConnInit(u[k].addrs, ip))
      BY <1>7, <2>4 DEF Serves
    <3>2. m + k \in DOMAIN w /\ w[m + k] = u[k]
      BY <1>1, <1>2, <1>4
    <3>3. ReachedOf(w, p, ip) = {m + k}
      BY <2>2, <3>1
    <3> QED BY <2>4, <3>1, <3>2, <3>3 DEF Serves
  <2> QED BY <2>3, <2>4
<1> QED BY <1>6, <1>7 DEF w

-----------------------------------------------------------------------------
(* The loops of start-up.                                                  *)

\* The first b - 1 ports of q have their sockets in t; the others are as the
\* directives L left them.
Progress(L, V, q, t, b) ==
    /\ Len(L) \in Nat
    /\ q \in Seq(PortSet)
    /\ b \in 1 .. Len(q) + 1
    /\ \A k, m \in DOMAIN q : q[k].port = q[m].port => k = m
    /\ \A i \in 1 .. Len(L) : \E k \in DOMAIN q : q[k].port = L[i].port
    /\ \A k \in b .. Len(q) : Grouped(L, q[k])
    /\ t \in Seq(SocketSet)
    /\ \A j \in DOMAIN t : \E k \in 1 .. b - 1 : t[j].port = q[k].port
    /\ \A k \in 1 .. b - 1 : \A ip \in Ips : Serves(L, V, t, q[k].port, ip)

\* pgrest_http_init, second loop: one more port.
LEMMA OptimizeProgress ==
    ASSUME OptimizePort, Progress(listeners, servers, ports, sockets, next)
    PROVE  Progress(listeners, servers, ports', sockets', next')
<1> DEFINE L == listeners
           V == servers
           q == ports
           b == next
           n == Len(ports)
           r == ports[next]
           u == Final(r)
           t == InitListener(r.port, u)
<1>1. /\ b <= n /\ sockets' = sockets \o t /\ next' = b + 1
      /\ ports' = [ports EXCEPT ![next].addrs = u]
  BY DEF OptimizePort, Final
<1>2. /\ Len(L) \in Nat /\ q \in Seq(PortSet) /\ n \in Nat /\ DOMAIN q = 1 .. n
      /\ b \in 1 .. n + 1 /\ sockets \in Seq(SocketSet)
  BY DEF Progress
<1>3. /\ \A k, m \in DOMAIN q : q[k].port = q[m].port => k = m
      /\ \A i \in 1 .. Len(L) : \E k \in DOMAIN q : q[k].port = L[i].port
      /\ \A k \in b .. n : Grouped(L, q[k])
      /\ \A j \in DOMAIN sockets : \E k \in 1 .. b - 1 : sockets[j].port = q[k].port
      /\ \A k \in 1 .. b - 1 : \A ip \in Ips : Serves(L, V, sockets, q[k].port, ip)
  BY DEF Progress
<1> HIDE DEF n
<1>4. b \in 1 .. n /\ b \in b .. n /\ b \in DOMAIN q
  BY <1>1, <1>2
<1>5. Grouped(L, r) /\ r \in PortSet
  BY <1>3, <1>4 DEF Grouped
<1>6. /\ u \in Seq(AddrSet) /\ t \in Seq(SocketSet) /\ \A k \in DOMAIN t : t[k].port = r.port
      /\ \A ip \in Ips : Serves(L, V, t, r.port, ip)
  <2>1. Len(L) \in Nat /\ Grouped(L, r)
    BY <1>2, <1>5
  <2>2. Ready(L, V, r, u, t)
    BY <2>1, PortServed
  <2> QED BY <2>2 DEF Ready
<1> HIDE DEF u, t
<1>7. [r EXCEPT !.addrs = u] \in PortSet /\ [r EXCEPT !.addrs = u].port = r.port
  BY <1>5, <1>6 DEF PortSet
<1>8. ports' = [ports EXCEPT ![next] = [r EXCEPT !.addrs = u]]
  BY <1>1
<1>9. /\ ports' \in Seq(PortSet) /\ Len(ports') = n /\ DOMAIN ports' = 1 .. n
      /\ \A k \in 1 .. n : ports'[k].port = q[k].port
      /\ \A k \in 1 .. n : k # b => ports'[k] = q[k]
  BY <1>2, <1>4, <1>7, <1>8 DEF n
<1>10. \A k \in 1 .. b : k \in 1 .. b - 1 \/ k = b
  BY <1>4
<1>11. \A k \in 1 .. b - 1 : k \in 1 .. n /\ k # b /\ k \in 1 .. b
  BY <1>2, <1>4
<1>12. sockets' \in Seq(SocketSet)
  BY <1>1, <1>2, <1>6
<1>13. ASSUME NEW j \in DOMAIN sockets' PROVE \E k \in 1 .. b : sockets'[j].port = ports'[k].port
  <2>1. \/ j \in DOMAIN sockets /\ sockets'[j] = sockets[j]
        \/ \E i \in DOMAIN t : sockets'[j] = t[i]
    <3>1. Len(sockets) \in Nat /\ Len(t) \in Nat /\ j \in 1 .. Len(sockets) + Len(t)
      BY <1>1, <1>2, <1>6
    <3>2. CASE j <= Len(sockets)
      BY <1>1, <1>2, <1>6, <3>1, <3>2
    <3>3. CASE j > Len(sockets)
      <4>1. j - Len(sockets) \in DOMAIN t /\ sockets'[j] = t[j - Len(sockets)]
        BY <1>1, <1>2, <1>6, <3>1, <3>3
      <4> QED BY <4>1
    <3> QED BY <3>1, <3>2, <3>3
  <2>2. CASE j \in DOMAIN sockets /\ sockets'[j] = sockets[j]
    BY <1>3, <1>9, <1>11, <2>2
  <2>3. CASE \E i \in DOMAIN t : sockets'[j] = t[i]
    <3>1. sockets'[j].port = r.port /\ b \in 1 .. b
      BY <1>4, <1>6, <2>3
    <3> QED BY <1>4, <1>9, <3>1
  <2> QED BY <2>1, <2>2, <2>3
<1>14. ASSUME NEW k \in 1 .. b, NEW ip \in Ips
       PROVE  Serves(L, V, sockets', ports'[k].port, ip)
  <2>1. CASE k \in 1 .. b - 1
    <3>1. q[k].port # r.port
      BY <1>2, <1>3, <1>4, <1>11, <2>1
    <3>2. \A i \in DOMAIN t : t[i].port # q[k].port
      BY <1>6, <3>1
    <3>3. Serves(L, V, sockets, q[k].port, ip)
      BY <1>3, <2>1
    <3>4. Serves(L, V, sockets \o t, q[k].port, ip)
      BY <1>2, <1>6, <3>2, <3>3, ServesConcat
    <3> QED BY <1>1, <1>9, <1>11, <2>1, <3>4
  <2>2. CASE k = b
    <3>1. \A j \in DOMAIN sockets : sockets[j].port # r.port
      BY <1>2, <1>3, <1>4, <1>11
    <3>2. Serves(L, V, t, r.port, ip)
      BY <1>6
    <3>3. Serves(L, V, sockets \o t, r.port, ip)
      BY <1>2, <1>6, <3>1, <3>2, ServesConcat
    <3> QED BY <1>1, <1>4, <1>9, <2>2, <3>3
  <2> QED BY <1>10, <2>1, <2>2
<1>15. \A k \in b + 1 .. n : Grouped(L, ports'[k])
  <2>1. \A k \in b + 1 .. n : k \in b .. n /\ k \in 1 .. n /\ k # b
    BY <1>2, <1>4
  <2> QED BY <1>3, <1>9, <2>1
<1>16. b + 1 \in 1 .. n + 1 /\ (b + 1) - 1 = b
  BY <1>2, <1>4
<1>17. \A k, m \in DOMAIN ports' : ports'[k].port = ports'[m].port => k = m
  <2> TAKE k, m \in DOMAIN ports'
  <2>1. k \in DOMAIN q /\ m \in DOMAIN q /\ ports'[k].port = q[k].port /\ ports'[m].port = q[m].port
    BY <1>2, <1>9
  <2> QED BY <1>3, <2>1
<1>18. \A i \in 1 .. Len(L) : \E k \in DOMAIN ports' : ports'[k].port = L[i].port
  <2> TAKE i \in 1 .. Len(L)
  <2>1. PICK k \in DOMAIN q : q[k].port = L[i].port
    BY <1>3
  <2>2. k \in DOMAIN ports' /\ ports'[k].port = q[k].port
    BY <1>2, <1>9
  <2> QED BY <2>1, <2>2
<1> QED BY <1>1, <1>2, <1>9, <1>12, <1>13, <1>14, <1>15, <1>16, <1>17, <1>18 DEF Progress

\* In the first loop: an entry describes the directives seen so far.
EntriesDescribed ==
    \A k \in DOMAIN ports : \A j \in DOMAIN ports[k].addrs :
       Describes(listeners, ports[k].addrs[j],
                 Dirs(listeners, next - 1, ports[k].port, ports[k].addrs[j].ip))

\* pgrest_http_init, first loop: one more directive.
LEMMA TurnDescribes ==
    ASSUME ConfInv, EntriesDescribed, Turn
    PROVE  EntriesDescribed'
<1> DEFINE L == listeners
           D(p, x) == Dirs(L, next - 1, p, x)
           E(p, x) == Dirs(L, next, p, x)
<1>1. /\ Adding /\ next' = next + 1 /\ listeners' = listeners
      /\ \A k \in DOMAIN ports' : \A j \in DOMAIN ports'[k].addrs :
            \/ ~Mine(k, j) /\ Kept(k, j) /\ Same(k, j)
            \/ Mine(k, j) /\ (Joined(k, j) \/ Opened(k, j))
  BY DEF Turn
<1>2. /\ next \in 1 .. Len(L) /\ Len(L) \in Nat /\ Listener \in ListenSet /\ Listener = L[next]
      /\ Entered /\ ports \in Seq(PortSet)
  BY <1>1, ListenerType DEF AddInv
<1>3. next \in Nat /\ next - 1 \in Nat /\ next' - 1 = next
  BY <1>1, <1>2
<1>4. \A i : i \in 1 .. next <=> i \in 1 .. next - 1 \/ i = next
  BY <1>2
<1>5. ASSUME NEW p, NEW x
      PROVE  /\ D(p, x) \subseteq Nat /\ \A i \in D(p, x) : i < next
             /\ L[next].port = p /\ L[next].ip = x => E(p, x) = D(p, x) \cup {next}
             /\ ~(L[next].port = p /\ L[next].ip = x) => E(p, x) = D(p, x)
  <2>1. \A i \in 1 .. next - 1 : i \in Nat /\ i < next
    BY <1>3
  <2> QED BY <1>4, <2>1 DEF Dirs
<1> SUFFICES ASSUME NEW k \in DOMAIN ports', NEW j \in DOMAIN ports'[k].addrs
             PROVE  Describes(L, ports'[k].addrs[j],
                              E(ports'[k].port, ports'[k].addrs[j].ip))
  BY <1>1, <1>3, Zenon DEF EntriesDescribed
<1> DEFINE p == ports'[k].port
           x == ports'[k].addrs[j].ip
           a == ports[k].addrs[j]
<1>6. Mine(k, j) <=> L[next].port = p /\ L[next].ip = x
  BY <1>2 DEF Mine
<1>7. ASSUME Kept(k, j) PROVE Describes(L, a, D(p, x)) /\ a \in AddrSet
  <2>1. k \in DOMAIN ports /\ j \in DOMAIN ports[k].addrs /\ p = ports[k].port /\ x = a.ip
    BY <1>7 DEF Kept
  <2>2. Describes(L, a, D(ports[k].port, a.ip))
    BY <2>1, Zenon DEF EntriesDescribed
  <2>3. a \in AddrSet
    BY <1>2, <2>1, EntryTypes
  <2> HIDE DEF p, x, a, D
  <2> QED BY <2>1, <2>2, <2>3
<1>8. CASE ~Mine(k, j) /\ Kept(k, j) /\ Same(k, j)
  <2>1. E(p, x) = D(p, x) /\ ports'[k].addrs[j] = a
    BY <1>5, <1>6, <1>8 DEF Same
  <2> HIDE DEF E, D, p, x, a
  <2> QED BY <1>7, <1>8, <2>1, Zenon DEF p, x
<1>9. CASE Mine(k, j) /\ Joined(k, j)
  <2>1. ports'[k].addrs[j] = Merge(next, a, L[next]) /\ Kept(k, j)
    BY <1>2, <1>9 DEF Joined
  <2>2. E(p, x) = D(p, x) \cup {next} /\ D(p, x) \subseteq Nat /\ \A i \in D(p, x) : i < next
    BY <1>5, <1>6, <1>9
  <2>3. Describes(L, a, D(p, x)) /\ a \in AddrSet /\ next \in Nat /\ L[next] \in ListenSet
    BY <1>2, <1>3, <1>7, <2>1
  <2> HIDE DEF E, D, p, x, a
  <2>4. Describes(L, Merge(next, a, L[next]), D(p, x) \cup {next})
    BY <2>2, <2>3, MergeDescribed
  <2> QED BY <2>1, <2>2, <2>4, Zenon DEF p, x
<1>10. CASE Mine(k, j) /\ Opened(k, j)
  <2>1. ports'[k].addrs[j] = NewAddress(next, L[next])
    BY <1>2, <1>10 DEF Opened
  <2>2. D(p, x) = {}
    <3> SUFFICES ASSUME NEW i \in D(p, x) PROVE FALSE
      OBVIOUS
    <3>1. i \in Before /\ L[i].port = Listener.port /\ L[i].ip = Listener.ip
      BY <1>10 DEF Dirs, Before, Mine
    <3>2. PICK m \in DOMAIN ports : \E n \in DOMAIN ports[m].addrs : At(i, m, n)
      BY <1>2, <3>1 DEF Entered
    <3>3. PICK n \in DOMAIN ports[m].addrs : At(i, m, n)
      BY <3>2
    <3> QED BY <1>10, <3>1, <3>3 DEF At, Opened
  <2>3. E(p, x) = {next}
    BY <1>5, <1>6, <1>10, <2>2
  <2>4. Describes(L, NewAddress(next, L[next]), {next})
    BY <1>2, <1>3, NewDescribed
  <2> HIDE DEF E, D, p, x
  <2> QED BY <2>1, <2>3, <2>4, Zenon DEF p, x
<1> QED BY <1>1, <1>8, <1>9, <1>10

\* Between the loops.
LEMMA AddEndProgress ==
    ASSUME ConfInv, EntriesDescribed, AddEnd, sockets = <<>>
    PROVE  Progress(listeners, servers, ports, <<>>, 1)
<1> DEFINE L == listeners
<1>1. phase = "add" /\ next > Len(L)
  BY DEF AddEnd
<1>2. /\ next \in 1 .. Len(L) + 1 /\ ports \in Seq(PortSet) /\ Entered /\ OneEntry
      /\ L \in Seq(ListenSet)
  BY <1>1 DEF ConfInv, AddInv
<1>3. Len(L) \in Nat /\ next - 1 = Len(L) /\ Before = 1 .. Len(L)
  BY <1>1, <1>2 DEF Before
<1>4. ASSUME NEW k \in DOMAIN ports PROVE Grouped(L, ports[k])
  <2>1. ports[k] \in PortSet
    BY <1>2
  <2>2. \A i, j \in DOMAIN ports[k].addrs : ports[k].addrs[i].ip = ports[k].addrs[j].ip => i = j
    BY <1>2 DEF OneEntry
  <2>3. \A j \in DOMAIN ports[k].addrs :
           Describes(L, ports[k].addrs[j], Dirs(L, Len(L), ports[k].port, ports[k].addrs[j].ip))
    BY <1>3, Zenon DEF EntriesDescribed
  <2>4. ASSUME NEW i \in 1 .. Len(L), L[i].port = ports[k].port
        PROVE  \E j \in DOMAIN ports[k].addrs : ports[k].addrs[j].ip = L[i].ip
    <3>1. PICK m \in DOMAIN ports : \E j \in DOMAIN ports[m].addrs : At(i, m, j)
      BY <1>2, <1>3 DEF Entered
    <3>2. PICK j \in DOMAIN ports[m].addrs : At(i, m, j)
      BY <3>1
    <3>3. m = k
      BY <1>2, <2>4, <3>2 DEF At, OneEntry
    <3> QED BY <3>2, <3>3 DEF At
  <2> QED BY <2>1, <2>2, <2>3, <2>4, Zenon DEF Grouped
<1>5. \A i \in 1 .. Len(L) : \E k \in DOMAIN ports : ports[k].port = L[i].port
  BY <1>2, <1>3 DEF Entered, At
<1>6. 1 \in 1 .. Len(ports) + 1 /\ DOMAIN ports = 1 .. Len(ports)
  BY <1>2
<1>7. <<>> \in Seq(SocketSet) /\ DOMAIN <<>> = {} /\ 1 .. 1 - 1 = {}
  OBVIOUS
<1>8. \A k, m \in DOMAIN ports : ports[k].port = ports[m].port => k = m
  BY <1>2 DEF OneEntry
<1> QED BY <1>2, <1>3, <1>4, <1>5, <1>6, <1>7, <1>8 DEF Progress

\* After them: every port and address, those of no directive too.
AllServed ==
    \A p \in Ports, ip \in Ips : Serves(listeners, servers, sockets, p, ip)

LEMMA OptimizeEndServed ==
    ASSUME OptimizeEnd, Progress(listeners, servers, ports, sockets, next)
    PROVE  AllServed
<1> DEFINE L == listeners
           n == Len(ports)
<1>1. /\ n \in Nat /\ DOMAIN ports = 1 .. n /\ next \in 1 .. n + 1
      /\ \A i \in 1 .. Len(L) : \E k \in DOMAIN ports : ports[k].port = L[i].port
      /\ \A j \in DOMAIN sockets : \E k \in 1 .. next - 1 : sockets[j].port = ports[k].port
      /\ \A k \in 1 .. next - 1 : \A ip \in Ips : Serves(L, servers, sockets, ports[k].port, ip)
  BY DEF Progress
<1>2. next > n
  BY DEF OptimizeEnd
<1> HIDE DEF n
<1>3. 1 .. next - 1 = DOMAIN ports
  BY <1>1, <1>2
<1> SUFFICES ASSUME NEW p \in Ports, NEW ip \in Ips PROVE Serves(L, servers, sockets, p, ip)
  BY DEF AllServed
<1>4. CASE \E k \in DOMAIN ports : ports[k].port = p
  BY <1>1, <1>3, <1>4
<1>5. CASE \A k \in DOMAIN ports : ports[k].port # p
  <2>1. \A x : Dirs(L, Len(L), p, x) = {}
    BY <1>1, <1>5 DEF Dirs
  <2>2. \A x : SocketsAt(sockets, p, x) = {}
    BY <1>1, <1>3, <1>5 DEF SocketsAt
  <2> QED BY <2>1, <2>2 DEF Serves, Meant, ReachedOf
<1> QED BY <1>4, <1>5

ServedInv ==
    /\ ConfInv
    /\ phase \in {"parse", "add"} => sockets = <<>>
    /\ phase = "add" => EntriesDescribed
    /\ phase = "optimize" => Progress(listeners, servers, ports, sockets, next)
    /\ phase = "serving" => AllServed

LEMMA TurnServed ==
    ASSUME ServedInv, Turn, sockets' = sockets
    PROVE  ServedInv'
<1>1. phase = "add" /\ phase' = "add"
  BY DEF Turn, Adding
<1>2. ConfInv' /\ EntriesDescribed'
  BY <1>1, TurnKeeps, TurnDescribes DEF ServedInv
<1> QED BY <1>1, <1>2 DEF ServedInv

LEMMA ParsedServed ==
    ASSUME ServedInv, ParseEnd
    PROVE  ServedInv'
<1>1. /\ phase = "parse" /\ ports' = ports /\ sockets' = sockets
      /\ phase' \in {"add", "refused"}
  BY DEF ParseEnd
<1>2. ports' = <<>> /\ sockets' = <<>> /\ ConfInv'
  BY <1>1, ParseEndKeeps DEF ServedInv, ConfInv
<1>3. EntriesDescribed'
  BY <1>2 DEF EntriesDescribed
<1> QED BY <1>1, <1>2, <1>3 DEF ServedInv

\* A connection is served as the directives ask, in the form in which the loops
\* establish it.
THEOREM ConfServedInvariant == Spec => []ServedInv
<1>1. Init => ServedInv
  BY ConfInitially DEF Init, ServedInv
<1>2. ServedInv /\ [Next]_vars => ServedInv'
  <2> SUFFICES ASSUME ServedInv, [Next]_vars PROVE ServedInv'
    OBVIOUS
  <2>0. ConfInv
    BY DEF ServedInv
  <2>1. CASE CreateServer
    BY <2>0, <2>1, CreateServerKeeps DEF ServedInv, CreateServer
  <2>2. CASE CreateListener
    BY <2>0, <2>2, CreateListenerKeeps DEF ServedInv, CreateListener
  <2>3. CASE ParseEnd
    BY <2>3, ParsedServed
  <2>4. CASE AddPort
    <3>1. sockets' = sockets
      BY <2>4 DEF AddPort
    <3> QED BY <2>0, <2>4, <3>1, PortTurn, TurnServed
  <2>5. CASE AddAddress
    <3>1. sockets' = sockets
      BY <2>5 DEF AddAddress
    <3> QED BY <2>0, <2>5, <3>1, AddressTurn, TurnServed
  <2>6. CASE AddServer
    <3>1. sockets' = sockets
      BY <2>6 DEF AddServer
    <3> QED BY <2>0, <2>6, <3>1, ServerTurn, TurnServed
  <2>7. CASE AddFails
    <3>1. phase' = "failed" /\ ConfInv'
      BY <2>0, <2>7, AddFailsKeeps DEF AddFails
    <3> QED BY <3>1 DEF ServedInv
  <2>8. CASE AddEnd
    <3>1. /\ phase = "add" /\ phase' = "optimize" /\ listeners' = listeners
          /\ servers' = servers /\ ports' = ports /\ sockets' = sockets /\ next' = 1
      BY <2>8 DEF AddEnd
    <3>2. sockets = <<>> /\ EntriesDescribed
      BY <3>1 DEF ServedInv
    <3>3. Progress(listeners, servers, ports, <<>>, 1)
      BY <2>0, <2>8, <3>2, AddEndProgress
    <3>4. Progress(listeners', servers', ports', sockets', next')
      BY <3>1, <3>2, <3>3
    <3>5. ConfInv'
      BY <2>0, <2>8, AddEndKeeps
    <3> QED BY <3>1, <3>4, <3>5 DEF ServedInv
  <2>9. CASE OptimizePort
    <3>1. /\ phase = "optimize" /\ phase' = phase /\ listeners' = listeners
          /\ servers' = servers
      BY <2>9 DEF OptimizePort
    <3>2. Progress(listeners', servers', ports', sockets', next')
      BY <2>9, <3>1, OptimizeProgress DEF ServedInv
    <3>3. ConfInv'
      BY <2>0, <2>9, OptimizeKeeps
    <3> QED BY <3>1, <3>2, <3>3 DEF ServedInv
  <2>10. CASE OptimizeEnd
    <3>1. /\ phase = "optimize" /\ phase' = "serving" /\ listeners' = listeners
          /\ servers' = servers /\ sockets' = sockets
      BY <2>10 DEF OptimizeEnd
    <3>2. AllServed
      BY <2>10, <3>1, OptimizeEndServed DEF ServedInv
    <3>3. AllServed'
      BY <3>1, <3>2 DEF AllServed
    <3>4. ConfInv'
      BY <2>0, <2>10, OptimizeKeeps
    <3> QED BY <3>1, <3>3, <3>4 DEF ServedInv
  <2>11. CASE UNCHANGED vars
    <3>1. /\ phase' = phase /\ listeners' = listeners /\ servers' = servers
          /\ next' = next /\ ports' = ports /\ sockets' = sockets
      BY <2>11 DEF vars
    <3>2. ConfInv'
      BY <2>0, <3>1 DEF ConfInv, RefusedIffContradiction, Clashes, Clash, AddInv, Entered,
                        OneEntry, BitsExact, ServersSeen, NoneYet, At, Before
    <3>3. EntriesDescribed' <=> EntriesDescribed
      BY <3>1 DEF EntriesDescribed
    <3>4. AllServed' <=> AllServed
      BY <3>1 DEF AllServed
    <3> QED BY <3>1, <3>2, <3>3, <3>4 DEF ServedInv
  <2> QED BY <2>1, <2>2, <2>3, <2>4, <2>5, <2>6, <2>7, <2>8, <2>9, <2>10, <2>11 DEF Next
<1> QED BY <1>1, <1>2, PTL DEF Spec
-----------------------------------------------------------------------------
(* What the file asks for.                                                 *)

\* Server i owns directive i: pgrest_http_init takes it so, and
\* pgrest_conf_values_check compares the numbers only.
OwnsItsListen == \A i \in DOMAIN listeners : listeners[i].owner = i

\* The least of the defaults, or else of all, is the one server that matches.
LEMMA MatchAsked ==
    ASSUME ConfInv, ~Clashes, OwnsItsListen, NEW p, NEW x,
           NEW D, D = Dirs(listeners, Len(listeners), p, x), D # {},
           NEW told, Match(listeners, servers, D, told)
    PROVE  /\ told.server = Asked(D).server /\ told.http2 = Asked(D).http2
           /\ told.hash = Asked(D).hash
<1> DEFINE L == listeners
           defaults == {i \in D : L[i].default}
           F == IF defaults # {} THEN defaults ELSE D
           named(n) == {i \in D : n \in servers[L[i].owner]}
           several(n) == Cardinality(D) > 1 /\ named(n) # {}
           h == [n \in Names |-> IF several(n) THEN L[Max(named(n))].owner ELSE 0]
<1>1. L \in Seq(ListenSet) /\ Len(L) \in Nat /\ DOMAIN L = 1 .. Len(L)
  BY DEF ConfInv
<1>2. D \subseteq 1 .. Len(L) /\ D \subseteq Nat /\ \A i \in D : i <= Len(L)
  <2>1. D \subseteq 1 .. Len(L)
    BY DEF Dirs
  <2> QED BY <1>1, <2>1
<1>3. \A i \in D : L[i].owner = i /\ L[i].port = p /\ L[i].ip = x
  BY <1>1 DEF OwnsItsListen, Dirs
<1>4. /\ Asked(D).server = L[Min(F)].owner
      /\ Asked(D).http2 = \E i \in D : L[i].http2
      /\ Asked(D).hash = h
  BY DEF Asked
<1> HIDE DEF h
<1>5. /\ told \in ConfSet /\ told.server \in D
      /\ (\E i \in D : L[i].default) => L[told.server].default
      /\ (\A i \in D : ~L[i].default) => \A i \in D : told.server <= i
      /\ told.http2 <=> \E i \in D : L[i].http2
      /\ \A n \in Names :
            IF Cardinality(D) > 1 /\ (\E i \in D : n \in servers[i])
            THEN /\ told.hash[n] \in D /\ n \in servers[told.hash[n]]
                 /\ \A i \in D : n \in servers[i] => i <= told.hash[n]
            ELSE told.hash[n] = 0
  BY DEF Match
<1>6. F \subseteq D /\ F \subseteq Nat /\ F # {}
  BY <1>2
<1>7. told.server \in F /\ \A i \in F : told.server <= i
  <2>1. CASE defaults # {}
    <3>1. told.server \in defaults
      BY <1>5, <2>1
    <3>2. ASSUME NEW i \in defaults PROVE i = told.server
      <4>0. i \in D /\ told.server \in D /\ L[i].default /\ L[told.server].default
        BY <3>1
      <4>1. i \in 1 .. Len(L) /\ told.server \in 1 .. Len(L)
        BY <1>2, <4>0
      <4>2. Clash(i, told.server) /\ Clash(told.server, i)
        BY <1>3, <4>0 DEF Clash
      <4>3. ~(i < told.server) /\ ~(told.server < i)
        BY <1>1, <4>1, <4>2 DEF Clashes
      <4> QED BY <4>1, <4>3
    <3>3. told.server \in Nat
      BY <1>2, <1>5
    <3> QED BY <2>1, <3>1, <3>2, <3>3
  <2>2. CASE defaults = {}
    BY <1>5, <2>2
  <2> QED BY <2>1, <2>2
<1>8. told.server = Asked(D).server
  <2>1. Min(F) \in F /\ \A i \in F : Min(F) <= i
    <3> HIDE DEF F
    <3> QED BY <1>6, MinFacts
  <2>2. Min(F) = told.server
    <3> HIDE DEF F
    <3>1. Min(F) \in Nat /\ told.server \in Nat
      BY <1>6, <1>7, <2>1
    <3>2. Min(F) <= told.server /\ told.server <= Min(F)
      BY <1>7, <2>1
    <3> QED BY <3>1, <3>2
  <2> QED BY <1>3, <1>4, <1>5, <2>2
<1>9. told.http2 = Asked(D).http2
  <2>1. told.http2 \in BOOLEAN
    BY <1>5 DEF ConfSet
  <2> QED BY <1>4, <1>5, <2>1
<1>10. ASSUME NEW n \in Names PROVE told.hash[n] = h[n]
  <2>1. named(n) = {i \in D : n \in servers[i]}
    BY <1>3
  <2>2. CASE several(n)
    <3> DEFINE K == named(n)
    <3>1. \E i \in D : n \in servers[i]
      BY <2>1, <2>2
    <3>2. told.hash[n] \in K /\ \A i \in K : i <= told.hash[n]
      BY <1>5, <2>1, <2>2, <3>1
    <3>3. K \subseteq Nat /\ K # {} /\ \A i \in K : i <= Len(L)
      BY <1>2, <2>2
    <3>4. h[n] = L[Max(K)].owner
      BY <2>2 DEF h
    <3>4a. \A i \in K : L[i].owner = i
      BY <1>3
    <3> HIDE DEF K
    <3>5. Max(K) \in K /\ \A i \in K : i <= Max(K)
      BY <1>1, <3>3, MaxFacts
    <3>6. Max(K) = told.hash[n]
      <4>1. Max(K) \in Nat /\ told.hash[n] \in Nat
        BY <3>2, <3>3, <3>5
      <4>2. Max(K) <= told.hash[n] /\ told.hash[n] <= Max(K)
        BY <3>2, <3>5
      <4> QED BY <4>1, <4>2
    <3> QED BY <3>4, <3>4a, <3>5, <3>6
  <2>3. CASE ~several(n)
    <3>1. told.hash[n] = 0
      BY <1>5, <2>1, <2>3
    <3>2. h[n] = 0
      BY <2>3 DEF h
    <3> QED BY <3>1, <3>2
  <2> QED BY <2>2, <2>3
<1>11. told.hash = h
  <2>1. told.hash \in [Names -> Nat]
    BY <1>5 DEF ConfSet
  <2>2. h = [n \in Names |-> h[n]]
    BY DEF h
  <2> QED BY <1>10, <2>1, <2>2
<1> QED BY <1>4, <1>8, <1>9, <1>11

LEMMA ServedAsAsked ==
    ASSUME ServedInv, OwnsItsListen
    PROVE  ServedAsConfigured
<1> SUFFICES ASSUME phase = "serving", NEW p \in Ports, NEW ip \in Ips
             PROVE  /\ Cardinality(Reached(p, ip)) = IF Directives(p, ip) = {} THEN 0 ELSE 1
                    /\ \A k \in Reached(p, ip) :
                          LET told  == ConnInit(sockets[k].addrs, ip)
                              asked == Asked(Directives(p, ip))
                          IN  /\ told.server = asked.server /\ told.http2 = asked.http2
                              /\ told.hash = asked.hash
  BY DEF ServedAsConfigured
<1> DEFINE D == Directives(p, ip)
           R == Reached(p, ip)
<1>1. ConfInv /\ ~Clashes /\ Serves(listeners, servers, sockets, p, ip)
  BY DEF ServedInv, ConfInv, RefusedIffContradiction, AllServed
<1>2. listeners \in Seq(ListenSet) /\ DOMAIN listeners = 1 .. Len(listeners)
  BY <1>1 DEF ConfInv
<1>3. D = Meant(listeners, p, ip)
  BY <1>2 DEF Directives, Meant, Dirs
<1>4. R = ReachedOf(sockets, p, ip)
  BY DEF Reached, ReachedOf, SocketsAt
<1>5. D # {} => \E x : D = Dirs(listeners, Len(listeners), p, x)
  BY <1>3 DEF Meant
<1> HIDE DEF D, R
<1>6. CASE D = {}
  <2>1. R = {}
    BY <1>1, <1>3, <1>4, <1>6 DEF Serves
  <2>2. Cardinality(R) = 0
    BY <2>1, FS_EmptySet
  <2> QED BY <1>6, <2>1, <2>2 DEF D, R
<1>7. CASE D # {}
  <2>1. PICK k \in DOMAIN sockets :
           R = {k} /\ Match(listeners, servers, D, ConnInit(sockets[k].addrs, ip))
    BY <1>1, <1>3, <1>4, <1>7 DEF Serves
  <2>2. PICK x : D = Dirs(listeners, Len(listeners), p, x)
    BY <1>5, <1>7
  <2> DEFINE told == ConnInit(sockets[k].addrs, ip)
  <2>3. Match(listeners, servers, D, told)
    BY <2>1
  <2> HIDE DEF told
  <2>4. /\ told.server = Asked(D).server /\ told.http2 = Asked(D).http2
        /\ told.hash = Asked(D).hash
    BY <1>1, <1>7, <2>2, <2>3, MatchAsked
  <2>5. Cardinality(R) = 1
    BY <2>1, FS_Singleton
  <2> QED BY <1>7, <2>1, <2>4, <2>5 DEF D, R, told
<1> QED BY <1>6, <1>7

\* Whatever the file: when each server has one listen directive of its own, a
\* connection to any address is handed to the server, the protocol and the names the
\* file asks for, and to no other address (pgrest_http_init, pgrest_http_conn_init).
THEOREM ConfServedWhenOwned == Spec => [](OwnsItsListen => ServedAsConfigured)
<1>1. ServedInv => (OwnsItsListen => ServedAsConfigured)
  BY ServedAsAsked
<1> QED BY <1>1, ConfServedInvariant, PTL

-----------------------------------------------------------------------------
(* With at most one directive for a server, that is what is left when the  *)
(* numbers of servers and of directives are equal.                         *)

\* The directives are in the order of their servers, and of different servers.
Spread ==
    /\ \A i \in DOMAIN listeners : listeners[i].owner \in i .. Len(servers)
    /\ \A i, j \in DOMAIN listeners :
          i < j => listeners[j].owner - listeners[i].owner >= j - i

OwnersInv ==
    /\ servers \in Seq(SUBSET Names)
    /\ listeners \in Seq(ListenSet)
    /\ phase = "parse" => Spread
    /\ phase \in {"add", "optimize", "serving"} => OwnsItsListen

LEMMA CreateListenerOwners ==
    ASSUME OwnersInv, CreateListener, MaxListens <= 1
    PROVE  OwnersInv'
<1> DEFINE n == Len(listeners)
           m == Len(servers)
<1>1. PICK l \in Listens(m) : listeners' = Append(listeners, l)
  BY DEF CreateListener
<1>2. /\ phase = "parse" /\ phase' = "parse" /\ servers' = servers /\ servers # <<>>
      /\ Cardinality({i \in DOMAIN listeners : listeners[i].owner = m}) < MaxListens
  BY DEF CreateListener
<1>3. /\ servers \in Seq(SUBSET Names) /\ listeners \in Seq(ListenSet)
      /\ n \in Nat /\ DOMAIN listeners = 1 .. n /\ m \in Nat /\ m # 0 /\ Spread
  BY <1>2 DEF OwnersInv
<1>4. l \in ListenSet /\ l.owner = m
  BY <1>3 DEF Listens, ListenSet
<1>5. /\ listeners' \in Seq(ListenSet) /\ DOMAIN listeners' = 1 .. n + 1
      /\ listeners'[n + 1] = l /\ \A i \in 1 .. n : listeners'[i] = listeners[i]
  BY <1>1, <1>3, <1>4
<1>6. \A i \in 1 .. n : listeners[i].owner \in i .. m
  BY <1>3 DEF Spread
<1>7. \A i, j \in 1 .. n : i < j => listeners[j].owner - listeners[i].owner >= j - i
  BY <1>3, Zenon DEF Spread
\* The server that is being read has no directive yet.
<1>8. \A i \in 1 .. n : listeners[i].owner # m
  <2> DEFINE S == {i \in DOMAIN listeners : listeners[i].owner = m}
  <2>1. S \subseteq 1 .. n
    BY <1>3
  <2> HIDE DEF S, n
  <2>2. 1 \in Int /\ n \in Int
    BY <1>3
  <2>3. IsFiniteSet(S)
    BY <2>1, <2>2, FS_Interval, FS_Subset
  <2>4. Cardinality(S) \in Nat
    BY <2>3, FS_CardinalityType
  <2>5. Cardinality(S) < MaxListens
    BY <1>2 DEF S
  <2>6. Cardinality(S) = 0
    BY <2>4, <2>5, ListenConfAssumption
  <2>7. S = {}
    BY <2>3, <2>6, FS_EmptySet
  <2> QED BY <1>3, <2>7 DEF S
<1> HIDE DEF n, m
<1>9. n + 1 <= m
  <2>1. CASE n = 0
    BY <1>3, <2>1
  <2>2. CASE n # 0
    <3>1. n \in 1 .. n
      BY <1>3, <2>2
    <3>2. listeners[n].owner \in n .. m /\ listeners[n].owner # m
      BY <1>6, <1>8, <3>1
    <3> QED BY <1>3, <3>2
  <2> QED BY <2>1, <2>2
<1>10. ASSUME NEW i \in 1 .. n PROVE m - listeners[i].owner >= (n + 1) - i
  <2>1. n \in 1 .. n /\ (i = n \/ i < n)
    BY <1>3
  <2>2. listeners[n].owner \in n .. m /\ listeners[n].owner # m /\ listeners[i].owner \in i .. m
    BY <1>6, <1>8, <2>1
  <2>3. listeners[n].owner + 1 <= m /\ listeners[n].owner \in Nat /\ listeners[i].owner \in Nat
    BY <1>3, <2>2
  <2>4. i < n => listeners[n].owner - listeners[i].owner >= n - i
    BY <1>7, <2>1
  <2> QED BY <1>3, <2>1, <2>3, <2>4
<1>11. \A i \in 1 .. n + 1 : i \in 1 .. n \/ i = n + 1
  BY <1>3
<1>12. ASSUME NEW i \in 1 .. n + 1 PROVE listeners'[i].owner \in i .. m
  <2>1. CASE i \in 1 .. n
    BY <1>5, <1>6, <2>1
  <2>2. CASE i = n + 1
    <3>1. listeners'[i].owner = m
      BY <1>4, <1>5, <2>2
    <3> QED BY <1>3, <1>9, <2>2, <3>1
  <2> QED BY <1>11, <2>1, <2>2
<1>13. ASSUME NEW i \in 1 .. n + 1, NEW j \in 1 .. n + 1, i < j
       PROVE  listeners'[j].owner - listeners'[i].owner >= j - i
  <2>1. i \in 1 .. n
    BY <1>3, <1>13
  <2>2. CASE j \in 1 .. n
    BY <1>5, <1>7, <1>13, <2>1, <2>2
  <2>3. CASE j = n + 1
    <3>1. listeners'[j].owner = m /\ listeners'[i].owner = listeners[i].owner
      BY <1>4, <1>5, <2>1, <2>3
    <3> QED BY <1>10, <2>1, <2>3, <3>1
  <2> QED BY <1>11, <2>2, <2>3
<1>14. Spread'
  BY <1>2, <1>5, <1>12, <1>13, Zenon DEF Spread, m
<1> QED BY <1>2, <1>3, <1>5, <1>14 DEF OwnersInv

LEMMA ParsedOwners ==
    ASSUME OwnersInv, ParseEnd
    PROVE  OwnersInv'
<1>1. /\ phase = "parse" /\ servers' = Defaulted[1] /\ listeners' = Defaulted[2]
      /\ phase' = IF Len(servers') = Len(listeners') THEN "add" ELSE "refused"
  BY DEF ParseEnd
<1>2. CASE servers = <<>>
  <2>1. servers' = <<{}>> /\ listeners' = <<PlainListener>>
    BY <1>1, <1>2 DEF Defaulted
  <2>2. PlainListener \in ListenSet /\ PlainListener.owner = 1
    BY ListenConfAssumption DEF PlainListener, ListenSet
  <2>3. \A l \in ListenSet : <<l>> \in Seq(ListenSet) /\ DOMAIN <<l>> = {1} /\ <<l>>[1] = l
    OBVIOUS
  <2>4. <<{}>> \in Seq(SUBSET Names)
    OBVIOUS
  <2>5. OwnsItsListen'
    BY <2>1, <2>2, <2>3, Zenon DEF OwnsItsListen
  <2>6. servers' \in Seq(SUBSET Names) /\ listeners' \in Seq(ListenSet)
    BY <2>1, <2>2, <2>3, <2>4, Zenon
  <2>7. phase' # "parse"
    BY <1>1
  <2> QED BY <2>5, <2>6, <2>7 DEF OwnersInv
<1>3. CASE servers # <<>>
  <2>1. servers' = servers /\ listeners' = listeners
    BY <1>1, <1>3 DEF Defaulted
  <2>2. /\ servers \in Seq(SUBSET Names) /\ listeners \in Seq(ListenSet) /\ Spread
    BY <1>1 DEF OwnersInv
  <2>3. ASSUME Len(servers) = Len(listeners) PROVE OwnsItsListen
    <3> DEFINE n == Len(listeners)
    <3>1. n \in Nat /\ DOMAIN listeners = 1 .. n
      BY <2>2
    <3>2. \A i \in 1 .. n : listeners[i].owner \in i .. n
      BY <2>2, <2>3, <3>1 DEF Spread
    <3>3. \A i, j \in 1 .. n : i < j => listeners[j].owner - listeners[i].owner >= j - i
      BY <2>2, <3>1, Zenon DEF Spread
    <3> HIDE DEF n
    <3>4. ASSUME NEW i \in 1 .. n PROVE listeners[i].owner = i
      <4>1. n \in 1 .. n /\ (i = n \/ i < n)
        BY <3>1
      <4>2. listeners[n].owner = n /\ listeners[i].owner \in Nat /\ listeners[i].owner >= i
        BY <3>1, <3>2, <4>1
      <4>3. i < n => listeners[n].owner - listeners[i].owner >= n - i
        BY <3>3, <4>1
      <4> QED BY <3>1, <4>1, <4>2, <4>3
    <3> QED BY <3>1, <3>4 DEF OwnsItsListen
  <2>4. phase' = "add" => OwnsItsListen'
    BY <1>1, <2>1, <2>3 DEF OwnsItsListen
  <2> QED BY <1>1, <2>1, <2>2, <2>4 DEF OwnersInv
<1> QED BY <1>2, <1>3

\* With at most one listen directive for a server, every file that is accepted is
\* served as it asks (pgrest_conf_values_check, pgrest_http_init).
THEOREM ConfServedAsConfigured ==
    ASSUME MaxListens <= 1
    PROVE  Spec => []ServedAsConfigured
<1>1. Init => OwnersInv
  BY DEF Init, OwnersInv, Spread
<1>2. OwnersInv /\ [Next]_vars => OwnersInv'
  <2> SUFFICES ASSUME OwnersInv, [Next]_vars PROVE OwnersInv'
    OBVIOUS
  <2>1. CASE CreateServer
    <3>1. PICK names \in SUBSET Names : servers' = Append(servers, names)
      BY <2>1 DEF CreateServer
    <3>2. phase = "parse" /\ phase' = "parse" /\ listeners' = listeners
      BY <2>1 DEF CreateServer
    <3>3. /\ servers \in Seq(SUBSET Names) /\ Spread
      BY <3>2 DEF OwnersInv
    <3>4. /\ servers' \in Seq(SUBSET Names) /\ Len(servers') = Len(servers) + 1
          /\ Len(servers) \in Nat
      BY <3>1, <3>3
    <3>5. DOMAIN listeners \subseteq Nat
      BY DEF OwnersInv
    <3>6. \A i \in Nat : i .. Len(servers) \subseteq i .. Len(servers')
      BY <3>4
    <3>7. Spread'
      BY <3>2, <3>3, <3>5, <3>6 DEF Spread
    <3> QED BY <3>2, <3>4, <3>7 DEF OwnersInv
  <2>2. CASE CreateListener
    BY <2>2, CreateListenerOwners
  <2>3. CASE ParseEnd
    BY <2>3, ParsedOwners
  <2>4. CASE AddPort \/ AddAddress \/ AddServer \/ AddFails \/ AddEnd
             \/ OptimizePort \/ OptimizeEnd
    <3>1. /\ phase \in {"add", "optimize"}
          /\ phase' \in {"add", "failed", "optimize", "serving"}
          /\ servers' = servers /\ listeners' = listeners
      BY <2>4 DEF AddPort, AddAddress, AddServer, AddFails, AddEnd, OptimizePort,
                  OptimizeEnd, Adding
    <3> QED BY <3>1 DEF OwnersInv, OwnsItsListen
  <2>5. CASE UNCHANGED vars
    BY <2>5 DEF OwnersInv, Spread, OwnsItsListen, vars
  <2> QED BY <2>1, <2>2, <2>3, <2>4, <2>5 DEF Next
<1>3. ServedInv /\ OwnersInv => ServedAsConfigured
  <2> SUFFICES ASSUME ServedInv, OwnersInv, phase = "serving" PROVE ServedAsConfigured
    BY DEF ServedAsConfigured
  <2> QED BY ServedAsAsked DEF OwnersInv
<1> QED BY <1>1, <1>2, <1>3, ConfServedInvariant, PTL DEF Spec

=============================================================================
