--------------------------- MODULE HttpReadProofs ---------------------------
(***************************************************************************)
(* Proofs about the reading of requests, for every pipeline, every limit   *)
(* of the configuration and every way the bytes arrive: the buffers hold   *)
(* what they can, what shares the header buffer never makes it move, the   *)
(* end of the stream is not invented but where EofTrue says so, and the    *)
(* memory of a connection is bounded.                                      *)
(***************************************************************************)
EXTENDS HttpRead, ListFacts

Handlers == {"init", "header", "entity", "keepalive"}
Places == 1..Len(wire)

Requests == [rl : Nat, len : Int, chunked : BOOLEAN, only : BOOLEAN]
Delivered == [head : Seq(Places), entity : Seq(Places)]

WireBytes == [k : Marks, v : Nat]
Decoders == [state : {"size", "ext", "data", "crlf", "trailer", "middle"},
             left : Int, hex : Int, ret : {"again", "ok", "error"},
             data : Seq(Places), rest : Seq(Places)]
RequestBodies == [buf : Buffers, split : BOOLEAN, rest : Int, dl : Nat, dec : Decoders]

\* Types, beyond TypeOK.
ShapeInv ==
    /\ pipe \in {Sending(p) : p \in Pipelines}
    /\ req \in Requests
    /\ rb \in RequestBodies
    /\ out \in Seq(Delivered)
    /\ hin.cap >= 1
    /\ rb.buf.off = 0

\* Who is running, and what its event is.
EventInv ==
    /\ on => pc \in Handlers
    /\ pc \in {"process", "http2", "closed"} => rev = "none"
    /\ pc \in {"process", "keepalive"} => out # <<>>
    /\ pc = "init" => hin.data = <<>> /\ hin.off = 0 /\ hin.cap = HeaderBuf
    /\ pc = "keepalive" => hin.data = <<>> /\ hin.off = 0 /\ prev = 0
    /\ pc \in {"init", "header", "keepalive"} => ~rb.split
    /\ why[2] = "eof" => pc = "closed"

\* A full header buffer that is read into.
HeaderInv ==
    /\ out = <<>> => hin.off = 0
    /\ pc = "header" /\ ~parse /\ Free(hin) = 0 =>
          prev = 0 \/ (Len(hin.data) = hin.cap \div 2 /\ hin.off > 0)

\* A request whose entity is being read: one of known length in the header
\* buffer or in its own, or a chunked one, which has its own.
EntityInv ==
    pc = "entity" =>
       /\ ~req.only
       /\ req.rl <= Len(hin.data)
       /\ ~req.chunked => req.len >= 0 /\ rb.rest \in {-1, req.len}
       /\ ~rb.split => ~req.chunked
       /\ rb.split => rb.buf.cap >= BodyBuf
       /\ rb.split /\ Free(rb.buf) = 0 => rb.buf.cap > BodyBuf \/ req.rl + Len(rb.buf.data) = prev
       /\ req.chunked => rb.dl <= hin.cap
       /\ req.chunked /\ rb.rest = -1 => rb.dl = 0
       /\ req.chunked /\ rb.dl = 0 => rb.buf.data = <<>> /\ rb.buf.cap = BodyBuf
       /\ on /\ stale # "no" => rb.split /\ rb.buf.cap > BodyBuf
       /\ rb.split /\ ~req.chunked /\ req.len > 0 => Len(rb.buf.data) < req.len

\* A head that is being read: nothing of it has been parsed yet, or all of it
\* has, and it is not complete.
OpenInv ==
    /\ pc = "init" => prev = 0
    /\ pc = "header" /\ prev # 0 =>
          prev = Len(hin.data) /\ PhrParseRequest(Kinds(hin), MaxHeaders, 0).ret # "ok"

StaleInv == on /\ stale # "no" => pc = "entity"

\* What is left when the request is done.
LeftInv ==
    pc = "process" =>
       /\ req.only \/ ~rb.split => req.rl <= Len(hin.data)
       /\ rb.split => Len(rb.buf.data) <= MaxBody \/ Len(rb.buf.data) <= BodyBuf

ReadInv ==
    /\ TypeOK
    /\ ShapeInv
    /\ EventInv
    /\ HeaderInv
    /\ EntityInv
    /\ OpenInv
    /\ StaleInv
    /\ LeftInv
    /\ SharedBufferStays
    /\ EofTrue
    /\ MemoryBounded
-----------------------------------------------------------------------------
(* Buffers.                                                                *)

\* The capacities that pgrest_buffer_reserve tries.
LEMMA DoubledFacts ==
    ASSUME NEW c \in Nat \ {0}, NEW m \in Nat
    PROVE  /\ Doubled(c, m) \in [0..m -> Nat]
           /\ Doubled(c, m)[0] = c
           /\ \A k \in 1..m : Doubled(c, m)[k] = 2 * Doubled(c, m)[k - 1]
           /\ \A k \in 0..m : Doubled(c, m)[k] > k
           /\ \A k \in 1..m : Doubled(c, m)[k] >= 2 * c
<1> DEFINE G(f, n) == f[0] = c /\ \A k \in 1..n : f[k] = 2 * f[k - 1]
           Some(n) == \E f \in [0..n -> Nat] : G(f, n)
           T == {n \in Nat : Some(n)}
           F(f) == f = [k \in 0..m |-> IF k = 0 THEN c ELSE 2 * f[k - 1]]
           h == Doubled(c, m)
<1>1. Some(0)
  <2> DEFINE f == [k \in 0..0 |-> c]
  <2>1. f \in [0..0 -> Nat] /\ G(f, 0)
    OBVIOUS
  <2> QED BY <2>1
<1>2. ASSUME NEW n \in Nat, Some(n) PROVE Some(n + 1)
  <2>1. PICK f \in [0..n -> Nat] : G(f, n)
    BY <1>2
  <2> DEFINE g == [k \in 0..n + 1 |-> IF k = n + 1 THEN 2 * f[n] ELSE f[k]]
  <2>2. f[n] \in Nat /\ 2 * f[n] \in Nat
    OBVIOUS
  <2>3. g \in [0..n + 1 -> Nat] /\ g[n + 1] = 2 * f[n] /\ \A k \in 0..n : g[k] = f[k]
    BY <2>2
  <2> HIDE DEF g
  <2>4. ASSUME NEW k \in 1..n + 1 PROVE g[k] = 2 * g[k - 1]
    <3>1. CASE k = n + 1
      <4>1. k - 1 = n /\ n \in 0..n
        BY <3>1
      <4> QED BY <2>3, <3>1, <4>1
    <3>2. CASE k # n + 1
      <4>1. k \in 1..n /\ k \in 0..n /\ k - 1 \in 0..n
        BY <3>2
      <4> QED BY <2>1, <2>3, <4>1
    <3> QED BY <3>1, <3>2
  <2>5. G(g, n + 1)
    <3>1. g[0] = c
      BY <2>1, <2>3
    <3> QED BY <2>4, <3>1
  <2> HIDE DEF G
  <2> QED BY <2>3, <2>5
<1>3. T = Nat
  <2> HIDE DEF Some
  <2>1. T \subseteq Nat /\ 0 \in T /\ \A n \in T : n + 1 \in T
    BY <1>1, <1>2
  <2> HIDE DEF T
  <2> QED BY <2>1, SetInduction
<1>4. Some(m)
  <2> HIDE DEF Some
  <2> QED BY <1>3
<1>5. PICK f \in [0..m -> Nat] : G(f, m)
  BY <1>4
<1>6. F(f)
  <2>1. \A k \in 0..m : f[k] = IF k = 0 THEN c ELSE 2 * f[k - 1]
    BY <1>5
  <2> QED BY <2>1
<1>7. F(h)
  <2>1. h = CHOOSE g : F(g)
    BY Zenon DEF Doubled
  <2> HIDE DEF F, h
  <2> QED BY <1>6, <2>1
<1> HIDE DEF h
<1>8. h[0] = c /\ \A k \in 1..m : h[k] = 2 * h[k - 1]
  BY <1>7
<1>9. DOMAIN h = 0..m
  BY <1>7
<1> DEFINE U == {k \in Nat : k \in 0..m => h[k] \in Nat /\ h[k] > k /\ (k > 0 => h[k] >= 2 * c)}
<1>10. 0 \in U
  BY <1>8
<1>11. ASSUME NEW k \in U PROVE k + 1 \in U
  <2> SUFFICES ASSUME k + 1 \in 1..m
               PROVE  h[k + 1] \in Nat /\ h[k + 1] > k + 1 /\ h[k + 1] >= 2 * c
    OBVIOUS
  <2>1. k \in 0..m /\ (k + 1) - 1 = k /\ (k = 0 => h[k] = c)
    BY <1>8
  <2>2. h[k + 1] = 2 * h[k] /\ h[k] \in Nat /\ h[k] > k /\ (k > 0 => h[k] >= 2 * c)
    BY <1>8, <1>11, <2>1
  <2> QED BY <2>1, <2>2
<1>12. U = Nat
  <2>1. U \subseteq Nat
    OBVIOUS
  <2> HIDE DEF U
  <2> QED BY <1>10, <1>11, <2>1, SetInduction
<1>13. \A k \in 0..m : h[k] \in Nat /\ h[k] > k /\ (k > 0 => h[k] >= 2 * c)
  BY <1>12
<1>14. h \in [0..m -> Nat]
  BY <1>7, <1>13
<1> QED BY <1>8, <1>13, <1>14 DEF h

\* The one that it takes is large enough, and not twice as large as needed
\* unless that is the first.
LEMMA EnoughFacts ==
    ASSUME NEW c \in Nat \ {0}, NEW held \in Nat, NEW n \in Nat, held + n > 0
    PROVE  /\ Enough(c, held, n) \in Nat
           /\ Enough(c, held, n) >= held + n
           /\ Enough(c, held, n) >= 2 * c
           /\ Enough(c, held, n) = 2 * c \/ Enough(c, held, n) < 2 * (held + n)
<1> DEFINE m == n + held
           h == Doubled(c, m)
           S == {d \in {h[k] : k \in 1..m} : d - held >= n}
<1>0. m \in Nat /\ m > 0
  OBVIOUS
<1>1. /\ h \in [0..m -> Nat] /\ h[0] = c /\ \A k \in 1..m : h[k] = 2 * h[k - 1]
      /\ \A k \in 0..m : h[k] > k
      /\ \A k \in 1..m : h[k] >= 2 * c
  BY <1>0, DoubledFacts
<1>2. Enough(c, held, n) = Min(S)
  BY DEF Enough
<1> HIDE DEF h
<1>3. m \in 1..m /\ m \in 0..m /\ h[m] \in Nat /\ h[m] > m
  BY <1>0, <1>1
<1>4. h[m] \in S
  BY <1>3
<1>5. S \subseteq Nat
  <2>1. \A k \in 1..m : k \in 0..m
    BY <1>0
  <2> QED BY <1>1, <2>1
<1>6. Min(S) \in S /\ \A y \in S : Min(S) <= y
  <2> HIDE DEF S
  <2> QED BY <1>4, <1>5, MinFacts
<1>7. PICK k \in 1..m : Min(S) = h[k] /\ h[k] - held >= n
  BY <1>6
<1>8. h[k] \in Nat /\ h[k] >= 2 * c /\ h[k] = 2 * h[k - 1]
  BY <1>0, <1>1, <1>7
<1>9. h[k] = 2 * c \/ h[k] < 2 * (held + n)
  <2>1. CASE k = 1
    BY <1>1, <1>8, <2>1
  <2>2. CASE k > 1
    <3>1. k - 1 \in 1..m /\ h[k - 1] \in Nat /\ h[k - 1] > 0
      <4>1. k - 1 \in 1..m /\ k - 1 \in 0..m
        BY <1>0, <2>2
      <4>2. h[k - 1] \in Nat
        BY <1>1, <4>1
      <4>3. h[k - 1] > k - 1
        BY <1>1, <4>1, Zenon
      <4>4. \A i, j \in Nat : i > j => i > 0
        OBVIOUS
      <4>5. k - 1 \in Nat
        BY <2>2
      <4> QED BY <4>1, <4>2, <4>3, <4>4, <4>5, Zenon
    <3>2. h[k - 1] \notin S
      <4> HIDE DEF S
      <4> QED BY <1>6, <1>7, <1>8, <3>1
    <3>3. ~(h[k - 1] - held >= n)
      BY <3>1, <3>2
    <3> QED BY <1>8, <3>1, <3>3
  <2> QED BY <2>1, <2>2
<1>10. Enough(c, held, n) = h[k]
  <2> HIDE DEF S
  <2> QED BY <1>2, <1>7
<1> QED BY <1>7, <1>8, <1>9, <1>10

\* A buffer: it has a capacity, and holds no more than that.
IsBuffer(b) == b \in Buffers /\ b.cap >= 1 /\ Free(b) >= 0

\* A buffer that grows keeps its bytes.
Grown(b, g, n) ==
    /\ IsBuffer(g)
    /\ g.data = b.data
    /\ g.off \in {0, b.off}
    /\ g.cap - Len(b.data) >= n
    /\ \/ g = b /\ Free(b) >= n
       \/ g.cap = b.cap /\ Free(b) < n /\ 2 * (Len(b.data) + n) <= b.cap /\ g.off = 0
       \/ /\ Free(b) < n /\ 2 * (Len(b.data) + n) > b.cap
          /\ g.cap >= 2 * b.cap
          /\ g.cap = 2 * b.cap \/ g.cap < 2 * (Len(b.data) + n)

\* A buffer is a record of four fields.
LEMMA FieldFacts ==
    ASSUME NEW D, NEW b \in [data : D, off : Nat, cap : Nat, file : BOOLEAN],
           NEW s \in D, NEW o \in Nat, NEW c \in Nat, NEW f \in BOOLEAN
    PROVE  /\ [b EXCEPT !.data = s, !.off = o]
                 \in [data : D, off : Nat, cap : Nat, file : BOOLEAN]
           /\ [b EXCEPT !.data = s, !.off = o].data = s
           /\ [b EXCEPT !.data = s, !.off = o].off = o
           /\ [b EXCEPT !.data = s, !.off = o].cap = b.cap
           /\ [b EXCEPT !.cap = c, !.off = o, !.file = f]
                 \in [data : D, off : Nat, cap : Nat, file : BOOLEAN]
           /\ [b EXCEPT !.cap = c, !.off = o, !.file = f].data = b.data
           /\ [b EXCEPT !.cap = c, !.off = o, !.file = f].off = o
           /\ [b EXCEPT !.cap = c, !.off = o, !.file = f].cap = c
<1> DEFINE g == [b EXCEPT !.data = s, !.off = o]
           h == [b EXCEPT !.cap = c, !.off = o, !.file = f]
<1>1. g.data = s /\ g.off = o /\ g.cap = b.cap
  OBVIOUS
<1>2. h.data = b.data /\ h.off = o /\ h.cap = c
  OBVIOUS
<1>3. g \in [data : D, off : Nat, cap : Nat, file : BOOLEAN]
  OBVIOUS
<1>4. h \in [data : D, off : Nat, cap : Nat, file : BOOLEAN]
  OBVIOUS
<1> QED BY <1>1, <1>2, <1>3, <1>4

LEMMA ReserveFacts ==
    ASSUME NEW b, IsBuffer(b), NEW n \in Nat
    PROVE  Grown(b, Reserve(b, n), n)
<1> DEFINE held == Len(b.data)
           c == Enough(b.cap, held, n)
           g == Reserve(b, n)
<1>1. /\ b \in Buffers /\ b.cap \in Nat /\ b.cap >= 1 /\ b.off \in Nat /\ held \in Nat
      /\ b.file \in BOOLEAN /\ b.data \in Seq(Places)
      /\ Free(b) = b.cap - held - b.off /\ Free(b) >= 0
  BY DEF IsBuffer, Buffers, Free, Places
<1> HIDE DEF held
<1>2. CASE Free(b) >= n
  <2>1. g = b
    BY <1>1, <1>2 DEF Reserve
  <2> QED BY <1>1, <1>2, <2>1 DEF Grown, held
<1>3. CASE Free(b) < n /\ 2 * (held + n) <= b.cap
  <2>1. g = [b EXCEPT !.off = 0]
    BY <1>1, <1>3 DEF Reserve, held
  <2>2. /\ g \in Buffers /\ g.cap = b.cap /\ g.data = b.data /\ g.off = 0
    BY <1>1, <2>1 DEF Buffers
  <2>3. Free(g) = b.cap - held
    BY <1>1, <2>2 DEF Free, held
  <2> QED BY <1>1, <1>3, <2>2, <2>3 DEF Grown, IsBuffer, held
<1>4. CASE Free(b) < n /\ 2 * (held + n) > b.cap
  <2>1. /\ c \in Nat /\ c >= held + n /\ c >= 2 * b.cap
        /\ c = 2 * b.cap \/ c < 2 * (held + n)
    <3>1. b.cap \in Nat \ {0} /\ held + n > 0
      BY <1>1, <1>4
    <3> QED BY <1>1, <3>1, EnoughFacts
  <2>2. g = [b EXCEPT !.cap = c, !.off = IF b.file THEN b.off ELSE 0, !.file = c > Limit]
    BY <1>1, <1>4 DEF Reserve, held
  <2> HIDE DEF c
  <2>3. /\ g \in Buffers /\ g.cap = c /\ g.data = b.data /\ g.off \in {0, b.off}
    <3> DEFINE o == IF b.file THEN b.off ELSE 0
               D == Seq(1..Len(wire))
    <3>1. /\ b \in [data : D, off : Nat, cap : Nat, file : BOOLEAN] /\ b.data \in D
          /\ o \in Nat /\ o \in {0, b.off} /\ (c > Limit) \in BOOLEAN
      BY <1>1 DEF Buffers
    <3> HIDE DEF o, D
    <3>2. g \in [data : D, off : Nat, cap : Nat, file : BOOLEAN]
          /\ g.data = b.data /\ g.off = o /\ g.cap = c
      <4>1. g = [b EXCEPT !.cap = c, !.off = o, !.file = c > Limit]
        BY <2>2 DEF o
      <4> HIDE DEF g
      <4> QED BY <2>1, <3>1, <4>1, FieldFacts
    <3> QED BY <3>1, <3>2 DEF Buffers, D
  <2>4. Free(g) = c - held - g.off
    BY <2>3 DEF Free, held
  <2>5. Free(g) >= 0 /\ g.cap >= 1 /\ g.cap - held >= n
    BY <1>1, <2>1, <2>3, <2>4, SMTT(30)
  <2> HIDE DEF g
  <2>6. IsBuffer(g)
    BY <2>3, <2>5 DEF IsBuffer
  <2> USE DEF held
  <2> QED BY <1>4, <2>1, <2>3, <2>5, <2>6 DEF Grown, g
<1> QED BY <1>1, <1>2, <1>3, <1>4

\* A buffer that is given a new content.
LEMMA FilledFacts ==
    ASSUME NEW b, IsBuffer(b), NEW s \in Seq(Places), Len(s) + b.off <= b.cap
    PROVE  /\ IsBuffer([b EXCEPT !.data = s])
           /\ [b EXCEPT !.data = s].data = s
           /\ [b EXCEPT !.data = s].cap = b.cap
           /\ [b EXCEPT !.data = s].off = b.off
           /\ Free([b EXCEPT !.data = s]) = b.cap - Len(s) - b.off
<1> DEFINE g == [b EXCEPT !.data = s]
<1>1. b \in Buffers /\ b.cap \in Nat /\ b.cap >= 1 /\ b.off \in Nat /\ Len(s) \in Nat
  BY DEF IsBuffer, Buffers
<1>2. g \in Buffers /\ g.data = s /\ g.cap = b.cap /\ g.off = b.off
  BY <1>1 DEF Buffers, Places
<1>3. Free(g) = b.cap - Len(s) - b.off
  BY <1>2 DEF Free
<1> QED BY <1>1, <1>2, <1>3 DEF IsBuffer

\* A new buffer, and one that is emptied.
LEMMA NewFacts ==
    ASSUME NEW n \in Nat \ {0}
    PROVE  /\ IsBuffer(NewBuf(n)) /\ NewBuf(n).data = <<>> /\ NewBuf(n).cap = n
           /\ NewBuf(n).off = 0 /\ Len(NewBuf(n).data) = 0
  BY DEF NewBuf, IsBuffer, Buffers, Free

LEMMA ResetFacts ==
    ASSUME NEW b, IsBuffer(b)
    PROVE  /\ IsBuffer(Reset(b)) /\ Reset(b).data = <<>> /\ Reset(b).cap = b.cap
           /\ Reset(b).off = 0 /\ Len(Reset(b).data) = 0
<1>1. /\ Reset(b) \in Buffers /\ Reset(b).data = <<>> /\ Reset(b).cap = b.cap
      /\ Reset(b).off = 0
  <2> DEFINE D == Seq(1..Len(wire))
  <2>1. b \in [data : D, off : Nat, cap : Nat, file : BOOLEAN] /\ <<>> \in D
        /\ b.cap \in Nat /\ b.file \in BOOLEAN
    BY DEF IsBuffer, Buffers
  <2> HIDE DEF D
  <2>2. Reset(b) \in [data : D, off : Nat, cap : Nat, file : BOOLEAN]
        /\ Reset(b).data = <<>> /\ Reset(b).off = 0 /\ Reset(b).cap = b.cap
    BY <2>1, FieldFacts DEF Reset
  <2> QED BY <2>2 DEF Buffers, D
<1>2. b.cap \in Nat /\ b.cap >= 1
  BY DEF IsBuffer, Buffers
<1> QED BY <1>1, <1>2 DEF IsBuffer, Free

\* pgrest_buffer_consume, of no more than the buffer holds.
LEMMA ConsumeFacts ==
    ASSUME NEW b, IsBuffer(b), NEW n \in Nat, n <= Len(b.data)
    PROVE  /\ IsBuffer(Consume(b, n)) /\ Consume(b, n).cap = b.cap
           /\ Consume(b, n).data = <<>> => Consume(b, n).off = 0
<1>1. CASE Len(b.data) = n
  BY <1>1, ResetFacts DEF Consume
<1>2. CASE Len(b.data) # n
  <2> DEFINE s == SubSeq(b.data, n + 1, Len(b.data))
             g == Consume(b, n)
  <2>1. /\ b \in Buffers /\ b.data \in Seq(Places) /\ Len(b.data) \in Nat
        /\ b.cap \in Nat /\ b.cap >= 1 /\ b.off \in Nat
        /\ b.cap - Len(b.data) - b.off >= 0
    BY DEF IsBuffer, Buffers, Free, Places
  <2>2. s \in Seq(Places) /\ Len(s) = Len(b.data) - n
    BY <2>1
  <2>3. g = [b EXCEPT !.data = s, !.off = b.off + n]
    BY <1>2 DEF Consume
  <2> HIDE DEF s
  <2>4. g \in Buffers /\ g.data = s /\ g.cap = b.cap /\ g.off = b.off + n
    <3> DEFINE D == Seq(1..Len(wire))
               o == b.off + n
    <3>1. b \in [data : D, off : Nat, cap : Nat, file : BOOLEAN] /\ s \in D
          /\ o \in Nat /\ b.file \in BOOLEAN
      BY <2>1, <2>2 DEF Buffers, Places
    <3> HIDE DEF D, o
    <3>2. g \in [data : D, off : Nat, cap : Nat, file : BOOLEAN]
          /\ g.data = s /\ g.off = o /\ g.cap = b.cap
      <4>1. g = [b EXCEPT !.data = s, !.off = o]
        BY <2>3 DEF o
      <4> HIDE DEF g
      <4> QED BY <2>1, <3>1, <4>1, FieldFacts
    <3> QED BY <3>2 DEF Buffers, D, o
  <2>5. s # <<>>
    BY <1>2, <2>1, <2>2
  <2> QED BY <2>1, <2>2, <2>4, <2>5 DEF IsBuffer, Free
<1> QED BY <1>1, <1>2
-----------------------------------------------------------------------------
(* The bytes of a pipeline.                                                *)

ARequest == [head : Seq(Marks), body : Bodies, chunks : Seq(Nat)]

LEMMA PipelineType ==
    ASSUME NEW p \in Pipelines
    PROVE  p \in Seq(ARequest)
  BY HttpReadAssumption DEF HttpReadAssumption, ARequest

LEMMA ByteType ==
    /\ \A x \in Marks, n \in Nat : Byte(x, n) \in WireBytes
    /\ <<"n">> \in Seq(Marks)
    /\ "d" \in Marks /\ "s" \in Marks /\ "n" \in Marks
<1>1. "d" \in Marks /\ "s" \in Marks /\ "n" \in Marks
  BY DEF Marks
<1>2. \A x \in Marks : <<x>> \in Seq(Marks)
  OBVIOUS
<1>3. \A x \in Marks, n \in Nat : Byte(x, n) \in WireBytes
  BY DEF Byte, WireBytes
<1> QED BY <1>1, <1>2, <1>3, Zenon

LEMMA DataType ==
    ASSUME NEW n \in Nat
    PROVE  Data(n) \in Seq(WireBytes)
<1>1. Byte("d", 0) \in WireBytes
  BY ByteType
<1>2. Data(n) \in [1..n -> WireBytes]
  BY <1>1 DEF Data
<1> QED BY <1>2

LEMMA PlainType ==
    ASSUME NEW ks \in Seq(Marks)
    PROVE  Plain(ks) \in Seq(WireBytes)
<1>1. Len(ks) \in Nat /\ DOMAIN ks = 1..Len(ks) /\ \A i \in 1..Len(ks) : ks[i] \in Marks
  OBVIOUS
<1>2. \A x \in Marks : Byte(x, 0) \in WireBytes
  BY DEF Byte, WireBytes
<1>3. Plain(ks) \in [1..Len(ks) -> WireBytes]
  BY <1>1, <1>2 DEF Plain
<1> QED BY <1>1, <1>3

LEMMA ChunkType ==
    ASSUME NEW n \in Nat
    PROVE  Chunk(n) \in Seq(WireBytes)
<1>1. Byte("s", n) \in WireBytes /\ Byte("n", 0) \in WireBytes
  BY ByteType
<1>2. \A x, y \in WireBytes : <<x, y>> \in Seq(WireBytes)
  OBVIOUS
<1>3. <<Byte("s", n), Byte("n", 0)>> \in Seq(WireBytes)
  BY <1>1, <1>2
<1>4. <<"n">> \in Seq(Marks) /\ <<>> \in Seq(WireBytes)
  <2>1. <<>> \in Seq(WireBytes)
    OBVIOUS
  <2> QED BY <2>1, ByteType, Zenon
<1>5. Plain(<<"n">>) \in Seq(WireBytes)
  BY <1>4, PlainType
<1>6. \A x, y, z \in Seq(WireBytes) : x \o y \o z \in Seq(WireBytes)
  OBVIOUS
<1> QED BY <1>3, <1>4, <1>5, <1>6, DataType DEF Chunk

\* The number of data bytes of a body.
LEMMA TotalType ==
    ASSUME NEW r \in ARequest
    PROVE  Total(r) \in Nat
<1> DEFINE f == [i \in DOMAIN r.chunks |-> Data(r.chunks[i])]
<1>1. r.chunks \in Seq(Nat)
  BY DEF ARequest
<1>2. \A i \in DOMAIN r.chunks : r.chunks[i] \in Nat
  BY <1>1
<1>3. Len(r.chunks) \in Nat /\ DOMAIN r.chunks = 1..Len(r.chunks)
  BY <1>1
<1>4. f \in [1..Len(r.chunks) -> Seq(WireBytes)]
  BY <1>2, <1>3, DataType
<1>5. f \in Seq(Seq(WireBytes))
  BY <1>3, <1>4, IntervalSeq
<1>6. FlattenSeq(f) \in Seq(WireBytes)
  BY <1>5, FlattenType
<1> QED BY <1>6 DEF Total

LEMMA BytesType ==
    ASSUME NEW r \in ARequest
    PROVE  Bytes(r) \in Seq(WireBytes)
<1> DEFINE f == [i \in DOMAIN r.chunks |-> Chunk(r.chunks[i])]
<1>1. r.chunks \in Seq(Nat) /\ r.head \in Seq(Marks)
  BY DEF ARequest
<1>2. \A i \in DOMAIN r.chunks : r.chunks[i] \in Nat
  BY <1>1
<1>3. Len(r.chunks) \in Nat /\ DOMAIN r.chunks = 1..Len(r.chunks)
  BY <1>1
<1>4. f \in [1..Len(r.chunks) -> Seq(WireBytes)]
  BY <1>2, <1>3, ChunkType
<1>5. f \in Seq(Seq(WireBytes))
  BY <1>3, <1>4, IntervalSeq
<1>6. FlattenSeq(f) \in Seq(WireBytes)
  BY <1>5, FlattenType
<1>7. /\ Data(Total(r)) \in Seq(WireBytes) /\ Chunk(0) \in Seq(WireBytes)
      /\ Plain(<<"n">>) \in Seq(WireBytes) /\ Plain(r.head) \in Seq(WireBytes)
  <2>1. Plain(<<"n">>) \in Seq(WireBytes)
    BY ByteType, PlainType, Zenon
  <2> QED BY <1>1, <2>1, DataType, ChunkType, PlainType, TotalType
<1>8. \A x, y, z \in Seq(WireBytes) : x \o y \o z \in Seq(WireBytes) /\ x \o y \in Seq(WireBytes)
  OBVIOUS
<1>9. <<>> \in Seq(WireBytes)
  OBVIOUS
<1>10. FlattenSeq(f) \o Chunk(0) \o Plain(<<"n">>) \in Seq(WireBytes)
  BY <1>6, <1>7, <1>8, Zenon
<1>11. BodyBytes(r) \in Seq(WireBytes)
  <2>1. CASE r.body \in {"length", "garbled"}
    BY <1>7, <2>1 DEF BodyBytes
  <2>2. CASE r.body = "chunked"
    BY <1>10, <2>2 DEF BodyBytes
  <2>3. CASE r.body \notin {"length", "garbled", "chunked"}
    BY <1>9, <2>3 DEF BodyBytes
  <2> QED BY <2>1, <2>2, <2>3
<1> QED BY <1>7, <1>8, <1>11, Zenon DEF Bytes

LEMMA WireType ==
    ASSUME pipe \in {Sending(p) : p \in Pipelines}
    PROVE  /\ wire \in Seq(WireBytes)
           /\ Len(wire) \in Nat
           /\ \A i \in Places : wire[i] \in WireBytes
           /\ pipe.reqs \in Seq(ARequest)
           /\ DOMAIN pipe.laid = DOMAIN pipe.reqs
<1>1. PICK p \in Pipelines : pipe = Sending(p)
  OBVIOUS
<1>2. p \in Seq(ARequest)
  BY PipelineType
<1> DEFINE f == [i \in DOMAIN p |-> Bytes(p[i])]
<1>3. pipe.reqs = p /\ wire = FlattenSeq(f) /\ DOMAIN pipe.laid = DOMAIN p
  BY <1>1 DEF Sending, wire
<1>4. Len(p) \in Nat /\ DOMAIN p = 1..Len(p) /\ \A i \in DOMAIN p : p[i] \in ARequest
  BY <1>2
<1>5. f \in [1..Len(p) -> Seq(WireBytes)]
  BY <1>4, BytesType
<1>6. f \in Seq(Seq(WireBytes))
  BY <1>4, <1>5, IntervalSeq
<1>7. wire \in Seq(WireBytes)
  BY <1>3, <1>6, FlattenType
<1>8. Len(wire) \in Nat /\ \A i \in Places : wire[i] \in WireBytes
  BY <1>7 DEF Places
<1> QED BY <1>2, <1>3, <1>7, <1>8
-----------------------------------------------------------------------------
(* The parser and the decoder.                                             *)

\* A head that is complete has bytes, and no more than there are.
LEMMA ParseFacts ==
    ASSUME NEW ks, Len(ks) \in Nat, NEW max, NEW last
    PROVE  LET p == PhrParseRequest(ks, max, last) IN
           /\ p.ret \in {"again", "error", "ok"}
           /\ p.headers \in Nat
           /\ p.ret = "ok" => p.n \in 1..Len(ks)
<1> DEFINE s == LineStart(ks)
           blank == {i \in s + 2..Len(ks) : (i - s) % 2 = 0 /\ ks[i] = "n"}
           end == IF blank = {} THEN Len(ks) ELSE Min(blank)
           lines == Max({0, end - s - 1}) \div 2
           p == PhrParseRequest(ks, max, last)
<1>1. s \in {1, 2}
  BY DEF LineStart
<1> HIDE DEF s
<1>2. blank \subseteq 1..Len(ks) /\ blank \subseteq Nat
  BY <1>1
<1> HIDE DEF blank
<1>3. end \in Nat /\ (blank # {} => end \in 1..Len(ks))
  <2>1. CASE blank = {}
    BY <2>1
  <2>2. CASE blank # {}
    <3>1. Min(blank) \in blank
      BY <1>2, <2>2, MinFacts
    <3> QED BY <1>2, <2>2, <3>1
  <2> QED BY <2>1, <2>2
<1> HIDE DEF end
<1>4. \A x \in Int : Max({0, x}) \in Nat
  <2> SUFFICES ASSUME NEW x \in Int PROVE Max({0, x}) \in Nat
    OBVIOUS
  <2>1. \E z \in {0, x} : \A y \in {0, x} : z >= y
    <3>1. CASE x >= 0
      BY <3>1
    <3>2. CASE x < 0
      BY <3>2
    <3> QED BY <3>1, <3>2
  <2>2. Max({0, x}) \in {0, x} /\ \A y \in {0, x} : Max({0, x}) >= y
    BY <2>1 DEF Max
  <2> QED BY <2>2
<1>5. lines \in Nat
  <2>1. end - s - 1 \in Int
    BY <1>1, <1>3
  <2>2. Max({0, end - s - 1}) \in Nat
    BY <1>4, <2>1
  <2>3. \A m \in Nat : m \div 2 \in Nat
    OBVIOUS
  <2> QED BY <2>2, <2>3
<1> HIDE DEF lines
<1>6. \/ p = [ret |-> "again", n |-> 0, headers |-> 0]
      \/ p = [ret |-> "error", n |-> 0, headers |-> lines]
      \/ p = [ret |-> IF blank = {} THEN "again" ELSE "ok", n |-> end, headers |-> lines]
  <2> DEFINE A == last # 0 /\ ~IsComplete(ks, last)
             B == \E i \in s..end : ~Allowed(ks, s, max, i)
  <2>0. p = CASE A -> [ret |-> "again", n |-> 0, headers |-> 0]
              [] ~A /\ B -> [ret |-> "error", n |-> 0, headers |-> lines]
              [] OTHER -> [ret |-> IF blank = {} THEN "again" ELSE "ok", n |-> end, headers |-> lines]
    BY Zenon DEF PhrParseRequest, s, blank, end, lines
  <2> HIDE DEF A, B, p
  <2> QED BY <2>0
<1> HIDE DEF p
<1>7. /\ p.ret \in {"again", "error", "ok"} /\ p.headers \in Nat
      /\ p.ret = "ok" => p.n \in 1..Len(ks)
  <2>1. CASE p = [ret |-> "again", n |-> 0, headers |-> 0]
    BY <2>1
  <2>2. CASE p = [ret |-> "error", n |-> 0, headers |-> lines]
    BY <1>5, <2>2
  <2>3. CASE p = [ret |-> IF blank = {} THEN "again" ELSE "ok", n |-> end, headers |-> lines]
    BY <1>3, <1>5, <2>3
  <2> QED BY <1>6, <2>1, <2>2, <2>3
<1> QED BY <1>7 DEF p

\* Where a head may end, and where it does: at the first blank line, if every
\* byte before it is allowed.
Blanks(ks) == {i \in LineStart(ks) + 2..Len(ks) : (i - LineStart(ks)) % 2 = 0 /\ ks[i] = "n"}
EndsAt(ks, max, e) ==
    /\ e \in Blanks(ks) /\ \A i \in Blanks(ks) : e <= i
    /\ \A i \in LineStart(ks)..e : Allowed(ks, LineStart(ks), max, i)

\* What the parser says of a head. That it is not complete says nothing of how
\* many headers there may be.
LEMMA ParseMeans ==
    ASSUME NEW ks, Len(ks) \in Nat, NEW max
    PROVE  /\ PhrParseRequest(ks, max, 0).ret = "ok" <=> \E e \in Nat : EndsAt(ks, max, e)
           /\ \A last : PhrParseRequest(ks, max, last).ret = "again" =>
                  (last # 0 /\ ~IsComplete(ks, last)) \/ Blanks(ks) = {}
<1> DEFINE s == LineStart(ks)
           end == IF Blanks(ks) = {} THEN Len(ks) ELSE Min(Blanks(ks))
           lines == Max({0, end - s - 1}) \div 2
           A(last) == last # 0 /\ ~IsComplete(ks, last)
           B == \E i \in s..end : ~Allowed(ks, s, max, i)
<1>1. s \in {1, 2}
  BY DEF LineStart
<1>2. Blanks(ks) \subseteq Nat
  BY <1>1 DEF Blanks
<1>3. \A last : PhrParseRequest(ks, max, last) =
          CASE A(last) -> [ret |-> "again", n |-> 0, headers |-> 0]
            [] ~A(last) /\ B -> [ret |-> "error", n |-> 0, headers |-> lines]
            [] OTHER -> [ret |-> IF Blanks(ks) = {} THEN "again" ELSE "ok", n |-> end, headers |-> lines]
  BY Zenon DEF PhrParseRequest, Blanks
<1>4. Blanks(ks) # {} => end \in Blanks(ks) /\ \A i \in Blanks(ks) : end <= i
  BY <1>2, MinFacts
<1>5. ~A(0)
  OBVIOUS
<1> HIDE DEF lines, A
<1>6. ASSUME NEW last
      PROVE  /\ PhrParseRequest(ks, max, last).ret = "again" => A(last) \/ Blanks(ks) = {}
             /\ ~A(last) => (PhrParseRequest(ks, max, last).ret = "ok" <=> ~B /\ Blanks(ks) # {})
  <2> HIDE DEF B, end
  <2>1. CASE A(last)
    BY <1>3, <2>1
  <2>2. CASE ~A(last) /\ B
    BY <1>3, <2>2
  <2>3. CASE ~A(last) /\ ~B
    BY <1>3, <2>3
  <2> QED BY <2>1, <2>2, <2>3
<1>7. ~B /\ Blanks(ks) # {} <=> \E e \in Nat : EndsAt(ks, max, e)
  <2>1. ASSUME NEW e \in Nat, EndsAt(ks, max, e) PROVE Blanks(ks) # {} /\ end = e
    <3>1. e \in Blanks(ks) /\ \A i \in Blanks(ks) : e <= i
      BY <2>1 DEF EndsAt
    <3> HIDE DEF end
    <3> QED BY <1>2, <1>4, <3>1
  <2>2. Blanks(ks) # {} /\ ~B => EndsAt(ks, max, end) /\ end \in Nat
    <3> HIDE DEF end
    <3> QED BY <1>2, <1>4 DEF EndsAt
  <2>3. ASSUME NEW e \in Nat, EndsAt(ks, max, e) PROVE ~B
    <3>1. end = e
      BY <2>1, <2>3
    <3> HIDE DEF end
    <3> QED BY <2>3, <3>1 DEF EndsAt
  <2> HIDE DEF B, end
  <2> QED BY <2>1, <2>2, <2>3
<1> QED BY <1>5, <1>6, <1>7 DEF A

\* is_complete may start its search three bytes before the end of what was
\* parsed: a head that ends earlier was complete before.
LEMMA EarlierHead ==
    ASSUME NEW ks, Len(ks) \in Nat, NEW old, Len(old) \in Nat \ {0}, Len(old) <= Len(ks),
           \A i \in 1..Len(old) : old[i] = ks[i], old # <<>>, ks # <<>>,
           ~IsComplete(ks, Len(old)), NEW max, NEW e \in Nat, EndsAt(ks, max, e)
    PROVE  EndsAt(old, max, e)
<1> DEFINE s == LineStart(ks)
           m == Len(old)
           start == Max({1, m - 2})
<1>1. s \in {1, 2} /\ LineStart(old) = s
  BY DEF LineStart
<1>2. /\ e \in s + 2..Len(ks) /\ (e - s) % 2 = 0 /\ ks[e] = "n"
      /\ \A i \in Blanks(ks) : e <= i
      /\ \A i \in s..e : Allowed(ks, s, max, i)
  BY DEF EndsAt, Blanks
<1> HIDE DEF s
<1>3. ks[e - 1] = "n"
  <2>1. e - 1 \in s..e /\ e - 1 > s /\ (e - 1 - s) % 2 = 1
    BY <1>1, <1>2
  <2>2. Allowed(ks, s, max, e - 1)
    BY <1>2, <2>1
  <2>3. e - 1 # s /\ ~(e - 1 = s)
    BY <1>1, <1>2
  <2> DEFINE k == e - 1
  <2>4. k # s /\ k > s /\ (k - s) % 2 = 1 /\ Allowed(ks, s, max, k)
    BY <2>1, <2>2, <2>3
  <2> HIDE DEF k
  <2>5. ks[k] = "n"
    BY <2>4 DEF Allowed
  <2> QED BY <2>5 DEF k
<1>4. e <= m
  <2>1. start \in Int /\ (start = 1 \/ start = m - 2)
    <3>1. {1, m - 2} \subseteq Int
      OBVIOUS
    <3>2. \E z \in {1, m - 2} : \A y \in {1, m - 2} : z >= y
      <4>1. CASE m - 2 >= 1
        BY <4>1
      <4>2. CASE m - 2 < 1
        BY <4>2
      <4> QED BY <4>1, <4>2
    <3>3. start \in {1, m - 2}
      BY <3>2 DEF Max
    <3> QED BY <3>1, <3>3
  <2>2. ~\E i \in start..Len(ks) - 1 : ks[i] = "n" /\ ks[i + 1] = "n"
    BY DEF IsComplete
  <2> HIDE DEF start, m
  <2>3. m \in Nat
    BY DEF m
  <2> DEFINE i == e - 1
  <2>4. i \in Nat /\ i + 1 = e /\ i >= 1 /\ i <= Len(ks) - 1 /\ ks[i] = "n" /\ ks[i + 1] = "n"
    BY <1>1, <1>2, <1>3
  <2>5. ~(i >= start)
    BY <2>1, <2>2, <2>4
  <2> HIDE DEF i
  <2> QED BY <2>1, <2>3, <2>4, <2>5
<1>5. \A i \in s..e : i \in 1..m /\ old[i] = ks[i]
  BY <1>1, <1>2, <1>4
<1>6. \A i \in s..e : Allowed(old, s, max, i)
  <2> SUFFICES ASSUME NEW i \in s..e PROVE Allowed(old, s, max, i)
    OBVIOUS
  <2>1. Allowed(ks, s, max, i) /\ old[i] = ks[i]
    BY <1>2, <1>5
  <2> QED BY <2>1, Zenon DEF Allowed
<1>7. e \in Blanks(old)
  BY <1>1, <1>2, <1>4, <1>5 DEF Blanks
<1>8. \A i \in Blanks(old) : e <= i
  <2> SUFFICES ASSUME NEW i \in Blanks(old) PROVE e <= i
    OBVIOUS
  <2>1. i \in s + 2..m /\ (i - s) % 2 = 0 /\ old[i] = "n"
    BY <1>1 DEF Blanks
  <2>2. i \in 1..m /\ i \in s + 2..Len(ks)
    BY <1>1, <2>1
  <2>3. ks[i] = "n"
    BY <2>1, <2>2
  <2>4. i \in Blanks(ks)
    BY <2>1, <2>2, <2>3 DEF Blanks, s
  <2> QED BY <1>2, <2>4
<1> QED BY <1>1, <1>6, <1>7, <1>8 DEF EndsAt

\* The kinds of the bytes in a buffer are as many as the bytes.
LEMMA KindsFacts ==
    ASSUME NEW b, IsBuffer(b)
    PROVE  Len(Kinds(b)) = Len(b.data) /\ Len(b.data) \in Nat
<1>1. Len(b.data) \in Nat /\ DOMAIN b.data = 1..Len(b.data)
  BY DEF IsBuffer, Buffers
<1> DEFINE S == {wire[b.data[i]].k : i \in 1..Len(b.data)}
<1>2. Kinds(b) \in [1..Len(b.data) -> S]
  BY <1>1 DEF Kinds
<1> HIDE DEF S
<1> QED BY <1>1, <1>2, IntervalSeq

\* One byte: it is decoded, dropped, or left over once the decoder has ended.
LEMMA DecodeByteFacts ==
    ASSUME NEW d \in Decoders, NEW i \in Places, wire[i] \in WireBytes
    PROVE  LET e == DecodeByte(d, i) IN
           /\ e \in Decoders
           /\ Len(e.data) + Len(e.rest) <= Len(d.data) + Len(d.rest) + 1
           /\ d.rest = <<>> /\ e.ret = "again" => e.rest = <<>>
           /\ d.ret # "again" => e.ret = d.ret
<1> DEFINE e == DecodeByte(d, i)
           D == Seq(Places)
           b == wire[i]
           P(x) == /\ x \in Decoders
                   /\ Len(x.data) + Len(x.rest) <= Len(d.data) + Len(d.rest) + 1
                   /\ d.rest = <<>> /\ x.ret = "again" => x.rest = <<>>
                   /\ d.ret # "again" => x.ret = d.ret
<1>1. /\ d.data \in D /\ d.rest \in D /\ d.left \in Int /\ d.hex \in Int
      /\ d.ret \in {"again", "ok", "error"}
      /\ d.state \in {"size", "ext", "data", "crlf", "trailer", "middle"}
      /\ Len(d.data) \in Nat /\ Len(d.rest) \in Nat
      /\ Append(d.data, i) \in D /\ Append(d.rest, i) \in D
      /\ Len(Append(d.data, i)) = Len(d.data) + 1 /\ Len(Append(d.rest, i)) = Len(d.rest) + 1
  BY DEF Decoders
<1>1a. Len(d.data) \in Nat /\ Len(d.rest) \in Nat
  BY <1>1
<1>1b. /\ Len(d.data) + Len(d.rest) <= Len(d.data) + Len(d.rest) + 1
       /\ Len(Append(d.data, i)) + Len(d.rest) <= Len(d.data) + Len(d.rest) + 1
       /\ Len(d.data) + Len(Append(d.rest, i)) <= Len(d.data) + Len(d.rest) + 1
  <2>1. \A x, y \in Nat : x + y <= x + y + 1 /\ (x + 1) + y <= x + y + 1 /\ x + (y + 1) <= x + y + 1
    OBVIOUS
  <2> QED BY <1>1, <1>1a, <2>1, Zenon
<1>2. b.v \in Nat
  BY DEF WireBytes
<1> HIDE DEF D, b
<1>3. ASSUME NEW x, x.data = d.data, x.rest = d.rest, x \in Decoders, d.ret = "again"
      PROVE  P(x)
  BY <1>1b, <1>3, Zenon
<1>4. ASSUME d.ret # "again" PROVE P([d EXCEPT !.rest = Append(@, i)])
  <2> DEFINE x == [d EXCEPT !.rest = Append(d.rest, i)]
  <2>1. x \in Decoders /\ x.data = d.data /\ x.rest = Append(d.rest, i) /\ x.ret = d.ret
    BY <1>1 DEF Decoders, D
  <2> HIDE DEF x
  <2>2. P(x)
    BY <1>1b, <1>4, <2>1, Zenon
  <2> QED BY <2>2 DEF x
<1>5. ASSUME d.ret = "again" PROVE P([d EXCEPT !.ret = "error"]) /\ P([d EXCEPT !.ret = "ok"])
  <2> DEFINE x == [d EXCEPT !.ret = "error"]
             y == [d EXCEPT !.ret = "ok"]
  <2>1. x \in Decoders /\ x.data = d.data /\ x.rest = d.rest
    BY <1>1 DEF Decoders, D
  <2>2. y \in Decoders /\ y.data = d.data /\ y.rest = d.rest
    BY <1>1 DEF Decoders, D
  <2> HIDE DEF x, y
  <2>3. P(x) /\ P(y)
    BY <1>3, <1>5, <2>1, <2>2
  <2> QED BY <2>3 DEF x, y
<1>6. ASSUME d.ret = "again" PROVE P([d EXCEPT !.left = 16 * @ + b.v, !.hex = @ + 1])
  <2> DEFINE l == 16 * d.left + b.v
             h == d.hex + 1
             x == [d EXCEPT !.left = l, !.hex = h]
  <2>1. l \in Int /\ h \in Int
    BY <1>1, <1>2
  <2> HIDE DEF l, h
  <2>2. x \in Decoders /\ x.data = d.data /\ x.rest = d.rest
    BY <1>1, <2>1 DEF Decoders, D
  <2> HIDE DEF x
  <2>3. P(x)
    BY <1>3, <1>6, <2>2
  <2> QED BY <2>3 DEF x, l, h
<1>7. ASSUME NEW st \in {"size", "ext", "data", "crlf", "trailer", "middle"}, d.ret = "again"
      PROVE  P([d EXCEPT !.state = st, !.hex = 0]) /\ P([d EXCEPT !.state = st])
  <2> DEFINE h == 0
             x == [d EXCEPT !.state = st, !.hex = h]
             y == [d EXCEPT !.state = st]
  <2>0. h \in Int
    OBVIOUS
  <2> HIDE DEF h
  <2>1. x \in Decoders /\ x.data = d.data /\ x.rest = d.rest
    BY <1>1, <2>0 DEF Decoders, D
  <2>2. y \in Decoders /\ y.data = d.data /\ y.rest = d.rest
    BY <1>1 DEF Decoders, D
  <2> HIDE DEF x, y
  <2>3. P(x) /\ P(y)
    BY <1>3, <1>7, <2>1, <2>2
  <2> QED BY <2>3 DEF x, y, h
<1>8. ASSUME NEW st \in {"size", "ext", "data", "crlf", "trailer", "middle"}, d.ret = "again"
      PROVE  P([d EXCEPT !.data = Append(@, i), !.left = @ - 1, !.state = st])
  <2> DEFINE l == d.left - 1
             t == Append(d.data, i)
             x == [d EXCEPT !.data = t, !.left = l, !.state = st]
  <2>1. l \in Int /\ t \in D /\ Len(t) + Len(d.rest) <= Len(d.data) + Len(d.rest) + 1
    <3>1. l \in Int
      BY <1>1
    <3> QED BY <1>1, <1>1b, <3>1, Zenon
  <2> HIDE DEF l, t
  <2>2. x \in Decoders /\ x.data = t /\ x.rest = d.rest
    BY <1>1, <2>1 DEF Decoders, D
  <2> HIDE DEF x
  <2>3. P(x)
    BY <1>8, <2>1, <2>2, Zenon
  <2> QED BY <2>3 DEF x, l, t
<1>9. P(d)
  BY <1>1b, Zenon
<1>10. ASSUME d.ret = "again" PROVE P(DecodeExt(d, b))
  <2> HIDE DEF P
  <2>1. CASE b.k = "n"
    BY <1>7, <1>10, <2>1 DEF DecodeExt
  <2>2. CASE b.k # "n"
    BY <1>7, <1>10, <2>2 DEF DecodeExt
  <2> QED BY <2>1, <2>2
<1> HIDE DEF P
<1>11. P(e)
  <2>1. CASE d.ret # "again"
    BY <1>4, <2>1 DEF DecodeByte
  <2>2. CASE d.ret = "again" /\ d.state = "size" /\ b.k = "s"
    BY <1>5, <1>6, <2>2 DEF DecodeByte, b
  <2>3. CASE d.ret = "again" /\ d.state = "size" /\ b.k # "s"
    BY <1>5, <1>10, <2>3 DEF DecodeByte, b
  <2>4. CASE d.ret = "again" /\ d.state = "ext"
    BY <1>10, <2>4 DEF DecodeByte, b
  <2>5. CASE d.ret = "again" /\ d.state = "data"
    BY <1>8, <2>5 DEF DecodeByte, b
  <2>6. CASE d.ret = "again" /\ d.state = "crlf"
    BY <1>5, <1>7, <2>6 DEF DecodeByte, b
  <2>7. CASE d.ret = "again" /\ d.state = "trailer"
    BY <1>5, <1>7, <2>7 DEF DecodeByte, b
  <2>8. CASE d.ret = "again" /\ d.state = "middle"
    BY <1>7, <1>9, <2>8 DEF DecodeByte, b
  <2> QED BY <1>1, <2>1, <2>2, <2>3, <2>4, <2>5, <2>6, <2>7, <2>8
<1> QED BY <1>11 DEF P

\* The decoder takes some bytes, leaves some over once it has ended, and says
\* that it needs more only when none is left over.
LEMMA DecodeFacts ==
    ASSUME NEW d \in Decoders, NEW data \in Seq(Places),
           \A i \in Places : wire[i] \in WireBytes
    PROVE  LET e == PhrDecodeChunked(d, data) IN
           /\ e \in Decoders
           /\ Len(e.data) + Len(e.rest) <= Len(data)
           /\ e.ret = "again" => e.rest = <<>>
<1> DEFINE N == Len(data)
           d0 == [d EXCEPT !.ret = "again", !.data = <<>>, !.rest = <<>>]
           Step(x, n) == CHOOSE next \in {DecodeByte(before, data[n]) : before \in {x}} : TRUE
           F(f) == f = [n \in 0..N |-> IF n = 0 THEN d0 ELSE Step(f[n - 1], n)]
           G(f, m) == f[0] = d0 /\ \A n \in 1..m : f[n] = DecodeByte(f[n - 1], data[n])
           Some(m) == \E f : f = [n \in 0..m |-> f[n]] /\ G(f, m)
           h == CHOOSE f : F(f)
<1>1. N \in Nat /\ \A n \in 1..N : data[n] \in Places
  OBVIOUS
<1>2. ASSUME NEW x, NEW n PROVE Step(x, n) = DecodeByte(x, data[n])
  <2> DEFINE y == DecodeByte(x, data[n])
  <2>1. {DecodeByte(before, data[n]) : before \in {x}} = {y}
    BY Zenon
  <2> HIDE DEF y
  <2>2. Step(x, n) \in {y}
    BY <2>1
  <2> QED BY <2>2 DEF y
<1>3. PhrDecodeChunked(d, data) = h[N]
  BY Zenon DEF PhrDecodeChunked
<1>4. d0 \in Decoders /\ d0.data = <<>> /\ d0.rest = <<>>
  <2> DEFINE D == Seq(Places)
             nil == <<>>
  <2>1. nil \in D
    OBVIOUS
  <2> HIDE DEF D, nil
  <2>2. /\ [d EXCEPT !.ret = "again", !.data = nil, !.rest = nil] \in Decoders
        /\ [d EXCEPT !.ret = "again", !.data = nil, !.rest = nil].data = nil
        /\ [d EXCEPT !.ret = "again", !.data = nil, !.rest = nil].rest = nil
    BY <2>1 DEF Decoders, D
  <2> QED BY <2>2, Zenon DEF nil
<1> HIDE DEF N, d0, Step
\* The function exists.
<1>5. Some(0)
  <2> DEFINE f == [n \in 0..0 |-> d0]
  <2>1. f = [n \in 0..0 |-> f[n]] /\ f[0] = d0 /\ 1..0 = {}
    OBVIOUS
  <2> HIDE DEF f
  <2> QED BY <2>1, Zenon
<1>6. ASSUME NEW m \in Nat, Some(m) PROVE Some(m + 1)
  <2>1. PICK f : f = [n \in 0..m |-> f[n]] /\ G(f, m)
    BY <1>6
  <2> DEFINE x == DecodeByte(f[m], data[m + 1])
             g == [n \in 0..m + 1 |-> IF n = m + 1 THEN x ELSE f[n]]
  <2>2. /\ g = [n \in 0..m + 1 |-> g[n]] /\ g[m + 1] = x /\ \A n \in 0..m : g[n] = f[n]
    <3> HIDE DEF x
    <3> QED OBVIOUS
  <2> HIDE DEF g
  <2>3. g[0] = d0
    <3>1. 0 \in 0..m
      OBVIOUS
    <3> QED BY <2>1, <2>2, <3>1, Zenon
  <2>4. ASSUME NEW n \in 1..m + 1 PROVE g[n] = DecodeByte(g[n - 1], data[n])
    <3>1. CASE n = m + 1
      <4>1. n - 1 = m /\ m \in 0..m
        BY <3>1
      <4>2. g[n - 1] = f[m]
        BY <2>2, <4>1
      <4> QED BY <2>2, <3>1, <4>2, Zenon
    <3>2. CASE n # m + 1
      <4>1. n \in 1..m /\ n \in 0..m /\ n - 1 \in 0..m
        BY <3>2
      <4>2. g[n] = f[n] /\ g[n - 1] = f[n - 1]
        BY <2>2, <4>1
      <4> QED BY <2>1, <4>1, <4>2, Zenon
    <3> QED BY <3>1, <3>2
  <2>5. G(g, m + 1)
    BY <2>3, <2>4, Zenon
  <2> HIDE DEF G
  <2> QED BY <2>2, <2>5, Zenon
<1>7. Some(N)
  <2> DEFINE T == {m \in Nat : Some(m)}
  <2> HIDE DEF Some
  <2>1. T \subseteq Nat /\ 0 \in T /\ \A n \in T : n + 1 \in T
    BY <1>5, <1>6
  <2> HIDE DEF T
  <2>2. T = Nat
    BY <2>1, SetInduction
  <2> QED BY <1>1, <2>2 DEF T
<1>8. PICK f : f = [n \in 0..N |-> f[n]] /\ G(f, N)
  BY <1>7
<1>9. F(f)
  <2>1. ASSUME NEW n \in 0..N PROVE f[n] = IF n = 0 THEN d0 ELSE Step(f[n - 1], n)
    <3>1. CASE n = 0
      BY <1>8, <3>1
    <3>2. CASE n # 0
      <4>1. n \in 1..N
        BY <1>1, <3>2
      <4>2. f[n] = DecodeByte(f[n - 1], data[n])
        BY <1>8, <4>1, Zenon
      <4>3. Step(f[n - 1], n) = DecodeByte(f[n - 1], data[n])
        BY <1>2
      <4> QED BY <3>2, <4>2, <4>3, Zenon
    <3> QED BY <3>1, <3>2
  <2>2. [n \in 0..N |-> f[n]] = [n \in 0..N |-> IF n = 0 THEN d0 ELSE Step(f[n - 1], n)]
    BY <2>1, Zenon
  <2> QED BY <1>8, <2>2, Zenon
<1>10. F(h)
  <2> HIDE DEF F
  <2> QED BY <1>9
<1> HIDE DEF h
\* What it gives for each number of bytes.
<1>11. h[0] = d0 /\ \A n \in 1..N : h[n] = DecodeByte(h[n - 1], data[n])
  <2>1. \A n \in 0..N : h[n] = IF n = 0 THEN d0 ELSE Step(h[n - 1], n)
    BY <1>10, Zenon
  <2>2. 0 \in 0..N /\ \A n \in 1..N : n \in 0..N /\ n # 0
    BY <1>1
  <2> QED BY <1>2, <2>1, <2>2, Zenon
<1> DEFINE Ok(n) == /\ h[n] \in Decoders
                    /\ Len(h[n].data) + Len(h[n].rest) <= n
                    /\ h[n].ret = "again" => h[n].rest = <<>>
           U == {n \in Nat : n \in 0..N => Ok(n)}
<1>12. Ok(0)
  <2> DEFINE nil == <<>>
  <2>1. Len(nil) + Len(nil) <= 0
    OBVIOUS
  <2> QED BY <1>4, <1>11, <2>1, Zenon DEF nil
<1>12a. \A z \in Decoders : Len(z.data) \in Nat /\ Len(z.rest) \in Nat
  BY DEF Decoders
<1>13. ASSUME NEW n \in Nat, n + 1 \in 0..N, Ok(n) PROVE Ok(n + 1)
  <2> DEFINE x == h[n]
             y == h[n + 1]
             i == data[n + 1]
  <2>1. n + 1 \in 1..N /\ (n + 1) - 1 = n
    BY <1>1, <1>13
  <2>2. i \in Places /\ y = DecodeByte(x, i) /\ wire[i] \in WireBytes
    BY <1>1, <1>11, <2>1
  <2>3. x \in Decoders
    BY <1>13
  <2>4. /\ y \in Decoders
        /\ Len(y.data) + Len(y.rest) <= Len(x.data) + Len(x.rest) + 1
        /\ x.rest = <<>> /\ y.ret = "again" => y.rest = <<>>
        /\ x.ret # "again" => y.ret = x.ret
    BY <2>2, <2>3, DecodeByteFacts, ZenonT(60)
  <2>5. /\ Len(x.data) \in Nat /\ Len(x.rest) \in Nat /\ Len(y.data) \in Nat /\ Len(y.rest) \in Nat
    BY <1>12a, <2>3, <2>4, Zenon
  <2>6. Len(y.data) + Len(y.rest) <= n + 1
    <3>1. \A a, b, c, e \in Nat : a + b <= n /\ c + e <= a + b + 1 => c + e <= n + 1
      OBVIOUS
    <3> QED BY <1>13, <2>4, <2>5, <3>1, Zenon
  <2>7. y.ret = "again" => y.rest = <<>>
    BY <1>13, <2>4, Zenon
  <2> QED BY <2>4, <2>6, <2>7, Zenon
<1>14. U = Nat
  <2> HIDE DEF Ok
  <2>1. U \subseteq Nat /\ 0 \in U
    BY <1>12
  <2>2. ASSUME NEW n \in U PROVE n + 1 \in U
    <3> SUFFICES ASSUME n + 1 \in 0..N PROVE Ok(n + 1)
      OBVIOUS
    <3>1. n \in Nat /\ n \in 0..N
      BY <1>1
    <3> QED BY <1>13, <2>2, <3>1
  <2> HIDE DEF U
  <2> QED BY <2>1, <2>2, SetInduction
<1>15. Ok(N)
  <2>1. \A m \in Nat : m \in 0..m
    OBVIOUS
  <2>2. N \in U /\ N \in 0..N
    BY <1>1, <1>14, <2>1, Zenon
  <2> HIDE DEF Ok
  <2> QED BY <2>2, Zenon
<1> QED BY <1>3, <1>15, Zenon DEF N
-----------------------------------------------------------------------------
(* Reading.                                                                *)

\* recv() returns no more than there is room for, and than has arrived; it
\* returns nothing only at the end of the stream or without room.
LEMMA RecvFacts ==
    ASSUME sent \in Nat, got \in 0..sent, fin \in BOOLEAN, NEW room \in Nat
    PROVE  /\ \A n \in Recv(room) \ {0, -2} : n \in 1..room /\ got + n \in 0..sent
           /\ 0 \in Recv(room) => fin \/ room = 0
<1> DEFINE empty == sent = got /\ ~fin
           m == Min({room, sent - got})
<1>1. CASE room = 0
  BY <1>1 DEF Recv
<1>2. CASE room # 0
  <2>1. Recv(room) = {IF empty THEN -2 ELSE m}
    BY <1>2 DEF Recv
  <2>2. m \in {room, sent - got} /\ \A y \in {room, sent - got} : m <= y
    <3>1. {room, sent - got} \subseteq Nat /\ {room, sent - got} # {}
      OBVIOUS
    <3> QED BY <3>1, MinFacts
  <2> HIDE DEF m
  <2>3. m \in Nat /\ m <= room /\ m <= sent - got /\ (m = 0 => sent = got)
    BY <1>2, <2>2
  <2> QED BY <1>2, <2>1, <2>3
<1> QED BY <1>1, <1>2

\* n bytes are added to a buffer that has room for them.
LEMMA ReadFacts ==
    ASSUME NEW b, IsBuffer(b), NEW n \in Nat, n <= Free(b),
           sent \in 0..Len(wire), got \in 0..sent, got + n \in 0..sent, Len(wire) \in Nat
    PROVE  /\ IsBuffer(ReadInto(b, n))
           /\ Len(ReadInto(b, n).data) = Len(b.data) + n
           /\ ReadInto(b, n).cap = b.cap
           /\ ReadInto(b, n).off = b.off
           /\ Free(ReadInto(b, n)) = Free(b) - n
           /\ n = 0 => ReadInto(b, n).data = b.data
<1> DEFINE all == [i \in 1..sent |-> i]
           t == SubSeq(all, got + 1, got + n)
           s == b.data \o t
<1>1. all \in Seq(1..sent) /\ Len(all) = sent
  <2>1. all \in [1..sent -> 1..sent] /\ sent \in Nat
    OBVIOUS
  <2> QED BY <2>1, IntervalSeq
<1> HIDE DEF all
<1>2. t \in Seq(1..sent) /\ Len(t) = n
  BY <1>1, SubSeqProperties
<1>3. t \in Seq(Places)
  <2>1. 1..sent \subseteq Places
    BY DEF Places
  <2> QED BY <1>2, <2>1, LargerSeq
<1>4. b \in Buffers /\ b.data \in Seq(Places) /\ Len(b.data) \in Nat /\ b.cap \in Nat /\ b.off \in Nat
  BY DEF IsBuffer, Buffers, Places
<1>5. s \in Seq(Places) /\ Len(s) = Len(b.data) + n
  <2> HIDE DEF t
  <2> QED BY <1>2, <1>3, <1>4, ConcatProperties
<1>6. n = 0 => s = b.data
  <2> HIDE DEF t
  <2>1. \A u \in Seq(Places) : Len(u) = 0 => b.data \o u = b.data
    BY <1>4
  <2> QED BY <1>2, <1>3, <2>1
<1>7. ReadInto(b, n) = [b EXCEPT !.data = s]
  BY DEF ReadInto, Taken, all
<1> HIDE DEF s
<1>8. Len(s) + b.off <= b.cap /\ b.cap - Len(s) - b.off = Free(b) - n
  BY <1>4, <1>5 DEF Free
<1> QED BY <1>5, <1>6, <1>7, <1>8, FilledFacts, SMTT(30)
-----------------------------------------------------------------------------
(* The parsers of bodies.                                                  *)

\* The request body is a record of five fields.
SameBody(r, x) == x.buf = r.buf /\ x.split = r.split

LEMMA RestField ==
    ASSUME NEW r \in RequestBodies, NEW n \in Int
    PROVE  LET x == [r EXCEPT !.rest = n] IN
           x \in RequestBodies /\ SameBody(r, x) /\ x.rest = n /\ x.dl = r.dl /\ x.dec = r.dec
  BY DEF RequestBodies, SameBody

LEMMA RestDlField ==
    ASSUME NEW r \in RequestBodies, NEW n \in Int, NEW m \in Nat
    PROVE  LET x == [r EXCEPT !.rest = n, !.dl = m] IN
           x \in RequestBodies /\ SameBody(r, x) /\ x.rest = n /\ x.dl = m /\ x.dec = r.dec
  BY DEF RequestBodies, SameBody

LEMMA DlDecField ==
    ASSUME NEW r \in RequestBodies, NEW m \in Nat, NEW e \in Decoders
    PROVE  LET x == [r EXCEPT !.dl = m, !.dec = e] IN
           x \in RequestBodies /\ SameBody(r, x) /\ x.rest = r.rest /\ x.dl = m
  BY DEF RequestBodies, SameBody

LEMMA SplitField ==
    ASSUME NEW r \in RequestBodies, NEW b \in Buffers
    PROVE  LET x == [r EXCEPT !.split = TRUE, !.buf = b] IN
           x \in RequestBodies /\ x.buf = b /\ x.split = TRUE /\ x.rest = r.rest /\ x.dl = r.dl
  BY DEF RequestBodies

LEMMA BufField ==
    ASSUME NEW r \in RequestBodies, NEW b \in Buffers
    PROVE  LET x == [r EXCEPT !.buf = b] IN
           x \in RequestBodies /\ x.buf = b /\ x.split = r.split /\ x.rest = r.rest /\ x.dl = r.dl
  BY DEF RequestBodies

\* How much of the buffer is not the body.
Skip(r, q) == IF r.split THEN 0 ELSE q.rl

\* What pgrest_http_body_length gives.
LengthParsed(b, r, q, p) ==
    /\ p.ret \in {"ok", "again", "error"}
    /\ p.buf = b
    /\ p.status # "eof"
    /\ p.rb \in RequestBodies /\ SameBody(r, p.rb) /\ p.rb.dl = r.dl
    /\ p.ret # "error" => Len(b.data) - Skip(r, q) <= MaxBody
    /\ p.ret = "again" => Len(b.data) - Skip(r, q) < q.len /\ p.rb.rest = q.len
    /\ p.ret = "ok" => p.entity \in Seq(Places) /\ Skip(r, q) + Len(p.entity) <= Len(b.data)

LEMMA LengthFacts ==
    ASSUME NEW b, IsBuffer(b), NEW r \in RequestBodies, NEW q \in Requests,
           q.len >= 0, r.rest \in {-1, q.len}
    PROVE  LengthParsed(b, r, q, BodyLength(b, r, q))
<1> DEFINE skip == Skip(r, q)
           size == Len(b.data) - skip
           r0 == IF r.rest = -1 THEN [r EXCEPT !.rest = q.len] ELSE r
           r1 == [r0 EXCEPT !.rest = 0]
           entity == SubSeq(b.data, skip + 1, skip + q.len)
           p == BodyLength(b, r, q)
           E == Parsed("error", b, r, <<>>, "413")
           A == Parsed("again", b, r0, <<>>, "")
           O == Parsed("ok", b, r1, entity, "")
<1>1. /\ b.data \in Seq(Places) /\ Len(b.data) \in Nat /\ q.len \in Nat /\ q.rl \in Nat
      /\ MaxBody \in Nat /\ r.rest \in Int
  BY HttpReadAssumption DEF HttpReadAssumption, IsBuffer, Buffers, Places, Requests, RequestBodies
<1>2. skip \in Nat
  BY <1>1 DEF Skip
<1>3. r0 \in RequestBodies /\ SameBody(r, r0) /\ r0.dl = r.dl /\ r0.rest = q.len
  <2>1. CASE r.rest = -1
    <3> DEFINE x == [r EXCEPT !.rest = q.len]
    <3>1. q.len \in Int
      BY <1>1
    <3>3. x \in RequestBodies /\ SameBody(r, x) /\ x.dl = r.dl /\ x.rest = q.len
      BY <3>1, RestField, Zenon
    <3>4. r0 = x
      BY <2>1, Zenon
    <3> HIDE DEF x, r0
    <3> QED BY <3>3, <3>4
  <2>2. CASE r.rest # -1
    BY <2>2 DEF SameBody
  <2> QED BY <2>1, <2>2
<1> HIDE DEF r0
<1>4. r1 \in RequestBodies /\ SameBody(r0, r1) /\ r1.dl = r0.dl
  <2>1. 0 \in Int
    OBVIOUS
  <2> QED BY <1>3, <2>1, RestField, Zenon
<1>5. SameBody(r, r1) /\ SameBody(r, r)
  BY <1>3, <1>4 DEF SameBody
<1> HIDE DEF r1, skip
<1>6. p = CASE MaxBody < size -> E [] MaxBody >= size /\ size < r0.rest -> A [] OTHER -> O
  BY Zenon DEF BodyLength, skip, Skip, r0, r1
<1>7. size \in Int
  BY <1>1, <1>2
<1> HIDE DEF p, E, A, O
<1>8. CASE MaxBody < size
  <2>1. p = E
    BY <1>1, <1>3, <1>6, <1>7, <1>8
  <2>2. p.ret = "error" /\ p.buf = b /\ p.status = "413" /\ p.rb = r
    BY <2>1 DEF Parsed, E
  <2> QED BY <1>5, <2>2 DEF LengthParsed, p
<1>9. CASE MaxBody >= size /\ size < q.len
  <2>1. p = A
    BY <1>1, <1>3, <1>6, <1>7, <1>9
  <2>2. p.ret = "again" /\ p.buf = b /\ p.status = "" /\ p.rb = r0
    BY <2>1 DEF Parsed, A
  <2> QED BY <1>3, <1>1, <1>7, <1>9, <2>2 DEF LengthParsed, p, skip
<1>10. CASE MaxBody >= size /\ size >= q.len
  <2>1. p = O
    BY <1>1, <1>3, <1>6, <1>7, <1>10
  <2>2. p.ret = "ok" /\ p.buf = b /\ p.status = "" /\ p.rb = r1 /\ p.entity = entity
    <3> HIDE DEF entity
    <3> QED BY <2>1 DEF Parsed, O
  <2>3. entity \in Seq(Places) /\ Len(entity) = q.len
    <3>1. skip + q.len <= Len(b.data)
      BY <1>1, <1>2, <1>10
    <3>2. b.data \in Seq(Places) /\ skip \in Nat /\ q.len \in Nat
      BY <1>1, <1>2
    <3> QED BY <3>1, <3>2, CutFacts, Zenon
  <2> HIDE DEF entity
  <2>4. skip + Len(entity) <= Len(b.data)
    BY <1>1, <1>2, <1>10, <2>3
  <2> QED BY <1>1, <1>3, <1>4, <1>5, <1>7, <1>10, <2>2, <2>3, <2>4 DEF LengthParsed, p, skip
<1> QED BY <1>1, <1>7, <1>8, <1>9, <1>10

\* How much of the buffer has been decoded before.
DecodedBefore(r, q) == IF r.rest = -1 THEN IF r.split THEN 0 ELSE q.rl ELSE r.dl

\* What pgrest_http_body_chunked gives.
ChunkedParsed(b, r, q, p) ==
    /\ p.ret \in {"ok", "again", "error", "wild"}
    /\ p.ret = "wild" => Len(b.data) < DecodedBefore(r, q)
    /\ p.status # "eof"
    /\ p.rb \in RequestBodies /\ SameBody(r, p.rb) /\ p.rb.rest # -1
    /\ p.ret \in {"error", "wild"} => p.buf = b
    /\ IsBuffer(p.buf) /\ p.buf.cap = b.cap /\ p.buf.off = b.off
    /\ Len(p.buf.data) <= Len(b.data)
    /\ p.ret = "again" => /\ p.rb.dl = Len(p.buf.data)
                          /\ p.rb.dl >= DecodedBefore(r, q)
                          /\ r.split => p.rb.dl \in {0, DecodedBefore(r, q)}
    /\ p.ret = "ok" => /\ p.entity \in Seq(Places)
                       /\ r.split => DecodedBefore(r, q) = 0
                       /\ ~r.split => q.rl + Len(p.entity) <= Len(p.buf.data)

LEMMA ChunkedFacts ==
    ASSUME NEW b, IsBuffer(b), NEW r \in RequestBodies, NEW q \in Requests,
           ~r.split => r.rest = -1,
           \A i \in Places : wire[i] \in WireBytes
    PROVE  ChunkedParsed(b, r, q, BodyChunked(b, r, q))
<1> DEFINE dl0 == DecodedBefore(r, q)
           L == Len(b.data)
           r0 == IF r.rest = -1 THEN [r EXCEPT !.rest = 3, !.dl = IF r.split THEN 0 ELSE q.rl] ELSE r
           size == L - r0.dl
           decoded(d) == SubSeq(b.data, 1, r0.dl) \o d.data
           r1(d) == [r0 EXCEPT !.dl = Len(decoded(d)), !.dec = [d EXCEPT !.data = <<>>, !.rest = <<>>]]
           b1(d) == [b EXCEPT !.data = decoded(d) \o d.rest]
           big(d) == IF r.split THEN decoded(d) # <<>> ELSE Len(decoded(d)) - q.rl >= MaxBody
           entity(d) == IF r.split THEN decoded(d) ELSE SubSeq(decoded(d), q.rl + 1, Len(decoded(d)))
           Result(d) ==
               CASE d.ret = "error" -> Parsed("error", b, r0, <<>>, "400")
                 [] d.ret # "error" /\ big(d) -> Parsed("error", b, r1(d), <<>>, "413")
                 [] d.ret = "again" /\ ~big(d) -> Parsed("again", b1(d), r1(d), <<>>, "")
                 [] OTHER -> Parsed("ok", b1(d), [r1(d) EXCEPT !.rest = 0], entity(d), "")
           x == PhrDecodeChunked(r0.dec, SubSeq(b.data, r0.dl + 1, Len(b.data)))
           Y == Parsed("again", b, r0, <<>>, "")
           W == Parsed("wild", b, r0, <<>>, "")
           Z == CHOOSE p \in {Result(d) : d \in {x}} : TRUE
           p == BodyChunked(b, r, q)
<1>1. /\ b \in Buffers /\ b.data \in Seq(Places) /\ L \in Nat /\ q.rl \in Nat
      /\ MaxBody \in Nat /\ r.rest \in Int /\ r.dl \in Nat /\ r.dec \in Decoders
      /\ b.cap \in Nat /\ b.off \in Nat /\ Free(b) = b.cap - L - b.off /\ Free(b) >= 0
  BY HttpReadAssumption DEF HttpReadAssumption, IsBuffer, Buffers, Places, Requests, RequestBodies, Free
<1>2. dl0 \in Nat
  BY <1>1 DEF DecodedBefore
<1>3. r0 \in RequestBodies /\ SameBody(r, r0) /\ r0.rest # -1 /\ r0.dl = dl0 /\ r0.dec \in Decoders
  <2>1. CASE r.rest = -1
    <3> DEFINE m == IF r.split THEN 0 ELSE q.rl
               k == 3
               z == [r EXCEPT !.rest = k, !.dl = m]
    <3>1. k \in Int /\ k # -1 /\ m \in Nat /\ m = dl0
      BY <1>1, <2>1 DEF DecodedBefore
    <3>2. r0 = z
      BY <2>1, Zenon
    <3> HIDE DEF k, m, r0
    <3>3. z \in RequestBodies /\ SameBody(r, z) /\ z.rest = k /\ z.dl = m /\ z.dec = r.dec
      BY <3>1, RestDlField, ZenonT(60)
    <3> HIDE DEF z
    <3> QED BY <1>1, <3>1, <3>2, <3>3
  <2>2. CASE r.rest # -1
    <3>1. r0 = r /\ dl0 = r.dl
      BY <2>2 DEF DecodedBefore
    <3> HIDE DEF r0, dl0
    <3> QED BY <1>1, <2>2, <3>1 DEF SameBody
  <2> QED BY <2>1, <2>2
<1>4. p = CASE size = 0 -> Y [] size < 0 -> W [] OTHER -> Z
  BY Zenon DEF BodyChunked
<1>5. Z = Result(x)
  <2> HIDE DEF Result, x
  <2> DEFINE y == Result(x)
  <2>1. {Result(d) : d \in {x}} = {y}
    BY Zenon
  <2> HIDE DEF y
  <2>2. Z \in {y}
    BY <2>1
  <2> QED BY <2>2 DEF y
<1> HIDE DEF r0, p, Y, W, Z, x, Result, dl0, L
<1>6. size \in Int /\ (size = 0 <=> L = dl0) /\ (size < 0 <=> L < dl0)
  BY <1>1, <1>2, <1>3
<1>7. CASE size = 0
  <2>1. p = Y
    BY <1>4, <1>7
  <2>2. p.ret = "again" /\ p.buf = b /\ p.rb = r0 /\ p.status = ""
    BY <2>1 DEF Y, Parsed
  <2>3. Len(b.data) <= Len(b.data) /\ r0.dl = Len(b.data) /\ r0.dl >= dl0 /\ r0.dl \in {0, dl0}
    BY <1>1, <1>2, <1>3, <1>6, <1>7 DEF L
  <2> QED BY <1>3, <2>2, <2>3, Zenon DEF ChunkedParsed, p, dl0
<1>8. CASE size < 0
  <2>1. p = W
    BY <1>4, <1>6, <1>8
  <2>2. p.ret = "wild" /\ p.buf = b /\ p.rb = r0 /\ p.status = ""
    BY <2>1 DEF W, Parsed
  <2>3. Len(b.data) <= Len(b.data) /\ Len(b.data) < dl0
    BY <1>1, <1>2, <1>6, <1>8 DEF L
  <2> QED BY <1>3, <2>2, <2>3, Zenon DEF ChunkedParsed, p, dl0
<1>9. CASE size > 0
  <2>1. p = Result(x)
    BY <1>4, <1>5, <1>6, <1>9
  <2>2. dl0 < L /\ L - dl0 \in Nat
    BY <1>1, <1>2, <1>6, <1>9
  <2> DEFINE todo == SubSeq(b.data, dl0 + 1, L)
             done == SubSeq(b.data, 1, dl0)
             dec == done \o x.data
             data == dec \o x.rest
             e == [x EXCEPT !.data = <<>>, !.rest = <<>>]
             n == Len(dec)
  <2>3. todo \in Seq(Places) /\ Len(todo) = L - dl0
    <3>1. dl0 \in 0..L
      BY <1>1, <1>2, <2>2
    <3> QED BY <1>1, <3>1, DropFacts DEF L
  <2>4. done \in Seq(Places) /\ Len(done) = dl0
    <3>1. dl0 <= Len(b.data)
      BY <1>1, <1>2, <2>2 DEF L
    <3> QED BY <1>1, <1>2, <3>1, PrefixFacts
  <2>5. /\ x \in Decoders /\ Len(x.data) + Len(x.rest) <= L - dl0
        /\ x.ret = "again" => x.rest = <<>>
    <3>1. x = PhrDecodeChunked(r0.dec, todo)
      BY <1>3, Zenon DEF x, L
    <3> HIDE DEF todo
    <3>2. /\ PhrDecodeChunked(r0.dec, todo) \in Decoders
          /\ Len(PhrDecodeChunked(r0.dec, todo).data) + Len(PhrDecodeChunked(r0.dec, todo).rest) <= Len(todo)
          /\ PhrDecodeChunked(r0.dec, todo).ret = "again" => PhrDecodeChunked(r0.dec, todo).rest = <<>>
      BY <1>3, <2>3, DecodeFacts, Zenon
    <3> QED BY <2>3, <3>1, <3>2, Zenon
  <2>6. /\ x.data \in Seq(Places) /\ x.rest \in Seq(Places) /\ Len(x.data) \in Nat /\ Len(x.rest) \in Nat
        /\ x.ret \in {"again", "ok", "error"}
    BY <2>5 DEF Decoders
  <2> HIDE DEF todo, done
  <2>7. dec \in Seq(Places) /\ n = dl0 + Len(x.data)
    BY <2>4, <2>6, ConcatProperties
  <2> HIDE DEF dec
  <2>8. data \in Seq(Places) /\ Len(data) = n + Len(x.rest)
    BY <2>6, <2>7, ConcatProperties
  <2>9. n \in Nat /\ n >= dl0 /\ Len(data) >= n /\ Len(data) <= L
    <3> HIDE DEF data, n
    <3> DEFINE i == Len(x.data)
               j == Len(x.rest)
    <3>2. i \in Nat /\ j \in Nat /\ L \in Nat /\ dl0 \in Nat /\ i + j <= L - dl0
          /\ n = dl0 + i /\ Len(data) = n + j
      BY <1>1, <1>2, <2>5, <2>6, <2>7, <2>8, Zenon
    <3> HIDE DEF i, j
    <3> QED BY <3>2
  <2> HIDE DEF n
  <2>10. e \in Decoders
    <3> DEFINE nil == <<>>
               D == Seq(Places)
    <3>1. nil \in D
      OBVIOUS
    <3> HIDE DEF nil, D
    <3>2. [x EXCEPT !.data = nil, !.rest = nil] \in Decoders
      BY <2>5, <3>1 DEF Decoders, D
    <3> QED BY <3>2, Zenon DEF nil
  <2> HIDE DEF e
  <2> DEFINE u == [r0 EXCEPT !.dl = n, !.dec = e]
             v == [u EXCEPT !.rest = 0]
             g == [b EXCEPT !.data = data]
             B == IF r.split THEN dec # <<>> ELSE n - q.rl >= MaxBody
             ent == IF r.split THEN dec ELSE SubSeq(dec, q.rl + 1, n)
             R1 == Parsed("error", b, r0, <<>>, "400")
             R2 == Parsed("error", b, u, <<>>, "413")
             R3 == Parsed("again", g, u, <<>>, "")
             R4 == Parsed("ok", g, v, ent, "")
  <2>11. Result(x) = CASE x.ret = "error" -> R1 [] x.ret # "error" /\ B -> R2
                       [] x.ret = "again" /\ ~B -> R3 [] OTHER -> R4
    BY <1>3, Zenon DEF Result, dec, done, e, n, data
  <2>12. u \in RequestBodies /\ SameBody(r0, u) /\ u.rest = r0.rest /\ u.dl = n
    BY <1>3, <2>9, <2>10, DlDecField, Zenon
  <2> HIDE DEF u
  <2>13. v \in RequestBodies /\ SameBody(u, v) /\ v.rest = 0 /\ v.dl = n
    <3>1. 0 \in Int
      OBVIOUS
    <3> QED BY <2>12, <3>1, RestField, Zenon
  <2> HIDE DEF v, data
  <2>14. IsBuffer(g) /\ g.data = data /\ g.cap = b.cap /\ g.off = b.off
    <3>1. Len(data) + b.off <= b.cap
      <4>1. Len(data) \in Nat
        BY <2>8
      <4> QED BY <1>1, <2>9, <4>1
    <3> QED BY <2>8, <3>1, FilledFacts, Zenon
  <2> HIDE DEF g
  <2>15. SameBody(r, u) /\ SameBody(r, v) /\ u.rest # -1 /\ v.rest # -1
    BY <1>3, <2>12, <2>13 DEF SameBody
  <2>16. Len(b.data) <= Len(b.data) /\ Len(g.data) <= Len(b.data)
    BY <1>1, <2>9, <2>14 DEF L
  <2> HIDE DEF B, ent, R1, R2, R3, R4
  <2>17. \/ p = R1
         \/ p = R2
         \/ p = R3 /\ x.ret = "again" /\ ~B
         \/ p = R4 /\ ~B
    BY <2>1, <2>6, <2>11
  <2>18. CASE p = R1
    <3>1. p.ret = "error" /\ p.buf = b /\ p.rb = r0 /\ p.status = "400"
      BY <2>18 DEF R1, Parsed
    <3> QED BY <1>3, <2>16, <3>1, Zenon DEF ChunkedParsed, p
  <2>19. CASE p = R2
    <3>1. p.ret = "error" /\ p.buf = b /\ p.rb = u /\ p.status = "413"
      BY <2>19 DEF R2, Parsed
    <3> QED BY <2>12, <2>15, <2>16, <3>1, Zenon DEF ChunkedParsed, p
  <2>20. ~B /\ r.split => dec = <<>> /\ n = 0 /\ dl0 = 0
    <3>1. dec = <<>> => n = 0
      BY DEF n
    <3> QED BY <1>2, <2>9, <3>1 DEF B
  <2>21. CASE p = R3 /\ x.ret = "again" /\ ~B
    <3>1. p.ret = "again" /\ p.buf = g /\ p.rb = u /\ p.status = ""
      BY <2>21 DEF R3, Parsed
    <3>2. Len(g.data) = n
      <4>1. Len(x.rest) = 0
        BY <2>5, <2>21
      <4> QED BY <2>8, <2>9, <2>14, <4>1
    <3> QED BY <2>9, <2>12, <2>14, <2>15, <2>16, <2>20, <2>21, <3>1, <3>2, Zenon DEF ChunkedParsed, p, dl0
  <2>22. CASE p = R4 /\ ~B
    <3>1. p.ret = "ok" /\ p.buf = g /\ p.rb = v /\ p.status = "" /\ p.entity = ent
      BY <2>22 DEF R4, Parsed
    <3>2. CASE r.split
      <4>1. ent \in Seq(Places)
        BY <2>7, <3>2 DEF ent
      <4> QED BY <2>13, <2>14, <2>15, <2>16, <2>20, <2>22, <3>1, <3>2, <4>1, Zenon DEF ChunkedParsed, p, dl0
    <3>3. CASE ~r.split
      <4>1. dl0 = q.rl
        BY <3>3 DEF dl0, DecodedBefore
      <4>2. q.rl \in 0..n
        BY <1>1, <2>9, <4>1
      <4>3. ent \in Seq(Places) /\ Len(ent) = n - q.rl
        BY <2>7, <3>3, <4>2, DropFacts DEF ent, n
      <4>4. q.rl + Len(ent) <= Len(g.data)
        <5>1. Len(g.data) >= n
          BY <2>9, <2>14
        <5>2. Len(g.data) \in Nat
          BY <2>8, <2>14
        <5> QED BY <1>1, <2>9, <4>3, <5>1, <5>2
      <4> QED BY <2>13, <2>14, <2>15, <2>16, <3>1, <3>3, <4>3, <4>4, Zenon DEF ChunkedParsed, p
    <3> QED BY <3>2, <3>3
  <2> QED BY <2>17, <2>18, <2>19, <2>21, <2>22
<1> QED BY <1>6, <1>7, <1>8, <1>9
-----------------------------------------------------------------------------
(* The parts of the invariant.                                             *)

LEMMA Limits ==
    /\ HeaderBuf \in Nat /\ HeaderBuf >= 1
    /\ MaxHeader \in Nat /\ MaxHeader >= 1
    /\ MaxHeaders \in Nat /\ MaxHeaders >= 1
    /\ BodyBuf \in Nat /\ BodyBuf >= 1
    /\ MaxBody \in Nat /\ MaxBody >= 1
    /\ Grow \in Nat /\ Grow >= 1
<1>1. {HeaderBuf, MaxHeader, MaxHeaders, BodyBuf, MaxBody, Grow} \subseteq Nat \ {0}
  BY HttpReadAssumption DEF HttpReadAssumption
<1> QED BY <1>1

\* The bounds of MemoryBounded, one by one.
HeadBound(c, o) ==
    \/ c <= HeaderBuf
    \/ c <= 2 * (MaxHeader + Grow)
    \/ o # <<>> /\ (c <= 4 * MaxHeader \/ c <= 2 * MaxBody \/ c <= 2 * BodyBuf)

BodyBound(c, h) ==
    \/ c <= BodyBuf
    \/ c <= 2 * (MaxBody + Grow)
    \/ c <= 2 * (h + Grow)

LEMMA BoundFacts ==
    ASSUME NEW h \in Nat, NEW c \in Nat, NEW o
    PROVE  LET first == Max({HeaderBuf, 2 * (MaxHeader + Grow)})
               later == Max({first, 4 * MaxHeader, 2 * MaxBody, 2 * BodyBuf}) IN
           /\ h <= (IF o = <<>> THEN first ELSE later) <=> HeadBound(h, o)
           /\ c <= Max({BodyBuf, 2 * (MaxBody + Grow), 2 * (h + Grow)}) <=> BodyBound(c, h)
<1> DEFINE first == Max({HeaderBuf, 2 * (MaxHeader + Grow)})
           later == Max({first, 4 * MaxHeader, 2 * MaxBody, 2 * BodyBuf})
           body == Max({BodyBuf, 2 * (MaxBody + Grow), 2 * (h + Grow)})
           f == 2 * (MaxHeader + Grow)
           x == 4 * MaxHeader
           y == 2 * MaxBody
           z == 2 * BodyBuf
           u == 2 * (MaxBody + Grow)
           v == 2 * (h + Grow)
<1>1. /\ f \in Nat /\ x \in Nat /\ y \in Nat /\ z \in Nat /\ u \in Nat /\ v \in Nat
      /\ HeaderBuf \in Nat /\ BodyBuf \in Nat /\ 0 \in Nat
  BY Limits
<1> HIDE DEF f, x, y, z, u, v
<1>2. Max({HeaderBuf, f}) \in Nat /\ \A n \in Nat : n <= Max({HeaderBuf, f}) <=> n <= HeaderBuf \/ n <= f
  BY <1>1, MaxOfTwo
<1>3. first \in Nat /\ \A n \in Nat : n <= first <=> n <= HeaderBuf \/ n <= f
  BY <1>2 DEF f
<1> HIDE DEF first
<1>4. \A n \in Nat : n <= Max({first, x, y, z}) <=> n <= first \/ n <= x \/ n <= y \/ n <= z
  <2> DEFINE m == Max({first, x, y, z})
  <2>1. m \in Nat /\ \A n \in Nat : n <= m <=> n <= first \/ n <= x \/ n <= y \/ n <= z
    BY <1>1, <1>3, MaxOfFour
  <2> QED BY <2>1
<1>5. \A n \in Nat : n <= later <=> n <= first \/ n <= x \/ n <= y \/ n <= z
  BY <1>4 DEF x, y, z
<1>6. \A n \in Nat : n <= Max({BodyBuf, u, v}) <=> n <= BodyBuf \/ n <= u \/ n <= v
  BY <1>1, MaxOfThree
<1>7. \A n \in Nat : n <= body <=> n <= BodyBuf \/ n <= u \/ n <= v
  BY <1>6 DEF u, v
<1> HIDE DEF later, body
<1>8. c <= body <=> BodyBound(c, h)
  BY <1>7 DEF BodyBound, u, v
<1>9. h <= (IF o = <<>> THEN first ELSE later) <=> HeadBound(h, o)
  <2>1. h <= first <=> h <= HeaderBuf \/ h <= f
    BY <1>3
  <2>2. h <= later <=> h <= first \/ h <= x \/ h <= y \/ h <= z
    BY <1>5
  <2>3. CASE o = <<>>
    BY <2>1, <2>3 DEF HeadBound, f
  <2>4. CASE o # <<>>
    BY <2>1, <2>2, <2>4 DEF HeadBound, f, x, y, z
  <2> QED BY <2>3, <2>4
<1> QED BY <1>8, <1>9 DEF first, later, body

\* What every state is made of.
Basic ==
    /\ Len(wire) \in Nat /\ sent \in 0..Len(wire) /\ sent \in Nat /\ got \in 0..sent
    /\ fin \in BOOLEAN /\ on \in BOOLEAN /\ timer \in BOOLEAN /\ ready \in BOOLEAN /\ parse \in BOOLEAN
    /\ pc \in Handlers \cup {"process", "http2", "closed"}
    /\ rev \in {"none", "added", "active"} /\ stale \in {"no", "freed", "unmapped"}
    /\ prev \in Nat /\ nh \in Nat
    /\ IsBuffer(hin)
    /\ req \in Requests
    /\ rb \in RequestBodies /\ Free(rb.buf) >= 0 /\ rb.buf.off = 0
    /\ out \in Seq(Delivered)
    /\ out = <<>> => hin.off = 0
    /\ HeadBound(hin.cap, out) /\ BodyBound(rb.buf.cap, hin.cap)
    /\ pc \in Handlers => on # (rev # "none")

LEMMA BasicFacts ==
    ASSUME ReadInv
    PROVE  Basic
<1>1. ShapeInv /\ TypeOK /\ HeaderInv /\ MemoryBounded
  BY DEF ReadInv
<1>2. Len(wire) \in Nat
  BY <1>1, WireType DEF ShapeInv
<1>3. sent \in 0..Len(wire) /\ sent \in Nat /\ got \in 0..sent
  BY <1>1, <1>2 DEF TypeOK
<1>4. /\ fin \in BOOLEAN /\ on \in BOOLEAN /\ timer \in BOOLEAN /\ ready \in BOOLEAN /\ parse \in BOOLEAN
      /\ pc \in Handlers \cup {"process", "http2", "closed"}
      /\ rev \in {"none", "added", "active"} /\ stale \in {"no", "freed", "unmapped"}
      /\ prev \in Nat /\ nh \in Nat
      /\ pc \in Handlers => on # (rev # "none")
  BY <1>1 DEF TypeOK, Handlers
<1>5. IsBuffer(hin) /\ Free(rb.buf) >= 0 /\ hin.cap \in Nat /\ rb.buf.cap \in Nat
  BY <1>1 DEF TypeOK, ShapeInv, IsBuffer, Buffers
<1>6. HeadBound(hin.cap, out) /\ BodyBound(rb.buf.cap, hin.cap)
  BY <1>1, <1>5, BoundFacts DEF MemoryBounded
<1>7. /\ req \in Requests /\ rb \in RequestBodies /\ rb.buf.off = 0 /\ out \in Seq(Delivered)
      /\ out = <<>> => hin.off = 0
  BY <1>1 DEF ShapeInv, HeaderInv
<1> QED BY <1>2, <1>3, <1>4, <1>5, <1>6, <1>7 DEF Basic

\* The parts of a next state that the types and the bounds are about.
NextBasic ==
    /\ pipe' = pipe
    /\ sent' \in 0..Len(wire) /\ got' \in 0..sent'
    /\ fin' \in BOOLEAN /\ on' \in BOOLEAN /\ timer' \in BOOLEAN /\ ready' \in BOOLEAN /\ parse' \in BOOLEAN
    /\ pc' \in Handlers \cup {"process", "http2", "closed"}
    /\ rev' \in {"none", "added", "active"} /\ stale' \in {"no", "freed", "unmapped"}
    /\ prev' \in Nat /\ nh' \in Nat
    /\ IsBuffer(hin')
    /\ req' \in Requests
    /\ rb' \in RequestBodies /\ Free(rb'.buf) >= 0 /\ rb'.buf.off = 0
    /\ out' \in Seq(Delivered)
    /\ HeadBound(hin'.cap, out') /\ BodyBound(rb'.buf.cap, hin'.cap)
    /\ pc' \in Handlers => on' # (rev' # "none")

LEMMA BasicKept ==
    ASSUME ReadInv, NextBasic
    PROVE  TypeOK' /\ ShapeInv' /\ MemoryBounded'
<1>1. pipe' = pipe /\ wire' = wire /\ Buffers' = Buffers /\ Requests' = Requests
      /\ RequestBodies' = RequestBodies /\ Delivered' = Delivered
  BY DEF NextBasic, wire, Buffers, Requests, RequestBodies, Decoders, Places, Delivered
<1>2. /\ hin' \in Buffers /\ hin'.cap >= 1 /\ Free(hin') >= 0 /\ hin'.cap \in Nat
      /\ rb'.buf \in Buffers /\ rb'.buf.cap \in Nat /\ rb'.dl \in Nat /\ rb'.split \in BOOLEAN
      /\ req'.rl \in Nat /\ req'.chunked \in BOOLEAN /\ req'.only \in BOOLEAN
  BY DEF NextBasic, IsBuffer, Buffers, RequestBodies, Requests
<1>3. ShapeInv'
  <2>1. pipe' \in {Sending(p) : p \in Pipelines}
    BY <1>1 DEF ReadInv, ShapeInv
  <2>2. /\ req' \in Requests' /\ rb' \in RequestBodies' /\ out' \in Seq(Delivered')
        /\ hin'.cap >= 1 /\ rb'.buf.off = 0
    BY <1>1, <1>2 DEF NextBasic
  <2> QED BY <2>1, <2>2, Zenon DEF ShapeInv
<1>4. MemoryBounded'
  <2>1. HeadBound(hin'.cap, out') /\ BodyBound(rb'.buf.cap, hin'.cap)
    BY DEF NextBasic
  <2> QED BY <1>2, <2>1, BoundFacts DEF MemoryBounded
<1>5. TypeOK'
  <2>1. sent' \in 0..Len(wire') /\ got' \in 0..sent'
    BY <1>1 DEF NextBasic
  <2>2. /\ pc' \in {"init", "header", "entity", "keepalive", "process", "http2", "closed"}
        /\ {fin', on', timer', ready', parse', req'.chunked, req'.only, rb'.split} \subseteq BOOLEAN
        /\ rev' \in {"none", "added", "active"}
        /\ stale' \in {"no", "freed", "unmapped"}
        /\ {prev', nh', req'.rl, rb'.dl} \subseteq Nat
    BY <1>2 DEF NextBasic, Handlers
  <2>3. hin' \in Buffers' /\ rb'.buf \in Buffers'
    BY <1>1, <1>2
  <2>4. \A b \in {hin', rb'.buf} : Free(b) >= 0
    BY <1>2 DEF NextBasic
  <2>5. pc' \in {"init", "header", "entity", "keepalive"} => on' # (rev' # "none")
    BY DEF NextBasic, Handlers
  <2> QED BY <2>1, <2>2, <2>3, <2>4, <2>5, Zenon DEF TypeOK
<1> QED BY <1>3, <1>4, <1>5
-----------------------------------------------------------------------------
(* The steps that leave the buffers and the request alone.                 *)

\* The connection goes on as it was or is closed.
Quietly ==
    /\ UNCHANGED <<pipe, hin, rb, req, out, prev, got, parse>>
    /\ sent' \in sent..Len(wire)
    /\ fin' \in BOOLEAN /\ (fin => fin')
    /\ on' \in BOOLEAN /\ timer' \in BOOLEAN /\ ready' \in BOOLEAN /\ nh' \in Nat
    /\ rev' \in {"none", "added", "active"}
    /\ pc' = pc \/ pc' = "closed"
    /\ pc' \in Handlers => on' # (rev' # "none")
    /\ on' => pc' \in Handlers
    /\ pc' \in {"process", "http2", "closed"} => rev' = "none"
    /\ stale' = "no" \/ (stale' = stale /\ (on' => on))
    /\ why'[2] = "eof" => pc' = "closed"

LEMMA QuietKeeps ==
    ASSUME ReadInv, Quietly, EofTrue'
    PROVE  ReadInv'
<1>1. Basic
  BY BasicFacts
<1>2. /\ pipe' = pipe /\ hin' = hin /\ rb' = rb /\ req' = req /\ out' = out /\ prev' = prev
      /\ got' = got /\ parse' = parse
  BY DEF Quietly
<1>3. NextBasic
  <2>1. sent' \in 0..Len(wire) /\ got' \in 0..sent'
    BY <1>1, <1>2 DEF Basic, Quietly
  <2>2. pc' \in Handlers \cup {"process", "http2", "closed"} /\ stale' \in {"no", "freed", "unmapped"}
    BY <1>1 DEF Basic, Quietly
  <2>3. /\ fin' \in BOOLEAN /\ on' \in BOOLEAN /\ timer' \in BOOLEAN /\ ready' \in BOOLEAN /\ nh' \in Nat
        /\ rev' \in {"none", "added", "active"}
        /\ pc' \in Handlers => on' # (rev' # "none")
    BY DEF Quietly
  <2>4. /\ parse' \in BOOLEAN /\ prev' \in Nat /\ req' \in Requests /\ rb' \in RequestBodies
        /\ IsBuffer(hin') /\ Free(rb'.buf) >= 0 /\ rb'.buf.off = 0 /\ out' \in Seq(Delivered)
        /\ HeadBound(hin'.cap, out') /\ BodyBound(rb'.buf.cap, hin'.cap)
    BY <1>1, <1>2, Zenon DEF Basic
  <2> QED BY <1>2, <2>1, <2>2, <2>3, <2>4, Zenon DEF NextBasic
<1>4. TypeOK' /\ ShapeInv' /\ MemoryBounded'
  BY <1>3, BasicKept
<1>5. EventInv'
  <2>1. EventInv
    BY DEF ReadInv
  <2> QED BY <1>2, <2>1 DEF Quietly, EventInv
<1>6. HeaderInv'
  <2>1. HeaderInv
    BY DEF ReadInv
  <2> QED BY <1>2, <2>1 DEF Quietly, HeaderInv
<1>7. EntityInv'
  <2>1. EntityInv
    BY DEF ReadInv
  <2> QED BY <1>2, <2>1 DEF Quietly, EntityInv
<1>8. StaleInv'
  <2>1. StaleInv
    BY DEF ReadInv
  <2> QED BY <2>1 DEF Quietly, StaleInv, Handlers
<1>9. LeftInv'
  <2>1. LeftInv
    BY DEF ReadInv
  <2> QED BY <1>2, <2>1 DEF Quietly, LeftInv
<1>10. SharedBufferStays'
  <2>1. SharedBufferStays
    BY DEF ReadInv
  <2> QED BY <1>2, <2>1 DEF Quietly, SharedBufferStays
<1>11. OpenInv'
  <2>1. Kinds(hin)' = Kinds(hin)
    BY <1>2 DEF Kinds, wire
  <2>2. OpenInv /\ (pc' = pc \/ pc' = "closed")
    BY DEF ReadInv, Quietly
  <2> QED BY <1>2, <2>1, <2>2 DEF OpenInv
<1> QED BY <1>4, <1>5, <1>6, <1>7, <1>8, <1>9, <1>10, <1>11 DEF ReadInv

\* The client.
LEMMA SendKeeps ==
    ASSUME ReadInv, NEW n \in 1..Len(wire) - sent, Send(n)
    PROVE  ReadInv'
<1>1. Basic
  BY BasicFacts
<1>2. /\ UNCHANGED <<pipe, hin, rb, req, out, prev, got, parse>>
      /\ UNCHANGED <<fin, on, timer, ready, nh, rev, pc, stale, why>>
      /\ sent' \in sent..Len(wire)
  BY <1>1 DEF Send, Basic, client, event, conn, request, locals
<1>3. Quietly
  BY <1>1, <1>2 DEF Quietly, Basic, ReadInv, EventInv
<1>4. EofTrue'
  BY <1>2 DEF ReadInv, EofTrue
<1> QED BY <1>3, <1>4, QuietKeeps

LEMMA FinKeeps ==
    ASSUME ReadInv, Fin
    PROVE  ReadInv'
<1>1. Basic
  BY BasicFacts
<1>2. /\ UNCHANGED <<pipe, hin, rb, req, out, prev, got, parse>>
      /\ UNCHANGED <<sent, on, timer, ready, nh, rev, pc, stale, why>>
      /\ fin' = TRUE
  BY DEF Fin, event, conn, request, locals
<1>3. Quietly
  BY <1>1, <1>2 DEF Quietly, Basic, ReadInv, EventInv
<1>4. EofTrue'
  BY <1>2 DEF EofTrue
<1> QED BY <1>3, <1>4, QuietKeeps

\* A connection that is closed.
LEMMA CloseQuietly ==
    ASSUME Basic, UNCHANGED <<pipe, hin, rb, req, out, prev, got, parse>>,
           UNCHANGED <<sent, fin, nh, stale>>, ready' \in BOOLEAN,
           pc' = "closed", on' = FALSE, rev' = "none", timer' = FALSE
    PROVE  Quietly
<1>1. sent' \in sent..Len(wire) /\ fin' \in BOOLEAN /\ (fin => fin') /\ nh' \in Nat
  BY DEF Basic
<1>2. "closed" \notin Handlers /\ "none" \in {"none", "added", "active"}
  BY DEF Handlers
<1> QED BY <1>1, <1>2, Zenon DEF Quietly

\* The event fires, or its time is up.
LEMMA FireKeeps ==
    ASSUME ReadInv, Fire
    PROVE  ReadInv'
<1>1. Basic /\ EventInv
  BY BasicFacts DEF ReadInv
<1>2. /\ UNCHANGED <<pipe, hin, rb, req, out, prev, got, parse>>
      /\ UNCHANGED <<sent, fin, pc, why>>
      /\ ~on /\ rev # "none" /\ on' = TRUE /\ rev' = "none" /\ timer' = FALSE /\ ready' = TRUE
      /\ nh' = MaxHeaders /\ stale' = "no"
  BY DEF Fire, client, request
<1>3. pc \in Handlers
  BY <1>1, <1>2 DEF EventInv, Basic
<1>4. Quietly
  <2>1. /\ sent' \in sent..Len(wire) /\ fin' \in BOOLEAN /\ (fin => fin') /\ nh' \in Nat
    BY <1>1, <1>2, Limits DEF Basic
  <2>2. pc' \notin {"process", "http2", "closed"} /\ why'[2] # "eof"
    BY <1>1, <1>2, <1>3 DEF EventInv, Handlers
  <2> QED BY <1>2, <1>3, <2>1, <2>2 DEF Quietly
<1>5. EofTrue'
  BY <1>2 DEF ReadInv, EofTrue
<1> QED BY <1>4, <1>5, QuietKeeps

LEMMA TimesOutKeeps ==
    ASSUME ReadInv, TimesOut
    PROVE  ReadInv'
<1>1. Basic
  BY BasicFacts
<1>2. /\ UNCHANGED <<pipe, hin, rb, req, out, prev, got, parse>>
      /\ UNCHANGED <<sent, fin, ready, nh, stale>>
      /\ pc' = "closed" /\ on' = FALSE /\ rev' = "none" /\ timer' = FALSE /\ why' = <<pc, "timeout">>
  BY DEF TimesOut, Close, client, conn, request, locals
<1>3. why'[2] = "timeout"
  BY <1>2
<1>4. Quietly
  BY <1>1, <1>2, CloseQuietly DEF Basic
<1>5. EofTrue'
  BY <1>3 DEF EofTrue
<1> QED BY <1>4, <1>5, QuietKeeps

\* Nothing to read: the handler waits, or fails to.
LEMMA ReadAgainKeeps ==
    ASSUME ReadInv, ReadAgain
    PROVE  ReadInv'
<1>1. Basic /\ EventInv
  BY BasicFacts DEF ReadInv
<1>2. /\ UNCHANGED <<pipe, hin, rb, req, out, prev, got, parse>>
      /\ UNCHANGED <<sent, fin, nh, stale, pc, why>>
      /\ on /\ ready' = FALSE /\ rev' = "added" /\ timer' = (pc # "keepalive") /\ on' = FALSE
  BY DEF ReadAgain, Waits, client, request, locals
<1>3. pc \in Handlers
  BY <1>1, <1>2 DEF EventInv
<1>4. timer' \in BOOLEAN
  BY <1>2
<1>5. Quietly
  <2>1. /\ sent' \in sent..Len(wire) /\ fin' \in BOOLEAN /\ (fin => fin') /\ nh' \in Nat
    BY <1>1, <1>2 DEF Basic
  <2>2. pc' \notin {"process", "http2", "closed"} /\ why'[2] # "eof"
    BY <1>1, <1>2, <1>3 DEF EventInv, Handlers
  <2> QED BY <1>2, <1>3, <1>4, <2>1, <2>2 DEF Quietly
<1>6. EofTrue'
  BY <1>2 DEF ReadInv, EofTrue
<1> QED BY <1>5, <1>6, QuietKeeps

LEMMA ReadAgainFailsKeeps ==
    ASSUME ReadInv, ReadAgainFails
    PROVE  ReadInv'
<1>1. Basic
  BY BasicFacts
<1>2. /\ UNCHANGED <<pipe, hin, rb, req, out, prev, got, parse>>
      /\ UNCHANGED <<sent, fin, nh, stale>>
      /\ ready' = FALSE
      /\ pc' = "closed" /\ on' = FALSE /\ rev' = "none" /\ timer' = FALSE /\ why' = <<pc, "event">>
  BY DEF ReadAgainFails, Close, client, request, locals
<1>3. why'[2] = "event"
  BY <1>2
<1>4. Quietly
  BY <1>1, <1>2, CloseQuietly DEF Basic
<1>5. EofTrue'
  BY <1>3 DEF EofTrue
<1> QED BY <1>4, <1>5, QuietKeeps

\* The buffer that is read into has the room that recv() is told of.
LEMMA ReadingFacts ==
    ASSUME ReadInv, on
    PROVE  /\ IsBuffer(Reading) /\ Room \in Nat /\ Room = Free(Reading)
           /\ Len(Reading.data) \in Nat /\ Reading.cap \in Nat /\ Reading.off \in Nat
           /\ Free(Reading) = Reading.cap - Len(Reading.data) - Reading.off
<1>1. Basic /\ EventInv /\ EntityInv
  BY BasicFacts DEF ReadInv
<1>2. IsBuffer(Reading)
  <2>1. CASE pc = "entity" /\ rb.split
    <3>1. rb.buf.cap >= BodyBuf /\ rb.buf \in Buffers /\ rb.buf.cap \in Nat
      BY <1>1, <2>1 DEF Basic, EntityInv, RequestBodies, Buffers
    <3>2. rb.buf.cap >= 1
      BY <3>1, Limits
    <3> QED BY <1>1, <2>1, <3>1, <3>2 DEF Reading, Basic, IsBuffer
  <2>2. CASE ~(pc = "entity" /\ rb.split)
    BY <1>1, <2>2 DEF Reading, Basic
  <2> QED BY <2>1, <2>2
<1>3. /\ Len(Reading.data) \in Nat /\ Reading.cap \in Nat /\ Reading.off \in Nat
      /\ Free(Reading) = Reading.cap - Len(Reading.data) - Reading.off /\ Free(Reading) >= 0
  BY <1>2 DEF IsBuffer, Buffers, Free
<1>4. Room = Free(Reading)
  <2>1. CASE pc = "init"
    <3>1. Reading = hin /\ Room = HeaderBuf /\ hin.data = <<>> /\ hin.off = 0 /\ hin.cap = HeaderBuf
      BY <1>1, <2>1 DEF Reading, Room, EventInv
    <3>2. Len(hin.data) = 0
      BY <3>1
    <3> QED BY <1>3, <3>1, <3>2, Limits
  <2>2. CASE pc # "init"
    BY <2>2 DEF Room
  <2> QED BY <2>1, <2>2
<1> QED BY <1>2, <1>3, <1>4

\* recv() returns 0.
LEMMA ReadEofKeeps ==
    ASSUME ReadInv, ReadEof
    PROVE  ReadInv'
<1>1. Basic /\ EventInv /\ EntityInv /\ HeaderInv /\ SharedBufferStays
  BY BasicFacts DEF ReadInv
<1>2. /\ UNCHANGED <<pipe, hin, rb, req, out, prev, got, parse>>
      /\ UNCHANGED <<sent, fin, ready, nh, stale>> /\ on /\ ~parse /\ 0 \in Recv(Room)
      /\ pc' = "closed" /\ on' = FALSE /\ rev' = "none" /\ timer' = FALSE /\ why' = <<pc, "eof">>
  BY DEF ReadEof, Close, client, conn, request, locals
<1>3. why'[1] = pc /\ why'[2] = "eof"
  BY <1>2
<1>4. Quietly
  BY <1>1, <1>2, CloseQuietly DEF Basic
<1>5. fin \/ Room = 0
  BY <1>1, <1>2, ReadingFacts, RecvFacts DEF Basic
<1>6. EofTrue'
  <2> SUFFICES ASSUME ~fin PROVE EofTrue'
    BY <1>2 DEF EofTrue
  <2>0. Room = 0 /\ Free(Reading) = 0 /\ Free(Reading) = Reading.cap - Len(Reading.data) - Reading.off
        /\ Len(Reading.data) \in Nat /\ Reading.cap \in Nat /\ Reading.off \in Nat /\ IsBuffer(Reading)
    BY <1>2, <1>5, ReadingFacts
  <2>1. pc \in Handlers
    BY <1>1, <1>2 DEF EventInv
  <2>2. CASE pc = "init"
    BY <2>0, <2>2, Limits DEF Room
  <2>3. CASE pc = "keepalive"
    <3>1. Reading = hin /\ hin.data = <<>> /\ hin.off = 0
      BY <1>1, <2>3 DEF Reading, EventInv
    <3>2. Len(hin.data) = 0 /\ hin.cap >= 1
      BY <2>0, <3>1 DEF IsBuffer
    <3> QED BY <2>0, <3>1, <3>2
  <2>4. CASE pc = "header"
    <3>1. Free(hin) = 0
      BY <2>0, <2>4 DEF Reading
    <3>2. prev = 0 \/ (Len(hin.data) = hin.cap \div 2 /\ hin.off > 0)
      BY <1>1, <1>2, <2>4, <3>1 DEF HeaderInv
    <3> QED BY <1>2, <1>3, <2>4, <3>1, <3>2 DEF EofTrue
  <2>5. CASE pc = "entity"
    <3>1. CASE ~rb.split
      <4>1. Free(hin) = 0 /\ Len(hin.data) \in Nat
        BY <2>0, <2>5, <3>1 DEF Reading
      <4>2. Free(hin) >= req.rl + req.len - Len(hin.data) /\ Len(hin.data) < req.rl + req.len
        BY <1>1, <2>5, <3>1 DEF SharedBufferStays
      <4>3. req.rl \in Nat /\ req.len \in Int
        BY <1>1 DEF Basic, Requests
      <4> QED BY <4>1, <4>2, <4>3
    <3>2. CASE rb.split
      <4>1. Free(rb.buf) = 0
        BY <2>0, <2>5, <3>2 DEF Reading
      <4>2. rb.buf.cap > BodyBuf \/ req.rl + Len(rb.buf.data) = prev
        BY <1>1, <2>5, <3>2, <4>1 DEF EntityInv
      <4> QED BY <1>2, <1>3, <2>5, <3>2, <4>2 DEF EofTrue
    <3> QED BY <3>1, <3>2
  <2> QED BY <2>1, <2>2, <2>3, <2>4, <2>5 DEF Handlers
<1> QED BY <1>4, <1>6, QuietKeeps

\* The request handler ends and the connection is not kept.
LEMMA FinishCloseKeeps ==
    ASSUME ReadInv, FinishClose
    PROVE  ReadInv'
<1>1. Basic
  BY BasicFacts
<1>2. /\ UNCHANGED <<pipe, hin, rb, req, out, prev, got, parse>>
      /\ UNCHANGED <<sent, fin, ready, nh, stale>>
      /\ pc' = "closed" /\ on' = FALSE /\ rev' = "none" /\ timer' = FALSE /\ why' = <<pc, "done">>
  BY DEF FinishClose, Close, client, conn, request, locals
<1>3. why'[2] = "done"
  BY <1>2
<1>4. Quietly
  BY <1>1, <1>2, CloseQuietly DEF Basic
<1>5. EofTrue'
  BY <1>3 DEF EofTrue
<1> QED BY <1>4, <1>5, QuietKeeps
-----------------------------------------------------------------------------
(* The init and the keep-alive handler.                                    *)

\* What recv() adds to the buffer.
ReadStep(n, b) ==
    /\ n \in Nat /\ n >= 1 /\ n <= Free(Reading) /\ got + n \in 0..sent
    /\ IsBuffer(b) /\ Len(b.data) = Len(Reading.data) + n /\ Len(b.data) \in Nat
    /\ b.cap = Reading.cap /\ b.off = Reading.off
    /\ Free(b) = Free(Reading) - n
    /\ b.cap \in Nat /\ b.off \in Nat /\ Free(b) = b.cap - Len(b.data) - b.off /\ Free(b) >= 0

LEMMA ReadStepFacts ==
    ASSUME ReadInv, on, NEW n \in Recv(Room) \ {0, -2}
    PROVE  ReadStep(n, ReadInto(Reading, n))
<1>1. Basic /\ IsBuffer(Reading) /\ Room \in Nat /\ Room = Free(Reading)
  BY BasicFacts, ReadingFacts
<1>2. n \in 1..Room /\ got + n \in 0..sent
  BY <1>1, RecvFacts DEF Basic
<1>3. n \in Nat /\ n >= 1 /\ n <= Free(Reading)
  BY <1>1, <1>2
<1> DEFINE b == ReadInto(Reading, n)
<1>4. /\ IsBuffer(b) /\ Len(b.data) = Len(Reading.data) + n
      /\ b.cap = Reading.cap /\ b.off = Reading.off /\ Free(b) = Free(Reading) - n
  BY <1>1, <1>2, <1>3, ReadFacts DEF Basic
<1> HIDE DEF b
<1>5. /\ Len(b.data) \in Nat /\ b.cap \in Nat /\ b.off \in Nat
      /\ Free(b) = b.cap - Len(b.data) - b.off /\ Free(b) >= 0
  BY <1>4 DEF IsBuffer, Buffers, Free
<1> QED BY <1>2, <1>3, <1>4, <1>5 DEF ReadStep, b

\* The first bytes of a request: the header handler takes over.
LEMMA FirstBytesKeep ==
    ASSUME ReadInv, on, pc \in {"init", "keepalive"},
           NEW n \in Recv(Room) \ {0, -2}, hin' = ReadInto(hin, n), got' = got + n,
           ready' \in BOOLEAN, parse' = TRUE \/ (prev = 0 /\ parse' = parse), pc' = "header",
           UNCHANGED <<client, event, prev, request, locals, on, out, why>>
    PROVE  ReadInv'
<1>1. Basic /\ EventInv /\ StaleInv
  BY BasicFacts DEF ReadInv
<1> DEFINE b == ReadInto(hin, n)
<1>2. Reading = hin /\ ReadStep(n, b)
  <2>1. Reading = hin
    BY DEF Reading
  <2> QED BY <2>1, ReadStepFacts
<1>3. /\ pipe' = pipe /\ sent' = sent /\ fin' = fin /\ rev' = rev /\ timer' = timer /\ prev' = prev
      /\ req' = req /\ rb' = rb /\ nh' = nh /\ stale' = stale /\ on' = on /\ out' = out /\ why' = why
      /\ hin' = b
  BY DEF client, event, request, locals
<1> HIDE DEF b
<1>4. NextBasic
  <2>1. sent' \in 0..Len(wire) /\ got' \in 0..sent' /\ parse' \in BOOLEAN
    BY <1>1, <1>2, <1>3 DEF Basic, ReadStep
  <2>2. IsBuffer(hin') /\ hin'.cap = hin.cap
    BY <1>2, <1>3 DEF ReadStep
  <2>3. /\ HeadBound(hin'.cap, out') /\ BodyBound(rb'.buf.cap, hin'.cap)
    BY <1>1, <1>3, <2>2, Zenon DEF Basic
  <2>4. pc' \in Handlers /\ on' # (rev' # "none")
    BY <1>1, <1>3 DEF Basic, Handlers
  <2> QED BY <1>1, <1>3, <2>1, <2>2, <2>3, <2>4, Zenon DEF Basic, NextBasic
<1>5. TypeOK' /\ ShapeInv' /\ MemoryBounded'
  BY <1>4, BasicKept
<1>6. why'[2] # "eof" /\ ~rb'.split /\ stale' = "no"
  BY <1>1, <1>3 DEF EventInv, StaleInv
<1>7. EventInv'
  BY <1>6 DEF EventInv, Handlers
<1>8. HeaderInv'
  BY <1>1, <1>2, <1>3 DEF HeaderInv, Basic, ReadStep
<1>9. EntityInv' /\ LeftInv' /\ SharedBufferStays'
  BY DEF EntityInv, LeftInv, SharedBufferStays
<1>10. StaleInv' /\ EofTrue'
  BY <1>6 DEF StaleInv, EofTrue
<1>11. OpenInv'
  <2>1. OpenInv
    BY DEF ReadInv
  <2>2. prev' = 0
    BY <1>1, <1>3, <2>1 DEF OpenInv, EventInv
  <2> QED BY <2>2 DEF OpenInv
<1> QED BY <1>5, <1>7, <1>8, <1>9, <1>10, <1>11 DEF ReadInv

LEMMA InitDataKeeps ==
    ASSUME ReadInv, InitData
    PROVE  ReadInv'
<1>1. PICK n \in Recv(Room) \ {0, -2} :
          hin' = ReadInto(hin, n) /\ got' = got + n /\ ready' = (n = Room)
  BY DEF InitData
<1>2. ready' \in BOOLEAN
  BY <1>1
<1> QED BY <1>1, <1>2, FirstBytesKeep DEF InitData

LEMMA KeepaliveDataKeeps ==
    ASSUME ReadInv, KeepaliveData
    PROVE  ReadInv'
<1>1. PICK n \in Recv(Room) \ {0, -2} :
          hin' = ReadInto(hin, n) /\ got' = got + n /\ ready' = (n = Room)
  BY DEF KeepaliveData
<1>2. ready' \in BOOLEAN /\ prev = 0
  BY <1>1 DEF KeepaliveData, ReadInv, EventInv
<1> QED BY <1>1, <1>2, FirstBytesKeep DEF KeepaliveData
-----------------------------------------------------------------------------
(* The end of a request that leaves its connection open.                   *)

\* What is left of a body when its entity is consumed.
LEMMA ConsumeData ==
    ASSUME NEW b \in Buffers, NEW n \in Nat
    PROVE  Consume(b, n).data \in Seq(Places) /\ Len(Consume(b, n).data) <= Len(b.data)
<1>1. b.data \in Seq(Places) /\ Len(b.data) \in Nat
  BY DEF Buffers, Places
<1>2. CASE Len(b.data) = n
  <2>1. Consume(b, n).data = <<>>
    BY <1>2 DEF Consume, Reset, Buffers
  <2> DEFINE nil == <<>>
  <2>2. nil \in Seq(Places) /\ Len(nil) <= Len(b.data)
    BY <1>1
  <2> QED BY <2>1, <2>2
<1>3. CASE Len(b.data) # n
  <2> DEFINE s == SubSeq(b.data, n + 1, Len(b.data))
  <2>1. Consume(b, n).data = s
    BY <1>3 DEF Consume, Buffers
  <2>2. \A i \in n + 1..Len(b.data) : b.data[i] \in Places
    BY <1>1
  <2>3. n + 1 \in Int /\ Len(b.data) \in Int
    BY <1>1
  <2>4. s \in Seq(Places) /\ Len(s) = IF n + 1 <= Len(b.data) THEN Len(b.data) - (n + 1) + 1 ELSE 0
    BY <2>2, <2>3, SubSeqProperties
  <2> HIDE DEF s
  <2>5. Len(s) <= Len(b.data)
    BY <1>1, <2>4
  <2> QED BY <2>1, <2>4, <2>5
<1> QED BY <1>2, <1>3

LEMMA LeftFacts ==
    ASSUME ReadInv, pc = "process"
    PROVE  /\ IsBuffer(BufferLeft)
           /\ BufferLeft.data = <<>> => BufferLeft.off = 0
           /\ HeadBound(BufferLeft.cap, out)
<1>1. Basic /\ EventInv /\ LeftInv
  BY BasicFacts DEF ReadInv
<1>2. out # <<>> /\ HeadBound(hin.cap, out) /\ IsBuffer(hin)
  BY <1>1 DEF EventInv, Basic
<1> DEFINE n == Len(Last(out).entity)
           body == Consume(rb.buf, n).data
           e == Reset(hin)
           g == Reserve(e, Len(body))
           f == [g EXCEPT !.data = body]
<1>3. n \in Nat
  <2>1. Last(out) \in Delivered
    BY <1>1, <1>2 DEF Last, Basic
  <2> QED BY <2>1 DEF Delivered
<1>4. body \in Seq(Places) /\ Len(body) <= Len(rb.buf.data) /\ Len(rb.buf.data) \in Nat /\ Len(body) \in Nat
  <2>1. rb.buf \in Buffers
    BY <1>1 DEF Basic, RequestBodies
  <2>2. body \in Seq(Places) /\ Len(body) <= Len(rb.buf.data)
    BY <1>3, <2>1, ConsumeData
  <2> HIDE DEF body
  <2> QED BY <2>1, <2>2 DEF Buffers
<1>5. BufferLeft = CASE req.only \/ ~rb.split -> Consume(hin, req.rl)
                     [] ~req.only /\ rb.split /\ body = <<>> -> e
                     [] OTHER -> f
  BY Zenon DEF BufferLeft
<1> HIDE DEF body, n, f
<1>6. IsBuffer(e) /\ e.data = <<>> /\ e.cap = hin.cap /\ e.off = 0 /\ Len(e.data) = 0
  BY <1>2, ResetFacts
<1> HIDE DEF e
<1>7. CASE req.only \/ ~rb.split
  <2> DEFINE c == Consume(hin, req.rl)
  <2>1. BufferLeft = c
    BY <1>5, <1>7
  <2>2. req.rl \in Nat /\ req.rl <= Len(hin.data)
    BY <1>1, <1>7 DEF LeftInv, Basic, Requests
  <2>3. IsBuffer(c) /\ c.cap = hin.cap /\ (c.data = <<>> => c.off = 0)
    BY <1>2, <2>2, ConsumeFacts
  <2> HIDE DEF c
  <2> QED BY <1>2, <2>1, <2>3
<1>8. CASE ~req.only /\ rb.split /\ body = <<>>
  <2>1. BufferLeft = e
    BY <1>5, <1>8
  <2> QED BY <1>2, <1>6, <2>1
<1>9. CASE ~req.only /\ rb.split /\ body # <<>>
  <2>1. BufferLeft = f
    BY <1>5, <1>9
  <2>2. Grown(e, g, Len(body))
    BY <1>4, <1>6, ReserveFacts
  <2> DEFINE m == Len(body)
  <2>3. IsBuffer(g) /\ g.off = 0 /\ g.cap >= m /\ g.cap \in Nat
        /\ (g.cap = hin.cap \/ g.cap <= 2 * m)
    <3> HIDE DEF g, m
    <3>1. e.cap \in Nat /\ Free(e) = e.cap
      BY <1>6 DEF IsBuffer, Buffers, Free
    <3>2. Grown(e, g, m)
      BY <2>2 DEF m
    <3>3. IsBuffer(g) /\ g.off \in {0, e.off} /\ g.cap - Len(e.data) >= m /\ g.cap \in Nat
      BY <3>2 DEF Grown, IsBuffer, Buffers
    <3>4. m \in Nat
      BY <1>4 DEF m
    <3>5. \/ g = e
          \/ g.cap = e.cap
          \/ Free(e) < m /\ (g.cap = 2 * e.cap \/ g.cap < 2 * (Len(e.data) + m))
      BY <3>2 DEF Grown
    <3> QED BY <1>6, <3>1, <3>3, <3>4, <3>5
  <2> HIDE DEF g
  <2>4. IsBuffer(f) /\ f.data = body /\ f.cap = g.cap
    <3>1. Len(body) + g.off <= g.cap
      BY <1>4, <2>3
    <3> QED BY <1>4, <2>3, <3>1, FilledFacts DEF f
  <2>5. m \in Nat /\ (m <= MaxBody \/ m <= BodyBuf)
    BY <1>1, <1>4, <1>9, Limits DEF LeftInv
  <2>6. HeadBound(g.cap, out)
    <3> HIDE DEF m
    <3>1. CASE g.cap = hin.cap
      BY <1>2, <3>1
    <3>2. CASE g.cap <= 2 * m
      BY <1>2, <2>3, <2>5, <3>2, Limits DEF HeadBound
    <3> QED BY <2>3, <3>1, <3>2
  <2> QED BY <1>9, <2>1, <2>4, <2>6
<1> QED BY <1>7, <1>8, <1>9

LEMMA NoneFacts ==
    /\ NoRequest \in Requests
    /\ NoBody \in RequestBodies /\ NoBody.split = FALSE /\ NoBody.rest = -1 /\ NoBody.dl = 0
    /\ NoBody.buf.off = 0 /\ NoBody.buf.cap = 0 /\ Free(NoBody.buf) = 0
<1>1. NoRequest \in Requests
  BY DEF NoRequest, Requests
<1> DEFINE D == Seq(Places)
           nil == <<>>
<1>2. nil \in D /\ Len(nil) = 0
  OBVIOUS
<1> HIDE DEF D, nil
<1>3. [state |-> "size", left |-> 0, hex |-> 0, ret |-> "again", data |-> nil, rest |-> nil] \in Decoders
  BY <1>2 DEF Decoders, D
<1>4. Decoder \in Decoders
  BY <1>3, Zenon DEF Decoder, nil
<1>5. [data |-> nil, off |-> 0, cap |-> 0, file |-> FALSE] \in Buffers
  BY <1>2 DEF Buffers, D, Places
<1>6. NewBuf(0) \in Buffers
  BY <1>5, Zenon DEF NewBuf, nil
<1>7. NewBuf(0).off = 0 /\ NewBuf(0).cap = 0 /\ NewBuf(0).data = nil
  BY DEF NewBuf, nil
<1>8. Free(NewBuf(0)) = 0
  BY <1>2, <1>7 DEF Free
<1>9. /\ NoBody.split = FALSE /\ NoBody.rest = -1 /\ NoBody.dl = 0 /\ NoBody.buf = NewBuf(0)
      /\ NoBody \in RequestBodies
  BY <1>4, <1>6 DEF NoBody, RequestBodies
<1> QED BY <1>1, <1>7, <1>8, <1>9

LEMMA FinishKeepKeeps ==
    ASSUME ReadInv, FinishKeep
    PROVE  ReadInv'
<1>1. Basic /\ EventInv
  BY BasicFacts DEF ReadInv
<1> DEFINE b == BufferLeft
           left == b.data # <<>>
<1>2. /\ pc = "process" /\ prev' = 0 /\ parse' = left /\ hin' = b /\ req' = NoRequest /\ rb' = NoBody
      /\ pipe' = pipe /\ sent' = sent /\ fin' = fin /\ got' = got /\ ready' = ready
      /\ nh' = nh /\ stale' = stale /\ on' = on /\ out' = out
  BY DEF FinishKeep, client, locals
<1>3. /\ out # <<>> /\ on = FALSE /\ rev = "none" /\ why[2] # "eof"
  BY <1>1, <1>2 DEF EventInv, Handlers, Basic
<1>4. \/ left /\ pc' = "header" /\ rev' = "active" /\ timer' = FALSE /\ why' = why
      \/ /\ ~left /\ pc' = "keepalive" /\ rev' \in {"active", "added"} /\ timer' = TRUE /\ why' = why
      \/ pc' = "closed" /\ why' = <<pc, "event">> /\ rev' = rev /\ timer' = timer
  BY DEF FinishKeep, event
<1>5. why'[2] # "eof"
  <2>1. why' = <<pc, "event">> => why'[2] = "event"
    OBVIOUS
  <2> QED BY <1>3, <1>4, <2>1
<1>6. IsBuffer(b) /\ (b.data = <<>> => b.off = 0) /\ HeadBound(b.cap, out)
  BY <1>2, LeftFacts
<1>7. left \in BOOLEAN
  OBVIOUS
<1> HIDE DEF b, left
<1>8. NextBasic
  <2>1. sent' \in 0..Len(wire) /\ got' \in 0..sent'
    BY <1>1, <1>2 DEF Basic
  <2>2. /\ fin' \in BOOLEAN /\ on' \in BOOLEAN /\ timer' \in BOOLEAN /\ ready' \in BOOLEAN
        /\ parse' \in BOOLEAN /\ stale' \in {"no", "freed", "unmapped"} /\ prev' \in Nat /\ nh' \in Nat
        /\ out' \in Seq(Delivered)
    BY <1>1, <1>2, <1>4, <1>7 DEF Basic
  <2>3. /\ pc' \in Handlers \cup {"process", "http2", "closed"} /\ rev' \in {"none", "added", "active"}
        /\ pc' \in Handlers => on' # (rev' # "none")
    BY <1>2, <1>3, <1>4 DEF Handlers
  <2>4. /\ IsBuffer(hin') /\ HeadBound(hin'.cap, out') /\ req' \in Requests /\ rb' \in RequestBodies
        /\ rb'.buf.off = 0 /\ Free(rb'.buf) >= 0 /\ rb'.buf.cap <= BodyBuf
    BY <1>2, <1>6, NoneFacts, Limits
  <2>5. BodyBound(rb'.buf.cap, hin'.cap)
    BY <2>4 DEF BodyBound
  <2> QED BY <1>2, <2>1, <2>2, <2>3, <2>4, <2>5, Zenon DEF NextBasic
<1>9. TypeOK' /\ ShapeInv' /\ MemoryBounded'
  BY <1>8, BasicKept
<1>10. EventInv'
  <2>1. ~rb'.split
    BY <1>2, NoneFacts
  <2>2. ~left => hin'.data = <<>> /\ hin'.off = 0
    BY <1>2, <1>6 DEF left
  <2> QED BY <1>2, <1>3, <1>4, <1>5, <2>1, <2>2 DEF EventInv, Handlers
<1>11. HeaderInv'
  BY <1>2, <1>3 DEF HeaderInv
<1>12. EntityInv' /\ LeftInv' /\ SharedBufferStays'
  BY <1>4 DEF EntityInv, LeftInv, SharedBufferStays
<1>13. StaleInv' /\ EofTrue'
  BY <1>2, <1>3, <1>5 DEF StaleInv, EofTrue
<1>14. OpenInv'
  BY <1>2 DEF OpenInv
<1> QED BY <1>9, <1>10, <1>11, <1>12, <1>13, <1>14 DEF ReadInv
-----------------------------------------------------------------------------
(* A turn of the header handler.                                           *)

\* What every turn of a loop leaves alone, or keeps the type of.
TurnCommon ==
    /\ pipe' = pipe /\ sent' = sent /\ fin' = fin
    /\ got' \in 0..sent
    /\ ready' \in BOOLEAN /\ parse' \in BOOLEAN /\ prev' \in Nat /\ nh' \in Nat
    /\ stale' \in {"no", "freed", "unmapped"}

\* A turn that ends the reading of a request.
TurnEnds ==
    /\ pc' \in {"process", "http2", "closed"}
    /\ on' = FALSE /\ rev' = "none" /\ timer' \in BOOLEAN /\ why'[2] # "eof"
    /\ pc' = "process" => out' # <<>>
    /\ out' \in Seq(Delivered) /\ (out' = <<>> => out = <<>>)
    /\ IsBuffer(hin') /\ hin'.cap = hin.cap /\ hin'.off = hin.off
    /\ req' \in Requests
    /\ rb' \in RequestBodies /\ Free(rb'.buf) >= 0 /\ rb'.buf.off = 0
    /\ BodyBound(rb'.buf.cap, hin'.cap)

LEMMA EndKeeps ==
    ASSUME ReadInv, TurnCommon, TurnEnds, LeftInv'
    PROVE  ReadInv'
<1>1. Basic
  BY BasicFacts
<1>2. NextBasic
  <2>1. /\ sent' \in 0..Len(wire) /\ got' \in 0..sent' /\ fin' \in BOOLEAN
    BY <1>1 DEF Basic, TurnCommon
  <2>2. /\ pc' \in Handlers \cup {"process", "http2", "closed"} /\ rev' \in {"none", "added", "active"}
        /\ pc' \notin Handlers /\ on' \in BOOLEAN
    BY DEF TurnEnds, Handlers
  <2>3. HeadBound(hin'.cap, out')
    <3>1. HeadBound(hin.cap, out) /\ hin'.cap = hin.cap /\ (out' = <<>> => out = <<>>)
      BY <1>1 DEF Basic, TurnEnds
    <3> QED BY <3>1 DEF HeadBound
  <2> QED BY <2>1, <2>2, <2>3, Zenon DEF NextBasic, TurnCommon, TurnEnds
<1>3. TypeOK' /\ ShapeInv' /\ MemoryBounded'
  BY <1>2, BasicKept
<1>4. EventInv'
  BY DEF EventInv, TurnEnds, Handlers
<1>5. HeaderInv'
  BY <1>1 DEF HeaderInv, TurnEnds, Basic
<1>6. EntityInv' /\ SharedBufferStays' /\ OpenInv' /\ StaleInv' /\ EofTrue'
  BY DEF EntityInv, SharedBufferStays, OpenInv, StaleInv, EofTrue, TurnEnds
<1> QED BY <1>3, <1>4, <1>5, <1>6 DEF ReadInv

LEMMA CloseMeans ==
    ASSUME NEW status, status # "eof", Close(status)
    PROVE  pc' = "closed" /\ on' = FALSE /\ rev' = "none" /\ timer' = FALSE /\ why'[2] # "eof"
<1>1. pc' = "closed" /\ on' = FALSE /\ rev' = "none" /\ timer' = FALSE /\ why' = <<pc, status>>
  BY DEF Close
<1>2. why'[2] = status
  BY <1>1
<1> QED BY <1>1, <1>2

LEMMA DeliverMeans ==
    ASSUME out \in Seq(Delivered), NEW head \in Seq(Places), NEW entity \in Seq(Places),
           Deliver(head, entity)
    PROVE  pc' = "process" /\ on' = FALSE /\ out' \in Seq(Delivered) /\ out' # <<>>
<1> DEFINE d == [head |-> head, entity |-> entity]
<1>1. d \in Delivered
  BY DEF Delivered
<1>2. pc' = "process" /\ on' = FALSE /\ out' = Append(out, d)
  BY DEF Deliver
<1> HIDE DEF d
<1>3. Append(out, d) \in Seq(Delivered) /\ Append(out, d) # <<>>
  BY <1>1
<1> QED BY <1>2, <1>3

\* What the header handler does in every turn, b being the buffer it parses.
HeaderCommon(b) ==
    /\ on = TRUE /\ pc = "header" /\ rev = "none"
    /\ IsBuffer(b) /\ b.cap = hin.cap /\ b.off = hin.off
    /\ TurnCommon /\ prev' = Len(b.data) /\ parse' = FALSE /\ stale' = stale

\* The size of a buffer.
LEMMA BufferFacts ==
    ASSUME NEW b, IsBuffer(b)
    PROVE  /\ b \in Buffers /\ b.data \in Seq(Places) /\ Len(b.data) \in Nat
           /\ b.cap \in Nat /\ b.cap >= 1 /\ b.off \in Nat
           /\ Free(b) = b.cap - Len(b.data) - b.off /\ Free(b) >= 0 /\ Len(b.data) <= b.cap
<1>1. /\ b \in Buffers /\ b.data \in Seq(Places) /\ Len(b.data) \in Nat
      /\ b.cap \in Nat /\ b.cap >= 1 /\ b.off \in Nat
      /\ Free(b) = b.cap - Len(b.data) - b.off /\ Free(b) >= 0
  BY DEF IsBuffer, Buffers, Free, Places
<1> QED BY <1>1

\* pgrest_http_extend_header_buffer: what it reserves.
LEMMA ExtensionValue ==
    ASSUME NEW b, IsBuffer(b)
    PROVE  \/ Extension(b) = -1
           \/ Len(b.data) <= MaxHeader /\ Len(b.data) > b.cap \div 2 /\ Extension(b) = Grow
           \/ Len(b.data) <= b.cap \div 2 /\ Extension(b) = b.cap \div 2 - Len(b.data)
<1> DEFINE L == Len(b.data)
           half == b.cap \div 2
           n == Extension(b)
<1>1. n = CASE L > MaxHeader -> -1
            [] L <= MaxHeader /\ L > half -> Grow
            [] OTHER -> half - L
  BY Zenon DEF Extension
<1>2. L \in Nat /\ b.cap \in Nat
  BY BufferFacts
<1>3. half \in Nat
  BY <1>2
<1> HIDE DEF L, half, n
<1>4. n = -1 \/ (L <= MaxHeader /\ L > half /\ n = Grow) \/ (L <= half /\ n = half - L)
  <2>1. CASE L > MaxHeader
    BY <1>1, <2>1
  <2>2. CASE L <= MaxHeader /\ L > half
    BY <1>1, <1>2, <2>2, Limits
  <2>3. CASE L <= MaxHeader /\ L <= half
    BY <1>1, <1>2, <1>3, <2>3, Limits
  <2> QED BY <1>2, <1>3, <2>1, <2>2, <2>3, Limits
<1> QED BY <1>4, Zenon DEF L, half, n

\* A buffer that is full is extended, unless it holds too much; if its second
\* half is full nothing is reserved.
LEMMA ExtensionFacts ==
    ASSUME NEW b, IsBuffer(b), Free(b) < 1, Extension(b) # -1
    PROVE  LET g == Reserve(b, Extension(b)) IN
           /\ IsBuffer(g) /\ g.data = b.data
           /\ b.off = 0 => g.off = 0
           /\ Free(g) = 0 => Len(g.data) = g.cap \div 2 /\ g.off > 0
           /\ \/ g.cap = b.cap
              \/ b.off = 0 /\ g.cap <= 2 * (MaxHeader + Grow)
              \/ b.off > 0 /\ (g.cap <= 2 * (MaxHeader + Grow) \/ g.cap <= 4 * MaxHeader)
<1> DEFINE n == Extension(b)
           g == Reserve(b, n)
           L == Len(b.data)
           half == b.cap \div 2
<1>1. /\ L \in Nat /\ b.cap \in Nat /\ b.cap >= 1 /\ b.off \in Nat
      /\ Free(b) = b.cap - L - b.off /\ Free(b) >= 0
  BY BufferFacts
<1>2. half \in Nat /\ 2 * half <= b.cap /\ b.cap <= 2 * half + 1
  BY <1>1
<1> HIDE DEF L, half
<1>3. b.cap = L + b.off
  BY <1>1
<1>4. \/ n = -1
      \/ L <= MaxHeader /\ L > half /\ n = Grow
      \/ L <= half /\ n = half - L
  BY ExtensionValue, Zenon DEF L, half
<1>5. n # -1
  OBVIOUS
<1> HIDE DEF n
<1>6. n \in Nat
  BY <1>1, <1>2, <1>4, <1>5, Limits
<1>7. Grown(b, g, n)
  BY <1>6, ReserveFacts
<1> HIDE DEF g
<1>8. /\ IsBuffer(g) /\ g.data = b.data /\ g.off \in {0, b.off} /\ g.cap - L >= n
      /\ \/ g = b /\ Free(b) >= n
         \/ g.cap = b.cap /\ Free(b) < n /\ 2 * (L + n) <= b.cap /\ g.off = 0
         \/ /\ Free(b) < n /\ 2 * (L + n) > b.cap
            /\ g.cap >= 2 * b.cap
            /\ g.cap = 2 * b.cap \/ g.cap < 2 * (L + n)
  BY <1>7 DEF Grown, L
<1>9. g.cap \in Nat /\ g.off \in Nat /\ Free(g) = g.cap - L - g.off /\ Len(g.data) = L
  BY <1>8, BufferFacts DEF L
<1>10. Free(b) = 0
  BY <1>1
<1>11. Free(g) = 0 => Len(g.data) = g.cap \div 2 /\ g.off > 0
  <2> SUFFICES ASSUME Free(g) = 0 PROVE L = g.cap \div 2 /\ g.off > 0
    BY <1>9
  <2>1. CASE g = b /\ Free(b) >= n
    <3>1. n = 0 /\ L = half
      BY <1>1, <1>2, <1>4, <1>5, <1>6, <1>10, <2>1, Limits
    <3>2. g.cap \div 2 = half
      BY <2>1 DEF half
    <3>3. b.off > 0
      BY <1>1, <1>2, <1>3, <3>1
    <3> QED BY <2>1, <3>1, <3>2, <3>3, Zenon
  <2>2. CASE g.cap = b.cap /\ Free(b) < n /\ 2 * (L + n) <= b.cap /\ g.off = 0
    BY <1>1, <1>6, <1>9, <1>10, <2>2
  <2>3. CASE Free(b) < n /\ g.cap >= 2 * b.cap
    <3>1. g.off <= b.off
      BY <1>1, <1>8
    <3> QED BY <1>1, <1>3, <1>9, <2>3, <3>1, SMTT(30)
  <2> QED BY <1>8, <2>1, <2>2, <2>3
<1>12. \/ g.cap = b.cap
       \/ b.off = 0 /\ g.cap <= 2 * (MaxHeader + Grow)
       \/ b.off > 0 /\ (g.cap <= 2 * (MaxHeader + Grow) \/ g.cap <= 4 * MaxHeader)
  <2> SUFFICES ASSUME /\ Free(b) < n /\ 2 * (L + n) > b.cap
                      /\ g.cap = 2 * b.cap \/ g.cap < 2 * (L + n)
               PROVE  \/ b.off = 0 /\ g.cap <= 2 * (MaxHeader + Grow)
                      \/ b.off > 0 /\ (g.cap <= 2 * (MaxHeader + Grow) \/ g.cap <= 4 * MaxHeader)
    BY <1>8
  <2>1. L <= MaxHeader /\ L > half /\ n = Grow
    BY <1>1, <1>2, <1>4, <1>5
  <2>2. CASE g.cap < 2 * (L + n)
    BY <1>1, <1>9, <2>1, <2>2, Limits
  <2>3. CASE g.cap = 2 * b.cap
    <3>1. b.cap <= 2 * L /\ 2 * b.cap <= 4 * MaxHeader
      BY <1>1, <1>2, <2>1, Limits
    <3>2. b.off = 0 => 2 * b.cap <= 2 * (MaxHeader + Grow)
      BY <1>1, <1>3, <2>1, Limits
    <3> QED BY <1>1, <2>3, <3>1, <3>2
  <2> QED BY <2>2, <2>3
<1>13. b.off = 0 => g.off = 0
  BY <1>8
<1> QED BY <1>8, <1>11, <1>12, <1>13 DEF g, n

\* The head is not complete.
LEMMA HeadIncompleteKeeps ==
    ASSUME ReadInv, NEW b, HeaderCommon(b), HeadIncomplete(b),
           PhrParseRequest(Kinds(b), MaxHeaders, 0).ret # "ok"
    PROVE  ReadInv'
<1>1. Basic /\ EventInv /\ StaleInv
  BY BasicFacts DEF ReadInv
<1>2. /\ on = TRUE /\ pc = "header" /\ rev = "none" /\ IsBuffer(b) /\ b.cap = hin.cap /\ b.off = hin.off
      /\ TurnCommon /\ parse' = FALSE /\ stale' = stale /\ prev' = Len(b.data)
  BY DEF HeaderCommon
<1>3. req' = req /\ rb' = rb /\ out' = out
  BY DEF HeadIncomplete, request
<1>4. why[2] # "eof" /\ ~rb.split /\ stale = "no"
  BY <1>1, <1>2 DEF EventInv, StaleInv
<1>5. ASSUME /\ Free(b) >= 1 \/ Extension(b) # -1
             /\ hin' = IF Free(b) >= 1 THEN b ELSE Reserve(b, Extension(b))
             /\ UNCHANGED <<event, pc, on, why>>
      PROVE  ReadInv'
  <2>1. rev' = rev /\ timer' = timer /\ pc' = pc /\ on' = on /\ why' = why
    BY <1>5 DEF event
  <2>2. /\ IsBuffer(hin') /\ (b.off = 0 => hin'.off = 0) /\ hin'.data = b.data
        /\ Free(hin') = 0 => Len(hin'.data) = hin'.cap \div 2 /\ hin'.off > 0
        /\ \/ hin'.cap = b.cap
           \/ b.off = 0 /\ hin'.cap <= 2 * (MaxHeader + Grow)
           \/ b.off > 0 /\ (hin'.cap <= 2 * (MaxHeader + Grow) \/ hin'.cap <= 4 * MaxHeader)
    <3>1. CASE Free(b) >= 1
      <4>1. hin' = b
        BY <1>5, <3>1
      <4> QED BY <1>2, <3>1, <4>1
    <3>2. CASE Free(b) < 1
      <4>1. Extension(b) # -1 /\ hin' = Reserve(b, Extension(b))
        <5>1. Free(b) \in Int
          BY <1>2, BufferFacts
        <5>2. ~(Free(b) >= 1)
          BY <3>2, <5>1
        <5> QED BY <1>5, <5>2
      <4> QED BY <1>2, <3>2, <4>1, ExtensionFacts
    <3>3. Free(b) >= 1 \/ Free(b) < 1
      BY <1>2, BufferFacts
    <3> QED BY <3>1, <3>2, <3>3
  <2>3. hin'.cap \in Nat /\ b.cap \in Nat /\ b.off \in Nat
    BY <1>2, <2>2, BufferFacts
  <2>4. HeadBound(hin'.cap, out') /\ BodyBound(rb'.buf.cap, hin'.cap)
    <3>1. HeadBound(hin.cap, out) /\ BodyBound(rb.buf.cap, hin.cap) /\ (out = <<>> => hin.off = 0)
      BY <1>1 DEF Basic
    <3>2. HeadBound(hin'.cap, out')
      <4>1. CASE hin'.cap = b.cap
        BY <1>2, <1>3, <3>1, <4>1
      <4>2. CASE hin'.cap <= 2 * (MaxHeader + Grow)
        BY <4>2 DEF HeadBound
      <4>3. CASE b.off > 0 /\ hin'.cap <= 4 * MaxHeader
        <5>1. out' # <<>>
          BY <1>2, <1>3, <3>1, <4>3
        <5> QED BY <4>3, <5>1 DEF HeadBound
      <4> QED BY <2>2, <4>1, <4>2, <4>3
    <3>3. rb'.buf.cap <= BodyBuf \/ rb'.buf.cap <= 2 * (MaxBody + Grow) \/ rb'.buf.cap <= 2 * (hin.cap + Grow)
      BY <1>3, <3>1 DEF BodyBound
    <3>4. hin'.cap >= hin.cap
      <4>1. CASE Free(b) >= 1
        <5>1. hin' = b
          BY <1>5, <4>1
        <5> QED BY <1>2, <2>3, <5>1
      <4>2. CASE ~(Free(b) >= 1)
        <5> DEFINE n == Extension(b)
        <5>1. n # -1 /\ hin' = Reserve(b, n)
          BY <1>5, <4>2
        <5>2. n \in Nat
          <6>1. Len(b.data) \in Nat /\ b.cap \in Nat /\ b.cap \div 2 \in Nat
            BY <1>2, BufferFacts
          <6>2. n = Grow \/ (Len(b.data) <= b.cap \div 2 /\ n = b.cap \div 2 - Len(b.data))
            BY <1>2, <5>1, ExtensionValue, Zenon
          <6> DEFINE L == Len(b.data)
                     half == b.cap \div 2
          <6>3. L \in Nat /\ half \in Nat /\ (n = Grow \/ (L <= half /\ n = half - L))
            BY <6>1, <6>2
          <6> HIDE DEF L, half, n
          <6> QED BY <6>3, Limits
        <5> HIDE DEF n
        <5>3. Grown(b, hin', n)
          BY <1>2, <5>1, <5>2, ReserveFacts
        <5>4. hin' = b \/ hin'.cap = b.cap \/ hin'.cap >= 2 * b.cap
          BY <5>3 DEF Grown
        <5> QED BY <1>2, <2>3, <5>4
      <4> QED BY <4>1, <4>2
    <3>5. rb'.buf.cap \in Nat /\ hin.cap \in Nat
      BY <1>1, <1>3, BufferFacts DEF Basic, RequestBodies, Buffers
    <3>6. rb'.buf.cap <= 2 * (hin.cap + Grow) => rb'.buf.cap <= 2 * (hin'.cap + Grow)
      BY <2>3, <3>4, <3>5, Limits
    <3> QED BY <3>2, <3>3, <3>6 DEF BodyBound
  <2>5. NextBasic
    <3>1. /\ sent' \in 0..Len(wire) /\ got' \in 0..sent' /\ fin' \in BOOLEAN
      BY <1>1, <1>2 DEF Basic, TurnCommon
    <3>2. pc' \in Handlers /\ on' # (rev' # "none")
      BY <1>2, <2>1 DEF Handlers
    <3> QED BY <1>1, <1>2, <1>3, <2>1, <2>2, <2>4, <3>1, <3>2, Zenon DEF NextBasic, Basic, TurnCommon
  <2>6. TypeOK' /\ ShapeInv' /\ MemoryBounded'
    BY <2>5, BasicKept
  <2>7. EventInv'
    BY <1>2, <1>3, <1>4, <2>1 DEF EventInv, Handlers
  <2>8. HeaderInv'
    BY <1>1, <1>2, <1>3, <2>2 DEF HeaderInv, Basic
  <2>9. EntityInv' /\ LeftInv' /\ SharedBufferStays'
    BY <1>2, <2>1 DEF EntityInv, LeftInv, SharedBufferStays
  <2>10. StaleInv' /\ EofTrue'
    BY <1>2, <1>4, <2>1 DEF StaleInv, EofTrue
  <2>11. OpenInv'
    <3>1. hin'.data = b.data
      BY <2>2
    <3>2. Kinds(hin)' = Kinds(b)
      BY <1>2, <3>1 DEF Kinds, wire, TurnCommon
    <3> QED BY <1>2, <2>1, <3>1, <3>2 DEF OpenInv
  <2> QED BY <2>6, <2>7, <2>8, <2>9, <2>10, <2>11 DEF ReadInv
<1>6. ASSUME hin' = b, NEW status \in {"431", "500"}, Close(status)
      PROVE  ReadInv'
  <2>1. status # "eof"
    OBVIOUS
  <2>2. pc' = "closed" /\ on' = FALSE /\ rev' = "none" /\ timer' = FALSE /\ why'[2] # "eof"
    BY <1>6, <2>1, CloseMeans
  <2>3. TurnEnds
    BY <1>1, <1>2, <1>3, <1>6, <2>2, Zenon DEF TurnEnds, Basic
  <2>4. LeftInv'
    BY <2>2 DEF LeftInv
  <2> QED BY <1>2, <2>3, <2>4, EndKeeps
<1> QED BY <1>5, <1>6 DEF HeadIncomplete

\* The head is not valid.
LEMMA HeadInvalidKeeps ==
    ASSUME ReadInv, NEW b, HeaderCommon(b), HeadInvalid(b)
    PROVE  ReadInv'
<1>1. Basic /\ EventInv
  BY BasicFacts DEF ReadInv
<1>2. /\ on = TRUE /\ pc = "header" /\ rev = "none" /\ IsBuffer(b) /\ b.cap = hin.cap /\ b.off = hin.off
      /\ TurnCommon
  BY DEF HeaderCommon
<1>3. req' = req /\ rb' = rb /\ out' = out /\ hin' = b
  BY DEF HeadInvalid, request
<1>4. /\ pc' \in {"http2", "closed"} /\ on' = FALSE /\ rev' = "none" /\ timer' \in BOOLEAN
      /\ why'[2] # "eof"
  <2>1. CASE Kinds(b)[1] = "p"
    <3>1. pc' = "http2" /\ on' = FALSE /\ rev' = rev /\ timer' = timer /\ why' = why
      BY <2>1 DEF HeadInvalid, event
    <3> QED BY <1>1, <1>2, <3>1 DEF Basic, EventInv
  <2>2. CASE Kinds(b)[1] # "p"
    <3>1. Close("400") /\ "400" # "eof"
      BY <2>2 DEF HeadInvalid
    <3> QED BY <3>1, CloseMeans
  <2> QED BY <2>1, <2>2
<1>5. TurnEnds
  <2>1. pc' \in {"process", "http2", "closed"} /\ pc' # "process"
    BY <1>4
  <2> QED BY <1>1, <1>2, <1>3, <1>4, <2>1, Zenon DEF TurnEnds, Basic
<1>6. LeftInv'
  BY <1>4 DEF LeftInv
<1> QED BY <1>2, <1>5, <1>6, EndKeeps

\* pgrest_http_process_header: what follows the head.
LEMMA RequestFacts ==
    ASSUME pipe \in {Sending(p) : p \in Pipelines}, NEW b, NEW n \in Nat
    PROVE  /\ BodyOf(b) \in Bodies
           /\ Request(b, n) \in Requests /\ Request(b, n).rl = n
           /\ Request(b, n).only <=> BodyOf(b) = "none"
           /\ Request(b, n).chunked <=> BodyOf(b) \in {"chunked", "garbled"}
           /\ BodyOf(b) = "length" => Request(b, n).len >= 0
<1> DEFINE S == Starting(b)
           i == Max(S)
           x == pipe.reqs[i]
<1>1. /\ pipe.reqs \in Seq(ARequest) /\ DOMAIN pipe.laid = DOMAIN pipe.reqs
      /\ DOMAIN pipe.reqs = 1..Len(pipe.reqs) /\ Len(pipe.reqs) \in Nat
  BY WireType
<1>2. S \subseteq 1..Len(pipe.reqs)
  BY <1>1 DEF Starting
<1>3. ASSUME S # {} PROVE x \in ARequest
  <2> HIDE DEF S
  <2>1. S \subseteq Nat /\ \A k \in S : k <= Len(pipe.reqs)
    BY <1>1, <1>2
  <2>2. i \in S
    BY <1>1, <1>3, <2>1, MaxFacts
  <2>3. i \in 1..Len(pipe.reqs)
    BY <1>2, <2>2
  <2> HIDE DEF i
  <2> QED BY <1>1, <2>3
<1>4. BodyOf(b) = IF S = {} THEN "none" ELSE x.body
  BY DEF BodyOf
<1>5. BodyOf(b) \in Bodies
  <2> HIDE DEF S, x
  <2>1. "none" \in Bodies
    BY DEF Bodies
  <2> QED BY <1>3, <1>4, <2>1 DEF ARequest
<1>6. BodyOf(b) = "length" => Total(x) \in Nat
  <2> HIDE DEF S, x
  <2> QED BY <1>3, <1>4, TotalType
<1> DEFINE len == IF BodyOf(b) = "length" THEN Total(x) ELSE -1
           ch == BodyOf(b) \in {"chunked", "garbled"}
           only == BodyOf(b) = "none"
<1>7. Request(b, n) = [rl |-> n, len |-> len, chunked |-> ch, only |-> only]
  BY Zenon DEF Request
<1>8. len \in Int /\ ch \in BOOLEAN /\ only \in BOOLEAN /\ (BodyOf(b) = "length" => len >= 0)
  <2> HIDE DEF S, x
  <2> QED BY <1>6
<1> HIDE DEF len, ch, only
<1>9. /\ Request(b, n) \in Requests /\ Request(b, n).rl = n /\ Request(b, n).len = len
      /\ Request(b, n).chunked = ch /\ Request(b, n).only = only
  BY <1>7, <1>8 DEF Requests
<1> QED BY <1>5, <1>8, <1>9 DEF ch, only

\* What was read of the body is parsed in the header buffer.
FirstParsed(b, q, p) ==
    /\ p.ret \in {"ok", "again", "error"}
    /\ p.status # "eof"
    /\ p.rb \in RequestBodies /\ SameBody(NoBody, p.rb)
    /\ IsBuffer(p.buf) /\ p.buf.cap = b.cap /\ p.buf.off = b.off
    /\ Len(p.buf.data) <= Len(b.data)
    /\ p.ret = "ok" => p.entity \in Seq(Places) /\ q.rl + Len(p.entity) <= Len(p.buf.data)
    /\ p.ret = "again" => q.rl <= Len(p.buf.data)
    /\ p.ret = "again" /\ ~q.chunked =>
          p.buf = b /\ p.rb.rest \in {-1, q.len} /\ (q.len > 0 => Len(b.data) - q.rl < q.len)
    /\ p.ret = "again" /\ q.chunked =>
          \/ p.rb.dl = 0 /\ p.buf = b /\ Len(b.data) = q.rl
          \/ p.rb.dl = Len(p.buf.data) /\ p.rb.rest # -1

FirstParse(b, q) ==
    IF Len(b.data) - q.rl > 0 THEN BodyParser(b, NoBody, q) ELSE Parsed("again", b, NoBody, <<>>, "")

LEMMA FirstParseFacts ==
    ASSUME NEW b, IsBuffer(b), NEW q \in Requests, q.rl <= Len(b.data), ~q.chunked => q.len >= 0,
           \A i \in Places : wire[i] \in WireBytes
    PROVE  FirstParsed(b, q, FirstParse(b, q))
<1> DEFINE p == FirstParse(b, q)
<1>1. Len(b.data) \in Nat /\ q.rl \in Nat /\ q.len \in Int /\ q.chunked \in BOOLEAN
  BY BufferFacts DEF Requests
<1>2. NoBody \in RequestBodies /\ ~NoBody.split /\ NoBody.rest = -1 /\ NoBody.dl = 0
  BY NoneFacts
<1>3. CASE Len(b.data) - q.rl > 0 /\ ~q.chunked
  <2>1. p = BodyLength(b, NoBody, q)
    BY <1>3 DEF FirstParse, BodyParser
  <2>2. LengthParsed(b, NoBody, q, p)
    BY <1>2, <1>3, <2>1, LengthFacts
  <2>3. Skip(NoBody, q) = q.rl
    BY <1>2 DEF Skip
  <2> HIDE DEF p
  <2>4. /\ p.ret \in {"ok", "again", "error"} /\ p.buf = b /\ p.status # "eof"
        /\ p.rb \in RequestBodies /\ SameBody(NoBody, p.rb)
        /\ p.ret = "again" => p.rb.rest = q.len /\ Len(b.data) - q.rl < q.len
        /\ p.ret = "ok" => p.entity \in Seq(Places) /\ q.rl + Len(p.entity) <= Len(b.data)
    BY <2>2, <2>3 DEF LengthParsed
  <2>5. Len(b.data) <= Len(b.data)
    BY <1>1
  <2> QED BY <1>3, <2>4, <2>5 DEF FirstParsed, p
<1>4. CASE Len(b.data) - q.rl > 0 /\ q.chunked
  <2>1. p = BodyChunked(b, NoBody, q)
    BY <1>4 DEF FirstParse, BodyParser
  <2>2. ChunkedParsed(b, NoBody, q, p)
    BY <1>2, <2>1, ChunkedFacts
  <2>3. DecodedBefore(NoBody, q) = q.rl
    BY <1>2 DEF DecodedBefore
  <2> HIDE DEF p
  <2>4. /\ p.ret \in {"ok", "again", "error", "wild"} /\ p.status # "eof"
        /\ p.ret = "wild" => Len(b.data) < q.rl
        /\ p.rb \in RequestBodies /\ SameBody(NoBody, p.rb) /\ p.rb.rest # -1
        /\ IsBuffer(p.buf) /\ p.buf.cap = b.cap /\ p.buf.off = b.off
        /\ Len(p.buf.data) <= Len(b.data)
        /\ p.ret = "again" => p.rb.dl = Len(p.buf.data) /\ p.rb.dl >= q.rl
        /\ p.ret = "ok" => p.entity \in Seq(Places) /\ q.rl + Len(p.entity) <= Len(p.buf.data)
    BY <1>2, <2>2, <2>3 DEF ChunkedParsed
  <2>5. p.ret # "wild"
    BY <1>1, <1>4, <2>4
  <2>6. p.ret = "again" => q.rl <= Len(p.buf.data)
    <3>1. Len(p.buf.data) \in Nat
      BY <2>4, BufferFacts
    <3> QED BY <1>1, <2>4, <3>1
  <2> QED BY <1>4, <2>4, <2>5, <2>6 DEF FirstParsed, p
<1>5. CASE ~(Len(b.data) - q.rl > 0)
  <2>1. p = Parsed("again", b, NoBody, <<>>, "")
    BY <1>5 DEF FirstParse
  <2> HIDE DEF p
  <2>2. p.ret = "again" /\ p.buf = b /\ p.rb = NoBody /\ p.status = ""
    BY <2>1 DEF Parsed
  <2>3. Len(b.data) <= Len(b.data) /\ Len(b.data) = q.rl /\ (q.len > 0 => Len(b.data) - q.rl < q.len)
    BY <1>1, <1>5
  <2>4. SameBody(NoBody, NoBody)
    BY DEF SameBody
  <2> QED BY <1>2, <2>2, <2>3, <2>4 DEF FirstParsed, p
<1> QED BY <1>1, <1>3, <1>4, <1>5

\* The body gets a buffer of its own.
LEMMA SplitFacts ==
    ASSUME NEW b, IsBuffer(b), NEW x, IsBuffer(x), NEW q \in Requests,
           q.rl <= Len(x.data), Len(x.data) <= Len(b.data), x.cap = b.cap
    PROVE  LET preread == SubSeq(x.data, q.rl + 1, Len(x.data))
                          \o SubSeq(b.data, Len(x.data) + 1, Len(b.data))
               body == [Reserve(NewBuf(BodyBuf), Len(preread)) EXCEPT !.data = preread] IN
           /\ IsBuffer(body) /\ body.off = 0 /\ body.cap >= BodyBuf
           /\ Len(body.data) = Len(b.data) - q.rl
           /\ body.cap = BodyBuf \/ body.cap <= 2 * b.cap
           /\ Len(body.data) = 0 => body.cap = BodyBuf
<1> DEFINE m == Len(x.data)
           L == Len(b.data)
           s == SubSeq(x.data, q.rl + 1, m)
           t == SubSeq(b.data, m + 1, L)
           u == s \o t
           n == Len(u)
           new == NewBuf(BodyBuf)
           g == Reserve(new, n)
           body == [g EXCEPT !.data = u]
<1>1. /\ m \in Nat /\ L \in Nat /\ q.rl \in Nat /\ m <= L /\ q.rl <= m /\ b.cap \in Nat /\ L <= b.cap
      /\ x.data \in Seq(Places) /\ b.data \in Seq(Places)
  BY BufferFacts DEF Requests
<1>2. s \in Seq(Places) /\ Len(s) = m - q.rl
  BY <1>1, TailFacts, Zenon
<1>3. t \in Seq(Places) /\ Len(t) = L - m
  BY <1>1, TailFacts, Zenon
<1> HIDE DEF s, t, m, L
<1>4. u \in Seq(Places) /\ n = Len(s) + Len(t)
  <2>1. \A y, z \in Seq(Places) : y \o z \in Seq(Places) /\ Len(y \o z) = Len(y) + Len(z)
    OBVIOUS
  <2> QED BY <1>2, <1>3, <2>1, Zenon
<1>5. n = L - q.rl /\ n \in Nat /\ n <= b.cap
  <2> HIDE DEF n
  <2>1. \A i, k, l, c \in Nat : l <= c /\ k <= l /\ i <= k =>
            /\ (k - i) + (l - k) = l - i /\ l - i \in Nat /\ l - i <= c
    OBVIOUS
  <2>2. (m - q.rl) + (L - m) = L - q.rl /\ L - q.rl \in Nat /\ L - q.rl <= b.cap
    BY <1>1, <2>1, Zenon
  <2> QED BY <1>2, <1>3, <1>4, <2>2, Zenon
<1> HIDE DEF u, n
<1>6. IsBuffer(new) /\ new.data = <<>> /\ new.cap = BodyBuf /\ new.off = 0 /\ Len(new.data) = 0
  <2>1. BodyBuf \in Nat \ {0}
    BY Limits
  <2> QED BY <2>1, NewFacts
<1> HIDE DEF new
<1>7. Grown(new, g, n)
  BY <1>5, <1>6, ReserveFacts
<1>8. Free(new) = BodyBuf
  BY <1>6, BufferFacts, Limits
<1> HIDE DEF g
<1>9. /\ IsBuffer(g) /\ g.off \in {0, new.off} /\ g.cap - Len(new.data) >= n
      /\ \/ g = new
         \/ g.cap = new.cap
         \/ Free(new) < n /\ g.cap >= 2 * new.cap /\ (g.cap = 2 * new.cap \/ g.cap < 2 * (Len(new.data) + n))
  BY <1>7 DEF Grown
<1>10. g.cap \in Nat
  BY <1>9, BufferFacts
<1>11. g.off = 0 /\ g.cap >= n /\ g.cap >= BodyBuf /\ (g.cap = BodyBuf \/ g.cap <= 2 * b.cap)
       /\ (n = 0 => g.cap = BodyBuf)
  <2>1. g.off = 0 /\ g.cap - 0 >= n
    BY <1>6, <1>9
  <2>2. \/ g.cap = BodyBuf
        \/ BodyBuf < n /\ g.cap >= 2 * BodyBuf /\ (g.cap = 2 * BodyBuf \/ g.cap < 2 * (0 + n))
    BY <1>6, <1>8, <1>9, Zenon
  <2> DEFINE c == g.cap
             d == b.cap
  <2>3. c \in Nat /\ d \in Nat /\ n \in Nat /\ n <= d /\ c >= n
    BY <1>1, <1>5, <1>10, <2>1
  <2>4. c = BodyBuf \/ (BodyBuf < n /\ c >= 2 * BodyBuf /\ (c = 2 * BodyBuf \/ c < 2 * (0 + n)))
    BY <2>2
  <2> HIDE DEF c, d
  <2>5. c >= BodyBuf /\ (c = BodyBuf \/ c <= 2 * d) /\ (n = 0 => c = BodyBuf)
    BY <2>3, <2>4, Limits
  <2> QED BY <2>1, <2>3, <2>5 DEF c, d
<1>12. IsBuffer(body) /\ body.data = u /\ body.cap = g.cap /\ body.off = 0
  <2>1. Len(u) + g.off <= g.cap
    BY <1>5, <1>10, <1>11 DEF n
  <2> QED BY <1>4, <1>9, <1>11, <2>1, FilledFacts
<1>13. Len(body.data) = n
  BY <1>12 DEF n
<1> HIDE DEF body
<1>14. /\ IsBuffer(body) /\ body.off = 0 /\ body.cap >= BodyBuf /\ Len(body.data) = L - q.rl
       /\ body.cap = BodyBuf \/ body.cap <= 2 * b.cap
       /\ Len(body.data) = 0 => body.cap = BodyBuf
  BY <1>5, <1>11, <1>12, <1>13
<1> QED BY <1>14, Zenon DEF body, g, n, u, s, t, m, L, new

\* The body that is going to be read: in the header buffer or in its own.
StartsEntity(b, q) ==
    /\ pc' = "entity" /\ on' = on /\ rev' = rev /\ timer' = timer /\ out' = out /\ why' = why
    /\ req' = q
    /\ IsBuffer(hin') /\ hin'.cap = b.cap /\ hin'.off = b.off
    /\ rb' \in RequestBodies /\ Free(rb'.buf) >= 0 /\ rb'.buf.off = 0
    /\ BodyBound(rb'.buf.cap, hin'.cap)
    /\ EntityInv' /\ SharedBufferStays'

LEMMA StartKeeps ==
    ASSUME ReadInv, NEW b, HeaderCommon(b), NEW q \in Requests, StartsEntity(b, q)
    PROVE  ReadInv'
<1>1. Basic /\ EventInv /\ StaleInv
  BY BasicFacts DEF ReadInv
<1>2. /\ on = TRUE /\ pc = "header" /\ rev = "none" /\ b.cap = hin.cap /\ b.off = hin.off
      /\ TurnCommon /\ stale' = stale
  BY DEF HeaderCommon
<1>3. /\ pc' = "entity" /\ on' = on /\ rev' = rev /\ timer' = timer /\ out' = out /\ why' = why /\ req' = q
      /\ IsBuffer(hin') /\ hin'.cap = hin.cap /\ hin'.off = hin.off
      /\ rb' \in RequestBodies /\ Free(rb'.buf) >= 0 /\ rb'.buf.off = 0
      /\ BodyBound(rb'.buf.cap, hin'.cap)
  BY <1>2 DEF StartsEntity
<1>4. NextBasic
  <2>1. /\ sent' \in 0..Len(wire) /\ got' \in 0..sent' /\ fin' \in BOOLEAN
    BY <1>1, <1>2 DEF Basic, TurnCommon
  <2>2. pc' \in Handlers /\ on' # (rev' # "none")
    BY <1>2, <1>3 DEF Handlers
  <2>3. HeadBound(hin'.cap, out') /\ req' \in Requests
    BY <1>1, <1>3, Zenon DEF Basic
  <2> QED BY <1>1, <1>2, <1>3, <2>1, <2>2, <2>3, Zenon DEF NextBasic, Basic, TurnCommon
<1>5. TypeOK' /\ ShapeInv' /\ MemoryBounded'
  BY <1>4, BasicKept
<1>6. why'[2] # "eof" /\ stale' = "no"
  BY <1>1, <1>2, <1>3 DEF EventInv, StaleInv
<1>7. EventInv' /\ LeftInv'
  BY <1>3, <1>6 DEF EventInv, Handlers, LeftInv
<1>8. HeaderInv'
  BY <1>1, <1>3 DEF HeaderInv, Basic
<1>9. OpenInv' /\ StaleInv' /\ EofTrue'
  BY <1>3, <1>6 DEF OpenInv, StaleInv, EofTrue
<1> QED BY <1>5, <1>7, <1>8, <1>9 DEF ReadInv, StartsEntity

\* pgrest_http_process_entity.
LEMMA ProcessEntityKeeps ==
    ASSUME ReadInv, NEW b, HeaderCommon(b), NEW q \in Requests, q.rl >= 1, q.rl <= Len(b.data),
           ~q.only, ~q.chunked => q.len >= 0, ProcessEntity(b, q)
    PROVE  ReadInv'
<1>1. Basic /\ EventInv /\ StaleInv /\ ShapeInv
  BY BasicFacts DEF ReadInv
<1>2. /\ on = TRUE /\ pc = "header" /\ rev = "none" /\ IsBuffer(b) /\ b.cap = hin.cap /\ b.off = hin.off
      /\ TurnCommon /\ prev' = Len(b.data) /\ stale' = stale
  BY DEF HeaderCommon
<1>3. \A i \in Places : wire[i] \in WireBytes
  BY <1>1, WireType DEF ShapeInv
<1> DEFINE p == FirstParse(b, q)
           left == IF q.chunked THEN 0 ELSE q.len - (Len(b.data) - q.rl)
<1>4. FirstParsed(b, q, p)
  BY <1>2, <1>3, FirstParseFacts
<1>5. /\ p.ret \in {"ok", "again", "error"} /\ p.status # "eof"
      /\ p.rb \in RequestBodies /\ SameBody(NoBody, p.rb)
      /\ IsBuffer(p.buf) /\ p.buf.cap = b.cap /\ p.buf.off = b.off
      /\ Len(p.buf.data) <= Len(b.data)
      /\ p.ret = "ok" => p.entity \in Seq(Places) /\ q.rl + Len(p.entity) <= Len(p.buf.data)
      /\ p.ret = "again" => q.rl <= Len(p.buf.data)
      /\ p.ret = "again" /\ ~q.chunked =>
            p.buf = b /\ p.rb.rest \in {-1, q.len} /\ (q.len > 0 => Len(b.data) - q.rl < q.len)
      /\ p.ret = "again" /\ q.chunked =>
            \/ p.rb.dl = 0 /\ p.buf = b /\ Len(b.data) = q.rl
            \/ p.rb.dl = Len(p.buf.data) /\ p.rb.rest # -1
  BY <1>4 DEF FirstParsed
<1>6. (CASE p.ret = "ok" ->
              /\ hin' = p.buf /\ rb' = p.rb
              /\ req' = [q EXCEPT !.rl = q.rl + Len(p.entity)]
              /\ Deliver(SubSeq(b.data, 1, q.rl), p.entity)
              /\ UNCHANGED <<event, why>>
        [] p.ret = "error" ->
              hin' = b /\ rb' = p.rb /\ req' = q /\ Close(p.status) /\ UNCHANGED out
        [] OTHER ->
              /\ IF FitsBehind(left, p.buf) THEN ShareBuffer(p.buf, p.rb) ELSE SplitBuffer(b, p.buf, p.rb, q)
              /\ req' = q /\ pc' = "entity" /\ UNCHANGED <<event, on, out, why>>)
  BY Zenon DEF ProcessEntity, FirstParse
<1> HIDE DEF p
<1>7. p.rb.buf = NoBody.buf /\ ~p.rb.split /\ Free(p.rb.buf) = 0 /\ p.rb.buf.off = 0 /\ p.rb.buf.cap = 0
  BY <1>5, NoneFacts DEF SameBody
<1>8. /\ b.data \in Seq(Places) /\ Len(b.data) \in Nat /\ b.cap \in Nat /\ Len(b.data) <= b.cap
      /\ b.off \in Nat /\ Free(b) = b.cap - Len(b.data) - b.off /\ Free(b) >= 0
      /\ q.rl \in Nat /\ q.len \in Int /\ Len(p.buf.data) \in Nat /\ p.buf.data \in Seq(Places)
      /\ q.chunked \in BOOLEAN
  <2>1. p.buf.data \in Seq(Places) /\ Len(p.buf.data) \in Nat
    BY <1>5, BufferFacts
  <2> QED BY <1>2, <2>1, BufferFacts DEF Requests
<1>9. BodyBound(p.rb.buf.cap, hin.cap)
  BY <1>7, Limits DEF BodyBound
<1>10. CASE p.ret = "ok"
  <2>1. /\ hin' = p.buf /\ rb' = p.rb /\ req' = [q EXCEPT !.rl = q.rl + Len(p.entity)]
        /\ Deliver(SubSeq(b.data, 1, q.rl), p.entity)
        /\ rev' = rev /\ timer' = timer /\ why' = why
    BY <1>6, <1>10 DEF event
  <2>2. SubSeq(b.data, 1, q.rl) \in Seq(Places)
    BY <1>8, PrefixFacts
  <2>3. pc' = "process" /\ on' = FALSE /\ out' \in Seq(Delivered) /\ out' # <<>>
    BY <1>1, <1>5, <1>10, <2>1, <2>2, DeliverMeans DEF Basic
  <2>4. req' \in Requests /\ req'.rl = q.rl + Len(p.entity)
    <3> DEFINE n == q.rl + Len(p.entity)
    <3>1. n \in Nat
      BY <1>5, <1>8, <1>10
    <3> HIDE DEF n
    <3>2. [q EXCEPT !.rl = n] \in Requests /\ [q EXCEPT !.rl = n].rl = n
      BY <3>1 DEF Requests
    <3> QED BY <2>1, <3>2 DEF n
  <2>5. TurnEnds
    <3>1. pc' \in {"process", "http2", "closed"} /\ why'[2] # "eof" /\ timer' \in BOOLEAN
          /\ Free(rb'.buf) >= 0
      BY <1>1, <1>2, <1>7, <2>1, <2>3 DEF EventInv, Basic
    <3> QED BY <1>2, <1>5, <1>7, <1>9, <2>1, <2>3, <2>4, <3>1, Zenon DEF TurnEnds
  <2>6. LeftInv'
    <3>1. ~rb'.split /\ req'.rl <= Len(hin'.data)
      BY <1>5, <1>7, <1>10, <2>1, <2>4
    <3> QED BY <3>1 DEF LeftInv
  <2> QED BY <1>2, <2>5, <2>6, EndKeeps
<1>11. CASE p.ret = "error"
  <2>1. hin' = b /\ rb' = p.rb /\ req' = q /\ Close(p.status) /\ out' = out
    BY <1>6, <1>11
  <2>2. pc' = "closed" /\ on' = FALSE /\ rev' = "none" /\ timer' = FALSE /\ why'[2] # "eof"
    BY <1>5, <2>1, CloseMeans
  <2>3. TurnEnds
    <3>1. Free(rb'.buf) >= 0
      BY <1>7, <2>1
    <3> QED BY <1>1, <1>2, <1>5, <1>7, <1>9, <2>1, <2>2, <3>1, Zenon DEF TurnEnds, Basic
  <2>4. LeftInv'
    BY <2>2 DEF LeftInv
  <2> QED BY <1>2, <2>3, <2>4, EndKeeps
<1>12. CASE p.ret = "again"
  <2>1. /\ IF FitsBehind(left, p.buf) THEN ShareBuffer(p.buf, p.rb) ELSE SplitBuffer(b, p.buf, p.rb, q)
        /\ req' = q /\ pc' = "entity" /\ rev' = rev /\ timer' = timer /\ on' = on /\ out' = out /\ why' = why
    BY <1>6, <1>12 DEF event
  <2>1a. stale' = "no"
    BY <1>1, <1>2 DEF StaleInv
  <2>2. CASE FitsBehind(left, p.buf)
    <3>1. hin' = p.buf /\ rb' = p.rb
      BY <2>1, <2>2 DEF ShareBuffer
    <3>2. ~q.chunked /\ p.buf = b /\ p.rb.rest \in {-1, q.len}
          /\ q.len - (Len(b.data) - q.rl) > 0 /\ q.len - (Len(b.data) - q.rl) <= Free(b)
      BY <1>5, <1>8, <1>12, <2>2 DEF FitsBehind
    <3>3. EntityInv'
      BY <1>5, <1>7, <1>12, <2>1, <2>1a, <3>1, <3>2 DEF EntityInv
    <3>4. SharedBufferStays'
      <4>1. Free(b) >= q.rl + q.len - Len(b.data) /\ Len(b.data) < q.rl + q.len
        BY <1>8, <3>2
      <4> QED BY <2>1, <3>1, <3>2, <4>1 DEF SharedBufferStays
    <3>5. StartsEntity(b, q)
      <4>1. Free(rb'.buf) >= 0
        BY <1>7, <3>1
      <4> QED BY <1>2, <1>5, <1>7, <1>9, <2>1, <3>1, <3>2, <3>3, <3>4, <4>1, Zenon DEF StartsEntity
    <3> QED BY <3>5, StartKeeps
  <2>3. CASE ~FitsBehind(left, p.buf)
    <3> DEFINE x == p.buf
               preread == SubSeq(x.data, q.rl + 1, Len(x.data))
                          \o SubSeq(b.data, Len(x.data) + 1, Len(b.data))
               body == [Reserve(NewBuf(BodyBuf), Len(preread)) EXCEPT !.data = preread]
               h == SubSeq(x.data, 1, q.rl)
    <3>1. rb' = [p.rb EXCEPT !.split = TRUE, !.buf = body] /\ hin' = [x EXCEPT !.data = h]
      BY <2>1, <2>3, Zenon DEF SplitBuffer
    <3>2. /\ IsBuffer(body) /\ body.off = 0 /\ body.cap >= BodyBuf
          /\ Len(body.data) = Len(b.data) - q.rl
          /\ body.cap = BodyBuf \/ body.cap <= 2 * b.cap
          /\ Len(body.data) = 0 => body.cap = BodyBuf
      BY <1>2, <1>5, <1>12, SplitFacts, Zenon
    <3> HIDE DEF body
    <3>3. /\ body \in Buffers /\ body.cap \in Nat /\ Len(body.data) \in Nat /\ Free(body) >= 0
          /\ body.data \in Seq(Places)
      BY <3>2, BufferFacts
    <3>4. /\ rb' \in RequestBodies /\ rb'.buf = body /\ rb'.split = TRUE
          /\ rb'.rest = p.rb.rest /\ rb'.dl = p.rb.dl
      BY <1>5, <3>1, <3>3, SplitField, Zenon
    <3>5. h \in Seq(Places) /\ Len(h) = q.rl
      BY <1>5, <1>8, <1>12, PrefixFacts
    <3> HIDE DEF h
    <3>6. IsBuffer(hin') /\ hin'.cap = b.cap /\ hin'.off = b.off /\ hin'.data = h
      <4>1. Len(h) + x.off <= x.cap
        <5>1. x.off \in Nat /\ x.cap \in Nat /\ Len(x.data) + x.off <= x.cap
          BY <1>5, BufferFacts
        <5> QED BY <1>5, <1>8, <1>12, <3>5, <5>1
      <4>2. IsBuffer([x EXCEPT !.data = h]) /\ [x EXCEPT !.data = h].cap = x.cap
            /\ [x EXCEPT !.data = h].off = x.off /\ [x EXCEPT !.data = h].data = h
        BY <1>5, <3>5, <4>1, FilledFacts, Zenon
      <4> QED BY <1>5, <3>1, <4>2, Zenon
    <3>7. BodyBound(body.cap, b.cap)
      BY <1>8, <3>2, <3>3, Limits DEF BodyBound
    <3>8. EntityInv'
      <4>1. ~q.chunked => p.rb.rest \in {-1, q.len}
        BY <1>5, <1>12
      <4>2. q.rl + Len(body.data) = prev'
        BY <1>2, <1>8, <3>2
      <4>3. q.chunked => p.rb.dl <= b.cap
        BY <1>5, <1>8, <1>12
      <4>4. q.chunked /\ p.rb.rest = -1 => p.rb.dl = 0
        BY <1>5, <1>12
      <4>5. q.chunked /\ p.rb.dl = 0 => body.data = <<>> /\ body.cap = BodyBuf
        <5> SUFFICES ASSUME q.chunked, p.rb.dl = 0 PROVE body.data = <<>> /\ body.cap = BodyBuf
          OBVIOUS
        <5>1. CASE Len(b.data) = q.rl
          <6>1. Len(body.data) = 0
            BY <1>8, <3>2, <5>1
          <6> QED BY <3>2, <3>3, <6>1
        <5>2. CASE p.rb.dl = Len(p.buf.data)
          <6>1. q.rl = 0 /\ Len(p.buf.data) = 0
            BY <1>5, <1>8, <1>12, <5>2
          <6> QED BY <6>1
        <5> QED BY <1>5, <1>12, <5>1, <5>2
      <4>6. q.rl <= Len(hin'.data)
        BY <1>8, <3>5, <3>6
      <4>7. ~q.chunked /\ q.len > 0 => Len(body.data) < q.len
        BY <1>5, <1>12, <3>2
      <4> QED BY <2>1, <2>1a, <3>2, <3>4, <3>6, <4>1, <4>2, <4>3, <4>4, <4>5, <4>6, <4>7 DEF EntityInv
    <3>9. SharedBufferStays'
      BY <3>4 DEF SharedBufferStays
    <3>10. StartsEntity(b, q)
      BY <2>1, <3>2, <3>3, <3>4, <3>6, <3>7, <3>8, <3>9, Zenon DEF StartsEntity
    <3> QED BY <3>10, StartKeeps
  <2> QED BY <2>2, <2>3
<1> QED BY <1>5, <1>10, <1>11, <1>12

\* The head is complete.
LEMMA HeadCompleteKeeps ==
    ASSUME ReadInv, NEW b, HeaderCommon(b), NEW n \in 1..Len(b.data), HeadComplete(b, n)
    PROVE  ReadInv'
<1>1. Basic /\ EventInv /\ ShapeInv
  BY BasicFacts DEF ReadInv
<1>2. /\ on = TRUE /\ pc = "header" /\ rev = "none" /\ IsBuffer(b) /\ b.cap = hin.cap /\ b.off = hin.off
      /\ TurnCommon
  BY DEF HeaderCommon
<1> DEFINE q == Request(b, n)
<1>3. b.data \in Seq(Places) /\ Len(b.data) \in Nat
  BY <1>2, BufferFacts
<1>4. n \in Nat /\ n >= 1 /\ n <= Len(b.data)
  BY <1>3
<1>5. /\ BodyOf(b) \in Bodies /\ q \in Requests /\ q.rl = n
      /\ q.only <=> BodyOf(b) = "none"
      /\ q.chunked <=> BodyOf(b) \in {"chunked", "garbled"}
      /\ BodyOf(b) = "length" => q.len >= 0
  BY <1>1, <1>4, RequestFacts DEF ShapeInv
<1> HIDE DEF q
<1>6. CASE BodyOf(b) = "refused"
  <2>1. hin' = b /\ req' = q /\ Close("header") /\ rb' = rb /\ out' = out
    BY <1>6 DEF HeadComplete, q
  <2>2. pc' = "closed" /\ on' = FALSE /\ rev' = "none" /\ timer' = FALSE /\ why'[2] # "eof"
    <3>1. "header" # "eof"
      OBVIOUS
    <3> QED BY <2>1, <3>1, CloseMeans
  <2>3. TurnEnds
    BY <1>1, <1>2, <1>5, <2>1, <2>2, Zenon DEF TurnEnds, Basic
  <2>4. LeftInv'
    BY <2>2 DEF LeftInv
  <2> QED BY <1>2, <2>3, <2>4, EndKeeps
<1>7. CASE BodyOf(b) = "none"
  <2> DEFINE nil == <<>>
             h == SubSeq(b.data, 1, n)
  <2>1. /\ hin' = b /\ req' = q /\ Deliver(h, nil)
        /\ rb' = rb /\ rev' = rev /\ timer' = timer /\ why' = why
    BY <1>7 DEF HeadComplete, q, event
  <2>2. h \in Seq(Places) /\ nil \in Seq(Places)
    BY <1>3, <1>4, PrefixFacts
  <2> HIDE DEF nil, h
  <2>3. pc' = "process" /\ on' = FALSE /\ out' \in Seq(Delivered) /\ out' # <<>>
    BY <1>1, <2>1, <2>2, DeliverMeans DEF Basic
  <2>4. TurnEnds
    <3>1. pc' \in {"process", "http2", "closed"} /\ why'[2] # "eof" /\ timer' \in BOOLEAN
      BY <1>1, <1>2, <2>1, <2>3 DEF EventInv, Basic
    <3> QED BY <1>1, <1>2, <1>5, <2>1, <2>3, <3>1, Zenon DEF TurnEnds, Basic
  <2>5. LeftInv'
    <3>1. ~rb'.split /\ req'.rl <= Len(hin'.data)
      BY <1>1, <1>2, <1>4, <1>5, <2>1 DEF EventInv
    <3> QED BY <3>1 DEF LeftInv
  <2> QED BY <1>2, <2>4, <2>5, EndKeeps
<1>8. CASE BodyOf(b) \notin {"refused", "none"}
  <2>1. ProcessEntity(b, q)
    BY <1>8 DEF HeadComplete, q
  <2>2. ~q.only /\ (~q.chunked => q.len >= 0)
    BY <1>5, <1>8 DEF Bodies
  <2> QED BY <1>4, <1>5, <2>1, <2>2, ProcessEntityKeeps
<1> QED BY <1>6, <1>7, <1>8

\* What the header handler adds to its buffer.
LEMMA HeaderReadFacts ==
    ASSUME ReadInv, on, pc = "header", NEW n \in HeaderReads
    PROVE  LET b == ReadInto(hin, n) IN
           /\ n \in Nat /\ got + n \in 0..sent
           /\ IsBuffer(b) /\ b.cap = hin.cap /\ b.off = hin.off
           /\ Len(b.data) = Len(hin.data) + n
           /\ b.data = hin.data \o Taken(n)
<1> DEFINE b == ReadInto(hin, n)
<1>1. Basic
  BY BasicFacts
<1>2. n \in Nat /\ n <= Free(hin) /\ got + n \in 0..sent
  <2>1. CASE parse
    <3>1. n = 0
      BY <2>1 DEF HeaderReads
    <3> QED BY <1>1, <3>1, BufferFacts DEF Basic
  <2>2. CASE ~parse
    <3>1. n \in Recv(Room) \ {0, -2}
      BY <2>2 DEF HeaderReads
    <3>2. Reading = hin
      BY DEF Reading
    <3> QED BY <3>1, <3>2, ReadStepFacts DEF ReadStep
  <2> QED BY <2>1, <2>2
<1>3. IsBuffer(b) /\ b.cap = hin.cap /\ b.off = hin.off /\ Len(b.data) = Len(hin.data) + n
  BY <1>1, <1>2, ReadFacts DEF Basic
<1>4. b.data = hin.data \o Taken(n)
  <2>1. hin \in [data : Seq(Places), off : Nat, cap : Nat, file : BOOLEAN]
    BY <1>1, BufferFacts DEF Basic, Buffers, Places
  <2> QED BY <2>1 DEF ReadInto
<1> QED BY <1>2, <1>3, <1>4

\* When the parser asks for more there is no head, however many headers it may
\* have: none in what was parsed before, and none that ends in what was added.
LEMMA StillOpen ==
    ASSUME ReadInv, on, pc = "header", NEW n \in HeaderReads,
           PhrParseRequest(Kinds(ReadInto(hin, n)), nh, prev).ret = "again"
    PROVE  PhrParseRequest(Kinds(ReadInto(hin, n)), MaxHeaders, 0).ret # "ok"
<1> DEFINE b == ReadInto(hin, n)
           ks == Kinds(b)
           old == Kinds(hin)
<1>1. Basic /\ OpenInv
  BY BasicFacts DEF ReadInv
<1>2. /\ n \in Nat /\ got + n \in 0..sent /\ IsBuffer(b) /\ Len(b.data) = Len(hin.data) + n
      /\ b.data = hin.data \o Taken(n)
  BY HeaderReadFacts
<1> HIDE DEF b
<1>3. Len(ks) = Len(b.data) /\ Len(ks) \in Nat /\ Len(old) = Len(hin.data) /\ Len(old) \in Nat
  BY <1>1, <1>2, KindsFacts DEF Basic
<1>4. \A i \in 1..Len(old) : old[i] = ks[i]
  <2> SUFFICES ASSUME NEW i \in 1..Len(old) PROVE old[i] = ks[i]
    OBVIOUS
  <2>1. hin.data \in Seq(Places) /\ b.data \in Seq(Places)
    BY <1>1, <1>2, BufferFacts DEF Basic
  <2>2. DOMAIN hin.data = 1..Len(hin.data) /\ DOMAIN b.data = 1..Len(b.data)
    BY <2>1
  <2>3. i \in 1..Len(hin.data) /\ i \in 1..Len(b.data)
    BY <1>2, <1>3
  <2>4. b.data[i] = hin.data[i]
    <3>1. Taken(n) \in Seq(Int)
      <4> DEFINE all == [j \in 1..sent |-> j]
      <4>1. all \in Seq(Int) /\ Len(all) = sent
        <5>1. all \in [1..sent -> Int] /\ sent \in Nat
          BY <1>1 DEF Basic
        <5> HIDE DEF all
        <5> QED BY <5>1, IntervalSeq
      <4>2. got \in Nat /\ got + n <= sent
        BY <1>1, <1>2 DEF Basic
      <4>3. Taken(n) = SubSeq(all, got + 1, got + n)
        BY DEF Taken
      <4> HIDE DEF all
      <4> QED BY <1>2, <4>1, <4>2, <4>3, CutFacts
    <3>2. hin.data \in Seq(Int)
      BY <2>1, LargerSeq DEF Places
    <3> QED BY <1>2, <2>3, <3>1, <3>2
  <2> QED BY <2>2, <2>3, <2>4 DEF Kinds
<1> SUFFICES ASSUME PhrParseRequest(ks, MaxHeaders, 0).ret = "ok" PROVE FALSE
  BY DEF b
<1>5. PhrParseRequest(ks, nh, prev).ret = "again"
  BY DEF b
<1> HIDE DEF ks, old
<1>6. PICK e \in Nat : EndsAt(ks, MaxHeaders, e)
  BY <1>3, ParseMeans
<1>7. e \in Blanks(ks)
  BY <1>6 DEF EndsAt
<1>8. prev # 0 /\ ~IsComplete(ks, prev)
  BY <1>3, <1>5, <1>7, ParseMeans
<1>9. prev = Len(old) /\ PhrParseRequest(old, MaxHeaders, 0).ret # "ok"
  BY <1>1, <1>3, <1>8 DEF OpenInv, old
<1>10. old # <<>> /\ ks # <<>> /\ Len(old) \in Nat \ {0} /\ Len(old) <= Len(ks)
  BY <1>2, <1>3, <1>8, <1>9
<1>11. EndsAt(old, MaxHeaders, e)
  BY <1>3, <1>4, <1>6, <1>8, <1>9, <1>10, EarlierHead
<1> QED BY <1>3, <1>9, <1>11, ParseMeans

LEMMA HeaderTurnKeeps ==
    ASSUME ReadInv, HeaderTurn
    PROVE  ReadInv'
<1>1. Basic
  BY BasicFacts
<1>2. on = TRUE /\ pc = "header" /\ parse' = FALSE /\ pipe' = pipe /\ sent' = sent /\ fin' = fin /\ stale' = stale
  BY <1>1 DEF HeaderTurn, client, Basic
<1>3. PICK n \in HeaderReads : \E b \in {ReadInto(hin, n)} : \E p \in {PhrParseRequest(Kinds(b), nh, prev)} :
          /\ got' = got + n
          /\ ready' = IF parse THEN ready ELSE n = Room
          /\ prev' = Len(b.data)
          /\ nh' = p.headers
          /\ (CASE p.ret = "ok" -> HeadComplete(b, p.n)
                [] p.ret = "again" -> HeadIncomplete(b)
                [] OTHER -> HeadInvalid(b))
  BY Zenon DEF HeaderTurn
<1> DEFINE b == ReadInto(hin, n)
           p == PhrParseRequest(Kinds(b), nh, prev)
<1>4. /\ got' = got + n
      /\ ready' = IF parse THEN ready ELSE n = Room
      /\ prev' = Len(b.data)
      /\ nh' = p.headers
      /\ (CASE p.ret = "ok" -> HeadComplete(b, p.n)
            [] p.ret = "again" -> HeadIncomplete(b)
            [] OTHER -> HeadInvalid(b))
  BY <1>3, Zenon
<1>5. /\ got + n \in 0..sent /\ IsBuffer(b) /\ b.cap = hin.cap /\ b.off = hin.off
      /\ p.ret = "again" => PhrParseRequest(Kinds(b), MaxHeaders, 0).ret # "ok"
  BY <1>2, HeaderReadFacts, StillOpen
<1> HIDE DEF b
<1>6. Len(Kinds(b)) = Len(b.data) /\ Len(b.data) \in Nat
  BY <1>5, KindsFacts
<1>7. /\ p.ret \in {"again", "error", "ok"}
      /\ p.headers \in Nat
      /\ p.ret = "ok" => p.n \in 1..Len(b.data)
  BY <1>6, ParseFacts
<1> HIDE DEF p
<1>8. HeaderCommon(b)
  <2>1. ready' \in BOOLEAN
    BY <1>1, <1>4 DEF Basic
  <2>2. stale' \in {"no", "freed", "unmapped"} /\ rev = "none" /\ parse' \in BOOLEAN
    BY <1>1, <1>2 DEF Basic, Handlers
  <2>3. TurnCommon
    BY <1>2, <1>4, <1>5, <1>6, <1>7, <2>1, <2>2, Zenon DEF TurnCommon
  <2> QED BY <1>2, <1>4, <1>5, <2>2, <2>3 DEF HeaderCommon
<1>9. CASE p.ret = "ok"
  <2>1. HeadComplete(b, p.n)
    BY <1>4, <1>9
  <2> QED BY <1>7, <1>8, <1>9, <2>1, HeadCompleteKeeps
<1>10. CASE p.ret = "again"
  <2>1. HeadIncomplete(b) /\ PhrParseRequest(Kinds(b), MaxHeaders, 0).ret # "ok"
    BY <1>4, <1>5, <1>10
  <2> QED BY <1>8, <2>1, HeadIncompleteKeeps
<1>11. CASE p.ret = "error"
  <2>1. HeadInvalid(b)
    BY <1>4, <1>11
  <2> QED BY <1>8, <2>1, HeadInvalidKeeps
<1> QED BY <1>7, <1>9, <1>10, <1>11
-----------------------------------------------------------------------------
(* A turn of the entity handler.                                           *)

\* What the entity handler does in every turn, b being the buffer it parses.
EntityCommon(b) ==
    /\ on = TRUE /\ pc = "entity" /\ rev = "none"
    /\ IsBuffer(b) /\ b.cap = Reading.cap /\ b.off = Reading.off
    /\ Len(b.data) >= Len(Reading.data)
    /\ Free(b) = Free(Reading) - (Len(b.data) - Len(Reading.data))
    /\ TurnCommon /\ prev' = prev

\* What the parser of the body makes of it.
EntityParsed(b, p) ==
    /\ p.ret \in {"ok", "again", "error", "wild"}
    /\ p.status # "eof"
    /\ p.rb \in RequestBodies /\ SameBody(rb, p.rb)
    /\ IsBuffer(p.buf) /\ p.buf.cap = b.cap /\ p.buf.off = b.off
    /\ Len(p.buf.data) <= Len(b.data)
    /\ p.ret = "ok" =>
          /\ p.entity \in Seq(Places)
          /\ ~rb.split => req.rl + Len(p.entity) <= Len(p.buf.data)
          /\ rb.split => Len(p.buf.data) <= MaxBody \/ Len(p.buf.data) <= BodyBuf
    /\ p.ret = "again" /\ ~req.chunked =>
          /\ p.buf = b
          /\ p.rb.rest = req.len
          /\ Len(b.data) - Skip(rb, req) <= MaxBody
          /\ Len(b.data) - Skip(rb, req) < req.len
    /\ p.ret = "again" /\ req.chunked =>
          p.rb.rest # -1 /\ p.rb.dl = Len(p.buf.data) /\ p.rb.dl = rb.dl

LEMMA EntityParsedFacts ==
    ASSUME ReadInv, NEW b, EntityCommon(b)
    PROVE  EntityParsed(b, BodyParser(b, rb, req))
<1> DEFINE p == BodyParser(b, rb, req)
<1>1. Basic /\ EntityInv /\ ShapeInv
  BY BasicFacts DEF ReadInv
<1>2. /\ pc = "entity" /\ IsBuffer(b) /\ b.cap = Reading.cap /\ b.off = Reading.off
  BY DEF EntityCommon
<1>3. /\ rb \in RequestBodies /\ req \in Requests /\ req.chunked \in BOOLEAN /\ rb.split \in BOOLEAN
      /\ rb.rest \in Int /\ rb.dl \in Nat /\ req.rl \in Nat /\ req.len \in Int
  BY <1>1 DEF Basic, RequestBodies, Requests
<1>4. Len(b.data) \in Nat /\ b.cap \in Nat /\ Len(b.data) <= b.cap
  BY <1>2, BufferFacts
<1>5. CASE ~req.chunked
  <2>1. req.len >= 0 /\ rb.rest \in {-1, req.len}
    BY <1>1, <1>2, <1>5 DEF EntityInv
  <2>2. p = BodyLength(b, rb, req)
    BY <1>5 DEF BodyParser
  <2>3. LengthParsed(b, rb, req, p)
    BY <1>2, <1>3, <2>1, <2>2, LengthFacts
  <2> HIDE DEF p
  <2>4. /\ p.ret \in {"ok", "again", "error"} /\ p.buf = b /\ p.status # "eof"
        /\ p.rb \in RequestBodies /\ SameBody(rb, p.rb)
        /\ p.ret # "error" => Len(b.data) - Skip(rb, req) <= MaxBody
        /\ p.ret = "again" => Len(b.data) - Skip(rb, req) < req.len /\ p.rb.rest = req.len
        /\ p.ret = "ok" => p.entity \in Seq(Places) /\ Skip(rb, req) + Len(p.entity) <= Len(b.data)
    BY <2>3 DEF LengthParsed
  <2>5. p.ret = "ok" /\ rb.split => Len(b.data) <= MaxBody
    BY <1>4, <2>4 DEF Skip
  <2>6. p.ret = "ok" /\ ~rb.split => req.rl + Len(p.entity) <= Len(b.data)
    BY <2>4 DEF Skip
  <2>7. Len(b.data) <= Len(b.data)
    BY <1>4
  <2> QED BY <1>2, <1>5, <2>4, <2>5, <2>6, <2>7 DEF EntityParsed, p
<1>6. CASE req.chunked
  <2>1. rb.split /\ (rb.rest = -1 => rb.dl = 0)
    BY <1>1, <1>2, <1>6 DEF EntityInv
  <2>2. DecodedBefore(rb, req) = rb.dl
    BY <1>3, <2>1 DEF DecodedBefore
  <2>3. p = BodyChunked(b, rb, req)
    BY <1>6 DEF BodyParser
  <2>4. \A i \in Places : wire[i] \in WireBytes
    BY <1>1, WireType DEF ShapeInv
  <2>5. ChunkedParsed(b, rb, req, p)
    BY <1>2, <1>3, <2>1, <2>3, <2>4, ChunkedFacts
  <2> HIDE DEF p
  <2>6. /\ p.ret \in {"ok", "again", "error", "wild"} /\ p.status # "eof"
        /\ p.rb \in RequestBodies /\ SameBody(rb, p.rb) /\ p.rb.rest # -1
        /\ IsBuffer(p.buf) /\ p.buf.cap = b.cap /\ p.buf.off = b.off
        /\ Len(p.buf.data) <= Len(b.data)
        /\ p.ret = "again" => p.rb.dl = Len(p.buf.data) /\ p.rb.dl >= rb.dl /\ p.rb.dl \in {0, rb.dl}
        /\ p.ret = "ok" => p.entity \in Seq(Places) /\ rb.dl = 0
    BY <2>1, <2>2, <2>5 DEF ChunkedParsed
  <2>7. p.ret = "again" => p.rb.dl = rb.dl
    BY <1>3, <2>6
  <2>8. p.ret = "ok" => Len(p.buf.data) <= BodyBuf
    <3>1. rb.dl = 0 => b.cap = BodyBuf
      BY <1>1, <1>2, <1>6, <2>1 DEF EntityInv, Reading
    <3>2. Len(p.buf.data) \in Nat /\ Len(p.buf.data) <= p.buf.cap
      BY <2>6, BufferFacts
    <3> QED BY <2>6, <3>1, <3>2
  <2> QED BY <1>6, <2>1, <2>6, <2>7, <2>8 DEF EntityParsed, p
<1> QED BY <1>3, <1>5, <1>6

\* The buffer that was read into becomes g.
LEMMA SetReadingMeans ==
    ASSUME rb \in RequestBodies, NEW r \in RequestBodies, SameBody(rb, r), NEW g \in Buffers,
           SetReading(g, r)
    PROVE  /\ rb' \in RequestBodies /\ rb'.split = rb.split /\ rb'.rest = r.rest /\ rb'.dl = r.dl
           /\ rb.split => rb'.buf = g /\ hin' = hin
           /\ ~rb.split => rb'.buf = rb.buf /\ hin' = g
<1>1. r.buf = rb.buf /\ r.split = rb.split
  BY DEF SameBody
<1>2. CASE rb.split
  <2>1. rb' = [r EXCEPT !.buf = g] /\ hin' = hin
    BY <1>1, <1>2 DEF SetReading
  <2> DEFINE x == [r EXCEPT !.buf = g]
  <2>2. x \in RequestBodies /\ x.buf = g /\ x.split = r.split /\ x.rest = r.rest /\ x.dl = r.dl
    BY BufField, Zenon
  <2> HIDE DEF x
  <2>3. rb' = x
    BY <2>1 DEF x
  <2> QED BY <1>1, <1>2, <2>1, <2>2, <2>3
<1>3. CASE ~rb.split
  <2>1. rb' = r /\ hin' = g
    BY <1>1, <1>3 DEF SetReading
  <2> QED BY <1>1, <1>3, <2>1
<1> QED BY <1>2, <1>3

\* The buffers after a turn.
Settled ==
    /\ IsBuffer(hin') /\ hin'.cap = hin.cap /\ hin'.off = hin.off
    /\ rb' \in RequestBodies /\ Free(rb'.buf) >= 0 /\ rb'.buf.off = 0
    /\ BodyBound(rb'.buf.cap, hin'.cap)

\* A buffer that is not extended.
LEMMA ParsedSettles ==
    ASSUME ReadInv, NEW b, EntityCommon(b), NEW p, EntityParsed(b, p), SetReading(p.buf, p.rb)
    PROVE  Settled
<1>1. Basic
  BY BasicFacts
<1>2. /\ pc = "entity" /\ p.rb \in RequestBodies /\ SameBody(rb, p.rb)
      /\ IsBuffer(p.buf) /\ p.buf.cap = Reading.cap /\ p.buf.off = Reading.off
  BY DEF EntityCommon, EntityParsed
<1>3. /\ rb' \in RequestBodies
      /\ rb.split => rb'.buf = p.buf /\ hin' = hin
      /\ ~rb.split => rb'.buf = rb.buf /\ hin' = p.buf
  BY <1>1, <1>2, SetReadingMeans DEF Basic, IsBuffer
<1>4. CASE rb.split
  <2>1. Reading = rb.buf
    BY <1>2, <1>4 DEF Reading
  <2>2. rb'.buf = p.buf /\ hin' = hin /\ p.buf.cap = rb.buf.cap /\ p.buf.off = rb.buf.off /\ Free(p.buf) >= 0
    BY <1>2, <1>3, <1>4, <2>1 DEF IsBuffer
  <2> QED BY <1>1, <1>3, <2>2, Zenon DEF Settled, Basic
<1>5. CASE ~rb.split
  <2>1. Reading = hin
    BY <1>5 DEF Reading
  <2>2. rb'.buf = rb.buf /\ hin' = p.buf /\ p.buf.cap = hin.cap /\ p.buf.off = hin.off
    BY <1>2, <1>3, <1>5, <2>1
  <2> QED BY <1>1, <1>2, <1>3, <2>2, Zenon DEF Settled, Basic
<1> QED BY <1>4, <1>5

\* The connection is closed in the middle of the body.
LEMMA EntityCloses ==
    ASSUME ReadInv, TurnCommon, Settled, req' = req, out' = out, NEW status, status # "eof", Close(status)
    PROVE  ReadInv'
<1>1. Basic
  BY BasicFacts
<1>2. pc' = "closed" /\ on' = FALSE /\ rev' = "none" /\ timer' = FALSE /\ why'[2] # "eof"
  BY CloseMeans
<1>3. TurnEnds
  BY <1>1, <1>2, Zenon DEF TurnEnds, Basic, Settled
<1>4. LeftInv'
  BY <1>2 DEF LeftInv
<1> QED BY <1>3, <1>4, EndKeeps

\* The loop goes on.
LEMMA EntityGoesOn ==
    ASSUME ReadInv, NEW b, EntityCommon(b), Settled, EntityInv', SharedBufferStays',
           UNCHANGED <<req, out, event, pc, on, why>>
    PROVE  ReadInv'
<1>1. Basic /\ EventInv
  BY BasicFacts DEF ReadInv
<1>2. on = TRUE /\ pc = "entity" /\ rev = "none" /\ TurnCommon
  BY DEF EntityCommon
<1>3. /\ pc' = "entity" /\ on' = TRUE /\ rev' = "none" /\ timer' = timer /\ out' = out /\ why' = why /\ req' = req
      /\ IsBuffer(hin') /\ hin'.cap = hin.cap /\ hin'.off = hin.off
      /\ rb' \in RequestBodies /\ Free(rb'.buf) >= 0 /\ rb'.buf.off = 0
      /\ BodyBound(rb'.buf.cap, hin'.cap)
  BY <1>2 DEF Settled, event
<1>4. NextBasic
  <2>1. /\ sent' \in 0..Len(wire) /\ got' \in 0..sent' /\ fin' \in BOOLEAN
    BY <1>1, <1>2 DEF Basic, TurnCommon
  <2>2. pc' \in Handlers /\ on' # (rev' # "none")
    BY <1>3 DEF Handlers
  <2>3. HeadBound(hin'.cap, out') /\ req' \in Requests
    BY <1>1, <1>3, Zenon DEF Basic
  <2>4. rev' \in {"none", "added", "active"} /\ on' \in BOOLEAN /\ timer' \in BOOLEAN
    BY <1>1, <1>3 DEF Basic
  <2> QED BY <1>1, <1>2, <1>3, <2>1, <2>2, <2>3, <2>4, Zenon DEF NextBasic, Basic, TurnCommon
<1>5. TypeOK' /\ ShapeInv' /\ MemoryBounded'
  BY <1>4, BasicKept
<1>6. why'[2] # "eof"
  BY <1>1, <1>2, <1>3 DEF EventInv
<1>7. EventInv' /\ LeftInv'
  BY <1>3, <1>6 DEF EventInv, Handlers, LeftInv
<1>8. HeaderInv'
  BY <1>1, <1>3 DEF HeaderInv, Basic
<1>9. OpenInv' /\ StaleInv' /\ EofTrue'
  BY <1>3, <1>6 DEF OpenInv, StaleInv, EofTrue
<1> QED BY <1>5, <1>7, <1>8, <1>9 DEF ReadInv
\* A body that shares the header buffer does not fill it.
LEMMA SharedIsNotFull ==
    ASSUME ReadInv, NEW b, EntityCommon(b), NEW p, EntityParsed(b, p), p.ret = "again", ~rb.split
    PROVE  /\ stale = "no" /\ p.buf = b /\ Len(b.data) # b.cap
           /\ req.rl <= Len(b.data)
           /\ Free(b) >= req.rl + req.len - Len(b.data)
           /\ Len(b.data) < req.rl + req.len
<1>1. Basic /\ EntityInv /\ SharedBufferStays
  BY BasicFacts DEF ReadInv
<1>2. on = TRUE /\ pc = "entity" /\ Reading = hin /\ IsBuffer(b) /\ ~req.chunked /\ stale = "no"
      /\ req.rl <= Len(hin.data)
  BY <1>1 DEF EntityCommon, EntityInv, Reading
<1>3. /\ p.buf = b
      /\ Len(b.data) - req.rl < req.len
  BY <1>2 DEF EntityParsed, Skip
<1>4. /\ Len(b.data) >= Len(hin.data)
      /\ Free(b) = Free(hin) - (Len(b.data) - Len(hin.data))
      /\ Free(hin) >= req.rl + req.len - Len(hin.data)
  BY <1>1, <1>2 DEF EntityCommon, SharedBufferStays
<1>5. /\ Len(b.data) \in Nat /\ b.cap \in Nat /\ b.off \in Nat /\ Free(b) = b.cap - Len(b.data) - b.off
      /\ Len(hin.data) \in Nat /\ Free(hin) \in Int /\ req.rl \in Nat /\ req.len \in Int
  <2>1. IsBuffer(hin) /\ req \in Requests
    BY <1>1 DEF Basic
  <2>2. Len(hin.data) \in Nat /\ Free(hin) \in Int
    <3>1. /\ Len(hin.data) \in Nat /\ hin.cap \in Nat /\ hin.off \in Nat
          /\ Free(hin) = hin.cap - Len(hin.data) - hin.off
      BY <2>1, BufferFacts, Zenon
    <3> QED BY <3>1
  <2>3. Len(b.data) \in Nat /\ b.cap \in Nat /\ b.off \in Nat /\ Free(b) = b.cap - Len(b.data) - b.off
    BY <1>2, BufferFacts, Zenon
  <2>4. req.rl \in Nat /\ req.len \in Int
    BY <2>1 DEF Requests
  <2> QED BY <2>2, <2>3, <2>4
<1> DEFINE l == Len(b.data)
           m == Len(hin.data)
           n == req.rl
           k == req.len
           f == Free(hin)
           c == b.cap
           o == b.off
<1>6. /\ l \in Nat /\ m \in Nat /\ n \in Nat /\ c \in Nat /\ o \in Nat /\ k \in Int /\ f \in Int
      /\ l - n < k /\ l >= m /\ f >= n + k - m /\ n <= m
      /\ Free(b) = c - l - o /\ Free(b) = f - (l - m)
  BY <1>2, <1>3, <1>4, <1>5, Zenon
<1> HIDE DEF l, m, n, k, f, c, o
<1>7. n <= l /\ Free(b) >= n + k - l /\ l < n + k /\ l # c
  BY <1>6
<1> QED BY <1>2, <1>3, <1>7, Zenon DEF l, n, k, c

\* The body is not complete and its buffer becomes g: what it was, when it is
\* not full or an old copy says so, or an extended one.
LEMMA EntityAgainKeeps ==
    ASSUME ReadInv, NEW b, EntityCommon(b), NEW p, EntityParsed(b, p), p.ret = "again",
           NEW g, SetReading(g, p.rb), UNCHANGED <<req, out, event, pc, on, why>>,
           \/ /\ g = p.buf /\ stale' = stale
              /\ stale = "no" => Len(p.buf.data) # p.buf.cap
           \/ /\ Grown(p.buf, g, Grow)
              /\ stale = "no" => Len(p.buf.data) = p.buf.cap
              /\ stale' # "no" => stale # "no" \/ g.cap # p.buf.cap
    PROVE  ReadInv'
<1>1. Basic /\ EntityInv
  BY BasicFacts DEF ReadInv
<1>2. /\ on = TRUE /\ pc = "entity" /\ rev = "none" /\ TurnCommon /\ prev' = prev
      /\ IsBuffer(b) /\ b.cap = Reading.cap /\ b.off = Reading.off
  BY DEF EntityCommon
<1>3. /\ p.rb \in RequestBodies /\ SameBody(rb, p.rb)
      /\ IsBuffer(p.buf) /\ p.buf.cap = b.cap /\ p.buf.off = b.off
      /\ ~req.chunked => /\ p.buf = b /\ p.rb.rest = req.len
                         /\ Len(b.data) - Skip(rb, req) <= MaxBody
                         /\ Len(b.data) - Skip(rb, req) < req.len
      /\ req.chunked => p.rb.rest # -1 /\ p.rb.dl = Len(p.buf.data) /\ p.rb.dl = rb.dl
  BY DEF EntityParsed
<1>4. /\ p.buf.data \in Seq(Places) /\ Len(p.buf.data) \in Nat /\ p.buf.cap \in Nat /\ p.buf.off \in Nat
      /\ Free(p.buf) = p.buf.cap - Len(p.buf.data) - p.buf.off /\ p.buf \in Buffers
      /\ Free(p.buf) >= 0
  BY <1>3, BufferFacts
<1>5. IsBuffer(g) /\ g \in Buffers /\ g.cap \in Nat /\ g.off \in Nat /\ g.data = p.buf.data
      /\ Free(g) = g.cap - Len(p.buf.data) - g.off /\ Free(g) >= 0
  <2>1. IsBuffer(g) /\ g.data = p.buf.data
    BY <1>3 DEF Grown
  <2> QED BY <2>1, BufferFacts
<1>6. /\ rb' \in RequestBodies /\ rb'.split = rb.split /\ rb'.rest = p.rb.rest /\ rb'.dl = p.rb.dl
      /\ rb.split => rb'.buf = g /\ hin' = hin
      /\ ~rb.split => rb'.buf = rb.buf /\ hin' = g
  BY <1>1, <1>3, <1>5, SetReadingMeans DEF Basic
<1>7. /\ pc' = "entity" /\ on' = TRUE /\ req' = req /\ out' = out
  BY <1>2
<1>8. CASE ~rb.split
  <2>1. /\ stale = "no" /\ p.buf = b /\ Len(b.data) # b.cap /\ req.rl <= Len(b.data)
        /\ Free(b) >= req.rl + req.len - Len(b.data)
        /\ Len(b.data) < req.rl + req.len
    BY <1>8, SharedIsNotFull
  <2>2. g = p.buf /\ stale' = stale
    BY <2>1
  <2>3. hin' = b /\ rb'.buf = rb.buf
    BY <1>6, <1>8, <2>1, <2>2
  <2>4. Settled
    BY <2>2, ParsedSettles
  <2>5. ~req.chunked /\ ~req.only /\ req.len >= 0 /\ p.rb.rest = req.len
    BY <1>1, <1>2, <1>3, <1>8 DEF EntityInv
  <2>6. EntityInv'
    BY <1>6, <1>7, <1>8, <2>1, <2>2, <2>3, <2>5 DEF EntityInv
  <2>7. SharedBufferStays'
    BY <1>7, <2>1, <2>3 DEF SharedBufferStays
  <2> QED BY <2>4, <2>6, <2>7, EntityGoesOn
<1>9. CASE rb.split
  <2>1. /\ rb'.buf = g /\ hin' = hin /\ rb'.split
    BY <1>6, <1>9
  <2>2. /\ ~req.only /\ req.rl <= Len(hin.data)
        /\ ~req.chunked => req.len >= 0
        /\ req.chunked => rb.dl <= hin.cap
        /\ req.chunked /\ rb.dl = 0 => p.buf.cap = BodyBuf
        /\ stale # "no" => p.buf.cap > BodyBuf
        /\ p.buf.cap >= BodyBuf /\ p.buf.off = 0
        /\ BodyBound(p.buf.cap, hin.cap)
    BY <1>1, <1>2, <1>3, <1>9 DEF EntityInv, Basic, Reading
  <2>3. hin.cap \in Nat /\ Skip(rb, req) = 0 /\ rb.dl \in Nat
    BY <1>1, <1>9, BufferFacts DEF Basic, Skip, RequestBodies
  <2>4. Len(p.buf.data) <= MaxBody \/ Len(p.buf.data) <= hin.cap
    <3>1. CASE ~req.chunked
      BY <1>3, <1>4, <2>3, <3>1, Limits
    <3>2. CASE req.chunked
      BY <1>3, <2>2, <3>2
    <3> QED BY <3>1, <3>2
  <2>5. /\ g.off = 0 /\ g.cap >= p.buf.cap
        /\ Free(g) = 0 => g.cap > BodyBuf
        /\ stale' # "no" => g.cap > BodyBuf
        /\ BodyBound(g.cap, hin.cap)
        /\ req.chunked /\ p.rb.dl = 0 => g = p.buf
    <3>1. CASE /\ g = p.buf /\ stale' = stale
               /\ stale = "no" => Len(p.buf.data) # p.buf.cap
      BY <1>4, <2>2, <3>1
    <3>2. CASE /\ Grown(p.buf, g, Grow)
               /\ stale = "no" => Len(p.buf.data) = p.buf.cap
               /\ stale' # "no" => stale # "no" \/ g.cap # p.buf.cap
      <4> DEFINE L == Len(p.buf.data)
      <4>1. /\ g.off \in {0, p.buf.off}
            /\ g.cap - L >= Grow
            /\ \/ g.cap = p.buf.cap
               \/ /\ Free(p.buf) < Grow
                  /\ g.cap >= 2 * p.buf.cap
                  /\ g.cap = 2 * p.buf.cap \/ g.cap < 2 * (L + Grow)
        BY <3>2 DEF Grown
      <4>2. L \in Nat
        BY <1>4
      <4>3. g.off = 0 /\ g.cap >= p.buf.cap
        BY <1>4, <1>5, <2>2, <4>1
      <4> HIDE DEF L
      <4>4. Free(g) # 0
        BY <1>5, <4>1, <4>2, <4>3, Limits DEF L
      <4>5. g.cap # p.buf.cap => g.cap > BodyBuf
        BY <1>4, <1>5, <2>2, <4>1, Limits
      <4>6. stale # "no" => g.cap > BodyBuf
        BY <1>4, <1>5, <2>2, <4>3, Limits
      <4>7. BodyBound(g.cap, hin.cap)
        <5>1. CASE g.cap = p.buf.cap
          BY <2>2, <5>1
        <5>2. CASE g.cap # p.buf.cap
          <6>1. Free(p.buf) = p.buf.cap - L
            BY <1>4, <2>2 DEF L
          <6>2. g.cap <= 2 * (L + Grow)
            BY <1>4, <1>5, <4>1, <4>2, <5>2, <6>1, Limits
          <6>3. L <= MaxBody \/ L <= hin.cap
            BY <2>4 DEF L
          <6>4. g.cap <= 2 * (MaxBody + Grow) \/ g.cap <= 2 * (hin.cap + Grow)
            BY <1>5, <2>3, <4>2, <6>2, <6>3, Limits
          <6> QED BY <6>4 DEF BodyBound
        <5> QED BY <5>1, <5>2
      <4>8. ~(req.chunked /\ p.rb.dl = 0)
        <5> SUFFICES ASSUME req.chunked, p.rb.dl = 0 PROVE FALSE
          OBVIOUS
        <5>1. p.buf.cap = BodyBuf /\ L = 0
          BY <1>3, <2>2 DEF L
        <5>2. stale = "no"
          BY <2>2, <5>1, Limits
        <5> QED BY <3>2, <5>1, <5>2, Limits DEF L
      <4> QED BY <3>2, <4>3, <4>4, <4>5, <4>6, <4>7, <4>8
    <3> QED BY <3>1, <3>2
  <2>6. Settled
    <3>1. IsBuffer(hin') /\ hin'.cap = hin.cap /\ hin'.off = hin.off
      BY <1>1, <2>1 DEF Basic
    <3> QED BY <1>5, <1>6, <2>1, <2>5, <3>1 DEF Settled
  <2>7. EntityInv'
    <3>1. g.cap >= BodyBuf
      BY <1>4, <1>5, <2>2, <2>5, Limits
    <3>2. ~req.chunked => p.rb.rest = req.len
      BY <1>3
    <3>3. req.chunked => p.rb.dl <= hin.cap /\ p.rb.rest # -1
      BY <1>3, <2>2
    <3>4. req.chunked /\ p.rb.dl = 0 => g.data = <<>> /\ g.cap = BodyBuf
      <4> SUFFICES ASSUME req.chunked, p.rb.dl = 0 PROVE g.data = <<>> /\ g.cap = BodyBuf
        OBVIOUS
      <4>1. g = p.buf /\ Len(p.buf.data) = 0 /\ p.buf.cap = BodyBuf
        BY <1>3, <2>2, <2>5
      <4>2. p.buf.data = <<>>
        BY <1>4, <4>1
      <4> QED BY <4>1, <4>2
    <3>5. ~req.chunked => Len(g.data) < req.len
      BY <1>3, <1>4, <1>5, <2>3
    <3> QED BY <1>6, <1>7, <2>1, <2>2, <2>5, <3>1, <3>2, <3>3, <3>4, <3>5 DEF EntityInv
  <2>8. SharedBufferStays'
    BY <2>1 DEF SharedBufferStays
  <2> QED BY <2>6, <2>7, <2>8, EntityGoesOn
<1> QED BY <1>8, <1>9
\* The body is complete.
LEMMA EntityDelivers ==
    ASSUME ReadInv, NEW b, EntityCommon(b), NEW p, EntityParsed(b, p), p.ret = "ok",
           SetReading(p.buf, p.rb), req' = [req EXCEPT !.rl = req.rl + Len(p.entity)],
           Deliver(SubSeq(IF rb.split THEN hin.data ELSE p.buf.data, 1, req.rl), p.entity),
           UNCHANGED <<event, why>>
    PROVE  ReadInv'
<1>1. Basic /\ EntityInv /\ EventInv
  BY BasicFacts DEF ReadInv
<1>2. on = TRUE /\ pc = "entity" /\ rev = "none" /\ TurnCommon
  BY DEF EntityCommon
<1>3. /\ p.rb \in RequestBodies /\ SameBody(rb, p.rb) /\ IsBuffer(p.buf)
      /\ p.entity \in Seq(Places)
      /\ ~rb.split => req.rl + Len(p.entity) <= Len(p.buf.data)
      /\ rb.split => Len(p.buf.data) <= MaxBody \/ Len(p.buf.data) <= BodyBuf
  BY DEF EntityParsed
<1>4. /\ rb'.split = rb.split
      /\ rb.split => rb'.buf = p.buf
      /\ ~rb.split => hin' = p.buf
  BY <1>1, <1>3, SetReadingMeans DEF Basic, IsBuffer
<1>5. Settled
  BY ParsedSettles
<1> DEFINE whole == IF rb.split THEN hin.data ELSE p.buf.data
           head == SubSeq(whole, 1, req.rl)
           n == req.rl + Len(p.entity)
<1>6. req.rl \in Nat /\ Len(p.entity) \in Nat /\ n \in Nat
  BY <1>1, <1>3 DEF Basic, Requests
<1>7. whole \in Seq(Places) /\ req.rl <= Len(whole)
  <2>1. CASE rb.split
    BY <1>1, <1>2, <2>1, BufferFacts DEF Basic, EntityInv
  <2>2. CASE ~rb.split
    <3>1. p.buf.data \in Seq(Places) /\ Len(p.buf.data) \in Nat
      BY <1>3, BufferFacts
    <3> QED BY <1>3, <1>6, <2>2, <3>1
  <2> QED BY <2>1, <2>2
<1>8. Deliver(head, p.entity)
  OBVIOUS
<1> HIDE DEF whole
<1>9. head \in Seq(Places)
  BY <1>6, <1>7, PrefixFacts
<1> HIDE DEF head
<1>10. pc' = "process" /\ on' = FALSE /\ out' \in Seq(Delivered) /\ out' # <<>>
  BY <1>1, <1>3, <1>8, <1>9, DeliverMeans DEF Basic
<1>11. req' \in Requests /\ req'.rl = n
  <2>1. req' = [req EXCEPT !.rl = n] /\ req \in Requests
    BY <1>1 DEF Basic
  <2> HIDE DEF n
  <2>2. [req EXCEPT !.rl = n] \in Requests /\ [req EXCEPT !.rl = n].rl = n
    BY <1>6, <2>1 DEF Requests
  <2> QED BY <2>1, <2>2
<1>12. ~req'.only
  <2>1. req'.only = req.only
    BY <1>1 DEF Basic, Requests
  <2> QED BY <1>1, <1>2, <2>1 DEF EntityInv
<1>13. TurnEnds
  <2>1. pc' \in {"process", "http2", "closed"} /\ rev' = "none" /\ why'[2] # "eof" /\ timer' \in BOOLEAN
    BY <1>1, <1>2, <1>10 DEF EventInv, Basic, event
  <2> QED BY <1>5, <1>10, <1>11, <2>1, Zenon DEF TurnEnds, Settled
<1>14. LeftInv'
  <2>1. CASE rb.split
    BY <1>3, <1>4, <1>12, <2>1 DEF LeftInv
  <2>2. CASE ~rb.split
    BY <1>3, <1>4, <1>11, <2>2 DEF LeftInv
  <2> QED BY <2>1, <2>2
<1> QED BY <1>2, <1>13, <1>14, EndKeeps

\* pgrest_http_extend_body_buffer, and the test before it.
LEMMA ExtendBodyKeeps ==
    ASSUME ReadInv, NEW b, EntityCommon(b), NEW p, EntityParsed(b, p), p.ret = "again", ExtendBody(p)
    PROVE  ReadInv'
<1> DEFINE g == Reserve(p.buf, Grow)
<1>1. req' = req /\ out' = out
  BY DEF ExtendBody
<1>2. Grown(p.buf, g, Grow)
  <2>1. IsBuffer(p.buf)
    BY DEF EntityParsed
  <2> QED BY <2>1, Limits, ReserveFacts
<1>3. ASSUME stale = "no" => Len(p.buf.data) # p.buf.cap, SetReading(p.buf, p.rb),
             UNCHANGED <<event, stale, pc, on, why>>
      PROVE  ReadInv'
  <2>1. UNCHANGED <<req, out, event, pc, on, why>> /\ stale' = stale
    BY <1>1, <1>3
  <2> QED BY <1>3, <2>1, EntityAgainKeeps
<1>4. ASSUME stale = "no" => Len(p.buf.data) = p.buf.cap, SetReading(g, p.rb),
             stale' = IF stale # "no" \/ g.cap = p.buf.cap THEN stale
                      ELSE IF p.buf.file THEN "unmapped" ELSE "freed",
             UNCHANGED <<event, pc, on, why>>
      PROVE  ReadInv'
  <2> HIDE DEF g
  <2>1. UNCHANGED <<req, out, event, pc, on, why>>
    BY <1>1, <1>4
  <2>2. stale' # "no" => stale # "no" \/ g.cap # p.buf.cap
    BY <1>4
  <2> QED BY <1>2, <1>4, <2>1, <2>2, EntityAgainKeeps
<1>5. ASSUME SetReading(p.buf, p.rb), NEW status \in {"500", "crash"}, Close(status)
      PROVE  ReadInv'
  <2>1. status # "eof" /\ TurnCommon
    BY DEF EntityCommon
  <2>2. Settled
    BY <1>5, ParsedSettles
  <2> QED BY <1>1, <1>5, <2>1, <2>2, EntityCloses
<1> QED BY <1>3, <1>4, <1>5 DEF ExtendBody

LEMMA EntityTurnKeeps ==
    ASSUME ReadInv, EntityTurn
    PROVE  ReadInv'
<1>1. Basic
  BY BasicFacts
<1>2. /\ on = TRUE /\ pc = "entity" /\ pipe' = pipe /\ sent' = sent /\ fin' = fin
      /\ parse' = parse /\ prev' = prev /\ nh' = nh
  BY <1>1 DEF EntityTurn, client, Basic
<1>3. PICK n \in Recv(Room) \ {0, -2} : \E b \in {ReadInto(Reading, n)} : \E p \in {BodyParser(b, rb, req)} :
          /\ got' = got + n
          /\ ready' = (n = Room)
          /\ (CASE p.ret = "ok" ->
                      /\ SetReading(p.buf, p.rb)
                      /\ req' = [req EXCEPT !.rl = req.rl + Len(p.entity)]
                      /\ Deliver(SubSeq(IF rb.split THEN hin.data ELSE p.buf.data, 1, req.rl), p.entity)
                      /\ UNCHANGED <<event, stale, why>>
                [] p.ret = "again" -> ExtendBody(p)
                [] OTHER ->
                      /\ SetReading(p.buf, p.rb)
                      /\ \E status \in (IF p.ret = "wild" THEN {"400", "crash"} ELSE {p.status}) : Close(status)
                      /\ UNCHANGED <<req, stale, out>>)
  BY Zenon DEF EntityTurn
<1> DEFINE b == ReadInto(Reading, n)
           p == BodyParser(b, rb, req)
<1>4. /\ got' = got + n
      /\ ready' = (n = Room)
      /\ (CASE p.ret = "ok" ->
                  /\ SetReading(p.buf, p.rb)
                  /\ req' = [req EXCEPT !.rl = req.rl + Len(p.entity)]
                  /\ Deliver(SubSeq(IF rb.split THEN hin.data ELSE p.buf.data, 1, req.rl), p.entity)
                  /\ UNCHANGED <<event, stale, why>>
            [] p.ret = "again" -> ExtendBody(p)
            [] OTHER ->
                  /\ SetReading(p.buf, p.rb)
                  /\ \E status \in (IF p.ret = "wild" THEN {"400", "crash"} ELSE {p.status}) : Close(status)
                  /\ UNCHANGED <<req, stale, out>>)
  BY <1>3, Zenon
<1>5. ReadStep(n, b)
  BY <1>2, ReadStepFacts
<1> HIDE DEF b, p
<1>6. stale' \in {"no", "freed", "unmapped"}
  <2>1. stale \in {"no", "freed", "unmapped"}
    BY <1>1 DEF Basic
  <2>2. CASE p.ret = "again"
    <3>1. ExtendBody(p)
      BY <1>4, <2>2
    <3>2. stale' \in {stale, "unmapped", "freed"}
      BY <3>1 DEF ExtendBody
    <3> QED BY <2>1, <3>2
  <2>3. CASE p.ret # "again"
    <3>1. stale' = stale
      BY <1>4, <2>3
    <3> QED BY <2>1, <3>1
  <2> QED BY <2>2, <2>3
<1>7. EntityCommon(b)
  <2>1. ready' \in BOOLEAN
    BY <1>4
  <2>2. rev = "none"
    BY <1>1, <1>2 DEF Basic, Handlers
  <2>3. got' \in 0..sent
    BY <1>4, <1>5 DEF ReadStep
  <2>4. TurnCommon
    BY <1>1, <1>2, <1>6, <2>1, <2>3, Zenon DEF TurnCommon, Basic
  <2>5. Len(b.data) >= Len(Reading.data) /\ Free(b) = Free(Reading) - (Len(b.data) - Len(Reading.data))
    <3>1. Len(Reading.data) \in Nat /\ Free(Reading) \in Int
      BY <1>2, ReadingFacts
    <3> DEFINE m == Len(Reading.data)
               f == Free(Reading)
    <3>2. n \in Nat /\ Len(b.data) = m + n /\ Free(b) = f - n
      BY <1>5 DEF ReadStep
    <3> HIDE DEF m, f
    <3>3. Len(b.data) >= m /\ Free(b) = f - (Len(b.data) - m)
      BY <3>1, <3>2 DEF m, f
    <3> QED BY <3>3 DEF m, f
  <2>6. IsBuffer(b) /\ b.cap = Reading.cap /\ b.off = Reading.off
    BY <1>5 DEF ReadStep
  <2> QED BY <1>2, <2>2, <2>4, <2>5, <2>6, Zenon DEF EntityCommon
<1>8. EntityParsed(b, p)
  BY <1>7, EntityParsedFacts DEF p
<1>9. CASE p.ret = "ok"
  <2>1. /\ SetReading(p.buf, p.rb)
        /\ req' = [req EXCEPT !.rl = req.rl + Len(p.entity)]
        /\ Deliver(SubSeq(IF rb.split THEN hin.data ELSE p.buf.data, 1, req.rl), p.entity)
        /\ UNCHANGED <<event, why>>
    BY <1>4, <1>9
  <2> QED BY <1>7, <1>8, <1>9, <2>1, EntityDelivers
<1>10. CASE p.ret = "again"
  <2>1. ExtendBody(p)
    BY <1>4, <1>10
  <2> QED BY <1>7, <1>8, <1>10, <2>1, ExtendBodyKeeps
<1>11. CASE p.ret \notin {"ok", "again"}
  <2>1. /\ SetReading(p.buf, p.rb) /\ req' = req /\ out' = out
        /\ \E status \in (IF p.ret = "wild" THEN {"400", "crash"} ELSE {p.status}) : Close(status)
    BY <1>4, <1>11
  <2>2. PICK status \in (IF p.ret = "wild" THEN {"400", "crash"} ELSE {p.status}) : Close(status)
    BY <2>1
  <2>3. status # "eof"
    BY <1>8 DEF EntityParsed
  <2>4. Settled /\ TurnCommon
    BY <1>7, <1>8, <2>1, ParsedSettles DEF EntityCommon
  <2> QED BY <2>1, <2>2, <2>3, <2>4, EntityCloses
<1> QED BY <1>9, <1>10, <1>11
-----------------------------------------------------------------------------
(* The theorems.                                                           *)

LEMMA InitKeeps ==
    ASSUME Init
    PROVE  ReadInv
<1>1. /\ pipe \in {Sending(p) : p \in Pipelines} /\ sent = 0 /\ fin = FALSE /\ got = 0 /\ pc = "init"
      /\ on = FALSE /\ rev = "added" /\ timer = TRUE /\ ready = FALSE /\ parse = FALSE /\ prev = 0
      /\ nh = MaxHeaders /\ hin = NewBuf(HeaderBuf) /\ req = NoRequest /\ rb = NoBody /\ stale = "no"
      /\ out = <<>> /\ why = <<"", "">>
  BY DEF Init
<1>2. Len(wire) \in Nat
  BY <1>1, WireType
<1>3. /\ IsBuffer(hin) /\ hin.data = <<>> /\ hin.cap = HeaderBuf /\ hin.off = 0 /\ Len(hin.data) = 0
  <2>1. HeaderBuf \in Nat \ {0}
    BY Limits
  <2> QED BY <1>1, <2>1, NewFacts
<1>4. /\ rb \in RequestBodies /\ ~rb.split /\ rb.dl = 0
      /\ rb.buf.cap = 0 /\ rb.buf.off = 0 /\ Free(rb.buf) = 0
      /\ req \in Requests
  BY <1>1, NoneFacts
<1>5. rb.buf \in Buffers /\ rb.split \in BOOLEAN /\ hin \in Buffers /\ Free(hin) >= 0 /\ hin.cap \in Nat
  BY <1>3, <1>4 DEF RequestBodies, IsBuffer, Buffers
<1>6. TypeOK
  <2>1. sent \in 0..Len(wire) /\ got \in 0..sent
    <3>1. 0 \in 0..Len(wire) /\ 0 \in 0..0
      BY <1>2
    <3> QED BY <1>1, <3>1, Zenon
  <2>2. /\ pc \in {"init", "header", "entity", "keepalive", "process", "http2", "closed"}
        /\ rev \in {"none", "added", "active"}
        /\ stale \in {"no", "freed", "unmapped"}
        /\ on # (rev # "none")
    BY <1>1
  <2>3. {fin, on, timer, ready, parse, req.chunked, req.only, rb.split} \subseteq BOOLEAN
    <3>1. req.chunked \in BOOLEAN /\ req.only \in BOOLEAN
      BY <1>4 DEF Requests
    <3> QED BY <1>1, <1>5, <3>1
  <2>4. {prev, nh, req.rl, rb.dl} \subseteq Nat
    <3>1. req.rl \in Nat /\ 0 \in Nat /\ MaxHeaders \in Nat
      BY <1>4, Limits DEF Requests
    <3> QED BY <1>1, <1>4, <3>1, Zenon
  <2>5. \A b \in {hin, rb.buf} : Free(b) >= 0
    BY <1>4, <1>5
  <2> QED BY <1>5, <2>1, <2>2, <2>3, <2>4, <2>5, Zenon DEF TypeOK
<1>7. ShapeInv
  <2>1. out \in Seq(Delivered)
    <3>1. out = <<>>
      BY <1>1
    <3> QED BY <3>1
  <2>2. hin.cap >= 1
    BY <1>3, Limits
  <2> QED BY <1>1, <1>4, <2>1, <2>2, Zenon DEF ShapeInv
<1>8. EventInv
  BY <1>1, <1>3, <1>4 DEF EventInv
<1>9. HeaderInv /\ EntityInv /\ OpenInv /\ StaleInv /\ LeftInv /\ SharedBufferStays
  BY <1>1, <1>3 DEF HeaderInv, EntityInv, OpenInv, StaleInv, LeftInv, SharedBufferStays
<1>10. EofTrue
  BY <1>1 DEF EofTrue
<1>11. MemoryBounded
  <2>1. HeadBound(hin.cap, out) /\ BodyBound(rb.buf.cap, hin.cap)
    BY <1>3, <1>4, Limits DEF HeadBound, BodyBound
  <2>2. hin.cap \in Nat /\ rb.buf.cap \in Nat
    BY <1>4, <1>5
  <2> QED BY <2>1, <2>2, BoundFacts DEF MemoryBounded
<1> QED BY <1>6, <1>7, <1>8, <1>9, <1>10, <1>11 DEF ReadInv

LEMMA StutterKeeps ==
    ASSUME ReadInv, UNCHANGED vars
    PROVE  ReadInv'
<1>1. Basic /\ EventInv
  BY BasicFacts DEF ReadInv
<1>2. /\ UNCHANGED <<pipe, hin, rb, req, out, prev, got, parse>>
      /\ UNCHANGED <<sent, fin, on, timer, ready, nh, rev, pc, stale, why>>
  BY DEF vars, client, event, conn, request, locals
<1>3. Quietly
  BY <1>1, <1>2 DEF Quietly, Basic, EventInv
<1>4. EofTrue'
  BY <1>2 DEF ReadInv, EofTrue
<1> QED BY <1>3, <1>4, QuietKeeps

\* The inductive invariant of the reading of requests: the types, what each
\* handler finds in the buffers when it runs (EventInv, HeaderInv, EntityInv),
\* when the old copy of a buffer may be stale, and what a finished request
\* leaves behind (http_v1.c:134-555, http_request.c:220-360).
THEOREM ReadInvariant == Spec => []ReadInv
<1>1. Init => ReadInv
  BY InitKeeps
<1>2. ReadInv /\ [Next]_vars => ReadInv'
  <2> SUFFICES ASSUME ReadInv, [Next]_vars PROVE ReadInv'
    OBVIOUS
  <2>1. CASE Client
    BY <2>1, SendKeeps, FinKeeps DEF Client
  <2>2. CASE Fire
    BY <2>2, FireKeeps
  <2>3. CASE TimesOut
    BY <2>3, TimesOutKeeps
  <2>4. CASE Handle
    <3>1. CASE InitData
      BY <3>1, InitDataKeeps
    <3>2. CASE KeepaliveData
      BY <3>2, KeepaliveDataKeeps
    <3>3. CASE HeaderTurn
      BY <3>3, HeaderTurnKeeps
    <3>4. CASE EntityTurn
      BY <3>4, EntityTurnKeeps
    <3>5. CASE Read
      BY <3>5, ReadAgainKeeps, ReadAgainFailsKeeps, ReadEofKeeps DEF Read
    <3> QED BY <2>4, <3>1, <3>2, <3>3, <3>4, <3>5 DEF Handle
  <2>5. CASE FinishClose
    BY <2>5, FinishCloseKeeps
  <2>6. CASE FinishKeep
    BY <2>6, FinishKeepKeeps
  <2>7. CASE UNCHANGED vars
    BY <2>7, StutterKeeps
  <2> QED BY <2>1, <2>2, <2>3, <2>4, <2>5, <2>6, <2>7 DEF Next
<1> QED BY <1>1, <1>2, PTL DEF Spec

\* No buffer holds more than its capacity, and a connection that is being read
\* is never forgotten: its handler runs or its event is added.
THEOREM ReadTypeCorrect == Spec => []TypeOK
<1>1. ReadInv => TypeOK
  BY DEF ReadInv
<1> QED BY <1>1, ReadInvariant, PTL

\* A body that shares the header buffer never fills it before it is complete,
\* so the headers that point into it stay valid (http_v1.c:300-444).
THEOREM ReadSharedBufferStays == Spec => []SharedBufferStays
<1>1. ReadInv => SharedBufferStays
  BY DEF ReadInv
<1> QED BY <1>1, ReadInvariant, PTL

\* A handler that waits for bytes needs them: what has been read holds neither
\* a whole head, although the search for its end looks only at the last bytes
\* and the limit on the headers changes from turn to turn, nor a whole entity
\* (http_v1.c:330-555, picohttpparser.c:200-226).
THEOREM ReadWaitsForMore == Spec => []WaitsForMore
<1>1. ReadInv => WaitsForMore
  <2> SUFFICES ASSUME ReadInv PROVE WaitsForMore
    OBVIOUS
  <2>1. OpenInv /\ EntityInv /\ SharedBufferStays
    BY DEF ReadInv
  <2>2. pc = "header" /\ prev # 0 => PhrParseRequest(Kinds(hin), MaxHeaders, 0).ret # "ok"
    BY <2>1 DEF OpenInv
  <2>3. ASSUME pc = "entity", ~req.chunked, req.len > 0
        PROVE  Len(Reading.data) < req.len + (IF rb.split THEN 0 ELSE req.rl)
    <3>1. req.rl \in Nat /\ req.len \in Int /\ Len(rb.buf.data) \in Nat /\ Len(hin.data) \in Nat
      BY BasicFacts DEF Basic, Requests, RequestBodies, Buffers, IsBuffer
    <3>2. CASE rb.split
      BY <2>1, <2>3, <3>1, <3>2 DEF EntityInv, Reading
    <3>3. CASE ~rb.split
      BY <2>1, <2>3, <3>1, <3>3 DEF SharedBufferStays, Reading
    <3> QED BY <3>2, <3>3
  <2> QED BY <2>2, <2>3 DEF WaitsForMore
<1> QED BY <1>1, ReadInvariant, PTL

\* The end of the stream is taken for one only where the client has closed,
\* but for the full buffers that EofTrue lists: there are no others.
THEOREM ReadEofTrue == Spec => []EofTrue
<1>1. ReadInv => EofTrue
  BY DEF ReadInv
<1> QED BY <1>1, ReadInvariant, PTL

\* The memory that a client can make a connection hold is bounded by the
\* limits of the configuration, whatever it sends.
THEOREM ReadMemoryBounded == Spec => []MemoryBounded
<1>1. ReadInv => MemoryBounded
  BY DEF ReadInv
<1> QED BY <1>1, ReadInvariant, PTL

=============================================================================
