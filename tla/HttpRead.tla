------------------------------ MODULE HttpRead ------------------------------
(***************************************************************************)
(* Reading the requests of one HTTP/1 connection: the init, header, entity *)
(* and keep-alive handlers (pg_rest_http_v1.c, pg_rest_http_request.c),    *)
(* the buffers they fill and grow (pg_rest_memory.c), and what they use of *)
(* the request parser and of the decoder of chunked bodies                 *)
(* (picohttpparser.c).                                                     *)
(*                                                                         *)
(* The client sends the bytes of a pipeline of requests in pieces of any   *)
(* size, between any two calls of recv(). A buffer holds the positions its *)
(* bytes have on the wire, so that what is handed to the request handler   *)
(* can be compared with what was sent. One action is one turn of the loop  *)
(* of a handler: a read, and the parsing of what has been read.            *)
(*                                                                         *)
(* Lines end with a single LF, a line is one byte and its LF, and a chunk  *)
(* size is one digit. The functions of the header table are still missing  *)
(* in the code, so that no request has a content length, is chunked or     *)
(* asks for keep-alive; here the requests of the pipeline carry what those *)
(* functions will set.                                                     *)
(***************************************************************************)
EXTENDS Integers, SequencesExt, FiniteSetsExt

CONSTANTS
    Pipelines,   \* the pipelines a client may send: sequences of requests
    HeaderBuf,   \* conf->client_header_buffer_size
    MaxHeader,   \* conf->client_max_header_size
    MaxHeaders,  \* PGREST_HTTP_MAX_HEADERS
    BodyBuf,     \* conf->client_body_buffer_size
    MaxBody,     \* conf->client_max_body_size
    Grow,        \* ALLOCSET_BUFFER_MINSIZE, what a full buffer is extended by
    Limit,       \* PGREST_BUFFER_LIMIT_SIZE, where buffers move to a file
    Fails        \* whether event_add() and the temporary file may fail

\* What follows the head of a request: a body of known length, a chunked one, or
\* one that is said to be chunked and is not; "refused" is a head that
\* pgrest_http_process_header turns down.
Bodies == {"none", "length", "chunked", "garbled", "refused"}

\* The kinds of bytes: the start of a request line, of a header line and of the
\* preface of HTTP/2, a byte no head may have, LF, data and the size of a chunk.
Marks == {"l", "a", "p", "x", "n", "d", "s"}

ASSUME HttpReadAssumption ==
    /\ {HeaderBuf, MaxHeader, MaxHeaders, BodyBuf, MaxBody, Grow, Limit} \subseteq Nat \ {0}
    /\ Fails \in BOOLEAN
    /\ \A p \in Pipelines :
           p \in Seq([head : Seq(Marks), body : Bodies, chunks : Seq(Nat)])

VARIABLES
    pipe,   \* the pipeline of this client, its bytes and where its requests lie
    sent,   \* how many of its bytes have arrived in the socket
    fin,    \* the client has closed its side
    got,    \* how many bytes recv() has taken out of the socket
    pc,     \* conn->rev_handler, "process" for the request handler
    on,     \* the handler is running
    rev,    \* conn->rev: "none", "added" (pending) or "active"
    timer,  \* the pending event has a time out
    ready,  \* conn->ready
    parse,  \* hconn->parse: the buffer holds bytes that were not parsed yet
    prev,   \* hconn->prev_size
    nh,     \* num_headers, local to the header handler
    hin,    \* conn->buffer, which is also req->header_in
    req,    \* the request: request_length, content_length_n, chunked, header_only
    rb,     \* req->request_body
    stale,  \* buf, local to the entity handler, after the buffer has moved:
            \* "no" (it has not), "freed" or "unmapped"
    out,    \* the requests handed to pgrest_http_process_request
    why     \* where and why the connection was closed

client == <<pipe, sent, fin>>
event == <<rev, timer>>
conn == <<got, ready, parse, prev, hin>>
request == <<req, rb>>
locals == <<nh, stale>>
vars == <<client, event, conn, request, locals, pc, on, out, why>>

-----------------------------------------------------------------------------
(* The bytes of a pipeline.                                                *)

Byte(k, v) == [k |-> k, v |-> v]
Data(n) == [i \in 1..n |-> Byte("d", 0)]
Plain(ks) == [i \in DOMAIN ks |-> Byte(ks[i], 0)]
Chunk(n) == <<Byte("s", n), Byte("n", 0)>> \o Data(n) \o (IF n = 0 THEN <<>> ELSE Plain(<<"n">>))
Total(r) == Len(FlattenSeq([i \in DOMAIN r.chunks |-> Data(r.chunks[i])]))

BodyBytes(r) ==
    CASE r.body \in {"length", "garbled"} -> Data(Total(r))
      [] r.body = "chunked" ->
             FlattenSeq([i \in DOMAIN r.chunks |-> Chunk(r.chunks[i])]) \o Chunk(0) \o Plain(<<"n">>)
      [] OTHER -> <<>>

Bytes(r) == Plain(r.head) \o BodyBytes(r)

\* The i-th request of a pipeline as the client sends it: the position of its
\* first byte, and the positions of its head and of the data of its body.
Laid(p, i) ==
    LET first == 1 + Len(FlattenSeq([j \in 1..i - 1 |-> Bytes(p[j])]))
        at == [j \in DOMAIN Bytes(p[i]) |-> first + j - 1]
    IN  [first |-> first,
         head |-> SubSeq(at, 1, Len(p[i].head)),
         entity |-> SelectSeq(at, LAMBDA j : Bytes(p[i])[j - first + 1].k = "d")]

\* A pipeline on the wire.
Sending(p) ==
    [reqs |-> p,
     wire |-> FlattenSeq([i \in DOMAIN p |-> Bytes(p[i])]),
     laid |-> [i \in DOMAIN p |-> Laid(p, i)]]

wire == pipe.wire

-----------------------------------------------------------------------------
(* pg_rest_memory.c                                                        *)

NewBuf(n) == [data |-> <<>>, off |-> 0, cap |-> n, file |-> FALSE]
Free(b) == b.cap - Len(b.data) - b.off
Reset(b) == [b EXCEPT !.data = <<>>, !.off = 0]

Consume(b, n) ==
    IF Len(b.data) = n
    THEN Reset(b)
    ELSE [b EXCEPT !.data = SubSeq(@, n + 1, Len(@)), !.off = @ + n]

\* A capacity shifted left up to m times.
Doubled(c, m) ==
    LET times[k \in 0..m] == IF k = 0 THEN c ELSE 2 * times[k - 1] IN times

\* The first capacity with room for n bytes behind those held.
Enough(c, held, n) ==
    Min({d \in {Doubled(c, n + held)[k] : k \in 1..(n + held)} : d - held >= n})

\* pgrest_buffer_reserve: there is room behind the bytes, or there is once
\* they are moved to the front, or the capacity is doubled until there is.
\* Beyond the limit the new buffer is a mapped file, in which pos stays.
Reserve(b, n) ==
    LET held == Len(b.data)
        cap == Enough(b.cap, held, n)
    IN  CASE Free(b) >= n -> b
          [] Free(b) < n /\ 2 * (held + n) <= b.cap -> [b EXCEPT !.off = 0]
          [] OTHER -> [b EXCEPT !.cap = cap,
                                !.off = IF b.file THEN @ ELSE 0,
                                !.file = cap > Limit]

\* mkstemp(), posix_fallocate() or mmap() fails.
ReserveFails(b, n) == Fails /\ Reserve(b, n).file /\ Reserve(b, n).cap # b.cap

-----------------------------------------------------------------------------
(* picohttpparser.c                                                        *)

Kinds(b) == [i \in DOMAIN b.data |-> wire[b.data[i]].k]

\* Seeded fault: the search for the blank line starts behind what was parsed.
IsCompleteNew(ks, last) ==
    \E i \in last + 1..Len(ks) - 1 : ks[i] = "n" /\ ks[i + 1] = "n"

\* is_complete: a blank line, looked for from three bytes before the last end.
IsComplete(ks, last) ==
    \E i \in Max({1, last - 2})..Len(ks) - 1 : ks[i] = "n" /\ ks[i + 1] = "n"

\* Where the request line starts, behind one empty line.
LineStart(ks) == IF ks # <<>> /\ ks[1] = "n" THEN 2 ELSE 1

\* parse_request and parse_headers: the byte at position i may stand there,
\* when the request line starts at s and there are max slots for headers.
Allowed(ks, s, max, i) ==
    CASE i = s -> ks[i] = "l"
      [] i > s /\ (i - s) % 2 = 1 -> ks[i] = "n"
      [] OTHER -> ks[i] = "n" \/ (ks[i] = "a" /\ i - s - 2 < 2 * max)

\* phr_parse_request: the length of the head, or that it is not complete or
\* not valid, and the number of header lines that were read.
PhrParseRequest(ks, max, last) ==
    LET s == LineStart(ks)
        blank == {i \in s + 2..Len(ks) : (i - s) % 2 = 0 /\ ks[i] = "n"}
        end == IF blank = {} THEN Len(ks) ELSE Min(blank)
        lines == Max({0, end - s - 1}) \div 2
    IN  CASE last # 0 /\ ~IsComplete(ks, last) -> [ret |-> "again", n |-> 0, headers |-> 0]
          [] ~(last # 0 /\ ~IsComplete(ks, last)) /\ \E i \in s..end : ~Allowed(ks, s, max, i) ->
                 [ret |-> "error", n |-> 0, headers |-> lines]
          [] OTHER -> [ret |-> IF blank = {} THEN "again" ELSE "ok", n |-> end, headers |-> lines]

\* The decoder: its state, the bytes left in the chunk, the digits of its size,
\* what it has decoded and, once it is complete, what it has not looked at.
Decoder == [state |-> "size", left |-> 0, hex |-> 0, ret |-> "again", data |-> <<>>, rest |-> <<>>]

\* CHUNKED_IN_CHUNK_EXT: a line whose chunk is empty is followed by trailers.
DecodeExt(d, b) ==
    IF b.k = "n"
    THEN [d EXCEPT !.state = IF d.left = 0 THEN "trailer" ELSE "data", !.hex = 0]
    ELSE [d EXCEPT !.state = "ext", !.hex = 0]

\* One byte, at position i of the wire, in each state of the decoder.
DecodeByte(d, i) ==
    LET b == wire[i]
    IN  CASE d.ret # "again" -> [d EXCEPT !.rest = Append(@, i)]
          [] d.ret = "again" /\ d.state = "size" /\ b.k = "s" ->
                 IF d.hex = 16
                 THEN [d EXCEPT !.ret = "error"]
                 ELSE [d EXCEPT !.left = 16 * @ + b.v, !.hex = @ + 1]
          [] d.ret = "again" /\ d.state = "size" /\ b.k # "s" ->
                 IF d.hex = 0 THEN [d EXCEPT !.ret = "error"] ELSE DecodeExt(d, b)
          [] d.ret = "again" /\ d.state = "ext" -> DecodeExt(d, b)
          [] d.ret = "again" /\ d.state = "data" ->
                 [d EXCEPT !.data = Append(@, i), !.left = @ - 1,
                           !.state = IF d.left = 1 THEN "crlf" ELSE "data"]
          [] d.ret = "again" /\ d.state = "crlf" ->
                 IF b.k = "n" THEN [d EXCEPT !.state = "size"] ELSE [d EXCEPT !.ret = "error"]
          [] d.ret = "again" /\ d.state = "trailer" ->
                 IF b.k = "n" THEN [d EXCEPT !.ret = "ok"] ELSE [d EXCEPT !.state = "middle"]
          [] OTHER -> IF b.k = "n" THEN [d EXCEPT !.state = "trailer"] ELSE d

\* phr_decode_chunked, applied to bytes that follow those it has decoded before.
PhrDecodeChunked(d, data) ==
    LET after[n \in 0..Len(data)] ==
            IF n = 0
            THEN [d EXCEPT !.ret = "again", !.data = <<>>, !.rest = <<>>]
            ELSE CHOOSE next \in {DecodeByte(before, data[n]) : before \in {after[n - 1]}} : TRUE
    IN  after[Len(data)]

-----------------------------------------------------------------------------
(* The body of a request: pg_rest_http_v1.c.                               *)

NoRequest == [rl |-> 0, len |-> -1, chunked |-> FALSE, only |-> FALSE]
NoBody == [buf |-> NewBuf(0), split |-> FALSE, rest |-> -1, dl |-> 0, dec |-> Decoder]

\* What a body parser leaves behind: its result, the buffer and the body, the
\* entity if it is complete, and the status it refuses the request with.
Parsed(ret, b, r, entity, status) ==
    [ret |-> ret, buf |-> b, rb |-> r, entity |-> entity, status |-> status]

\* pgrest_http_body_chunked. The limit on the size of the body is tested with
\* an operator precedence that makes every decoded byte of a body in a buffer
\* of its own exceed it. A body of which some bytes were decoded in the header
\* buffer has a decode_length that may lie behind its own buffer ("wild").
BodyChunked(b, r, q) ==
    LET r0 == IF r.rest = -1 THEN [r EXCEPT !.rest = 3, !.dl = IF r.split THEN 0 ELSE q.rl] ELSE r
        size == Len(b.data) - r0.dl
        Result(d) ==
            LET decoded == SubSeq(b.data, 1, r0.dl) \o d.data
                r1 == [r0 EXCEPT !.dl = Len(decoded), !.dec = [d EXCEPT !.data = <<>>, !.rest = <<>>]]
                b1 == [b EXCEPT !.data = decoded \o d.rest]
                big == IF r.split THEN decoded # <<>> ELSE Len(decoded) - q.rl >= MaxBody
            IN  CASE d.ret = "error" -> Parsed("error", b, r0, <<>>, "400")
                  [] d.ret # "error" /\ big -> Parsed("error", b, r1, <<>>, "413")
                  [] d.ret = "again" /\ ~big -> Parsed("again", b1, r1, <<>>, "")
                  [] OTHER -> Parsed("ok", b1, [r1 EXCEPT !.rest = 0],
                                     IF r.split THEN decoded ELSE SubSeq(decoded, q.rl + 1, Len(decoded)), "")
    IN  CASE size = 0 -> Parsed("again", b, r0, <<>>, "")
          [] size < 0 -> Parsed("wild", b, r0, <<>>, "")
          [] OTHER -> CHOOSE p \in {Result(d) : d \in {PhrDecodeChunked(r0.dec, SubSeq(b.data, r0.dl + 1, Len(b.data)))}} : TRUE

\* Seeded fault: the entity of a shared buffer is looked for at its front.
BodyLengthAtFront(b, r, q) ==
    IF Len(b.data) - (IF r.split THEN 0 ELSE q.rl) < q.len
    THEN Parsed("again", b, [r EXCEPT !.rest = q.len], <<>>, "")
    ELSE Parsed("ok", b, [r EXCEPT !.rest = 0], SubSeq(b.data, 1, q.len), "")

\* pgrest_http_body_length. The size that is limited counts whatever follows
\* the head in the buffer, the next request of the pipeline included.
BodyLength(b, r, q) ==
    LET skip == IF r.split THEN 0 ELSE q.rl
        size == Len(b.data) - skip
        r0 == IF r.rest = -1 THEN [r EXCEPT !.rest = q.len] ELSE r
    IN  CASE MaxBody < size -> Parsed("error", b, r, <<>>, "413")
          [] MaxBody >= size /\ size < r0.rest -> Parsed("again", b, r0, <<>>, "")
          [] OTHER -> Parsed("ok", b, [r0 EXCEPT !.rest = 0], SubSeq(b.data, skip + 1, skip + q.len), "")

BodyParser(b, r, q) == IF q.chunked THEN BodyChunked(b, r, q) ELSE BodyLength(b, r, q)

-----------------------------------------------------------------------------
(* Reading, and the ends of a request.                                     *)

Close(status) == pc' = "closed" /\ on' = FALSE /\ why' = <<pc, status>> /\ rev' = "none" /\ timer' = FALSE

\* pgrest_http_process_request gets the request.
Deliver(head, entity) ==
    /\ pc' = "process"
    /\ on' = FALSE
    /\ out' = Append(out, [head |-> head, entity |-> entity])

\* The client: bytes arrive, or it closes its side.
Send(n) ==
    /\ ~fin
    /\ sent' = sent + n
    /\ UNCHANGED <<pipe, fin, event, conn, request, locals, pc, on, out, why>>

Fin ==
    /\ ~fin
    /\ fin' = TRUE
    /\ UNCHANGED <<pipe, sent, event, conn, request, locals, pc, on, out, why>>

\* pgrest_conn_recv with room for some bytes: how many it returns, or -2 for
\* EAGAIN. Without room it returns 0, or EAGAIN if the socket is empty.
Recv(room) ==
    LET empty == sent = got /\ ~fin
    IN  IF room = 0
        THEN IF empty THEN {0, -2} ELSE {0}
        ELSE {IF empty THEN -2 ELSE Min({room, sent - got})}

Taken(n) == SubSeq([i \in 1..sent |-> i], got + 1, got + n)

\* The event fires: pgrest_http_read_handler calls the handler.
Fire ==
    /\ ~on
    /\ rev = "active" \/ (rev = "added" /\ (sent > got \/ fin))
    /\ on' = TRUE
    /\ rev' = "none"
    /\ timer' = FALSE
    /\ ready' = TRUE
    /\ nh' = MaxHeaders
    /\ stale' = "no"
    /\ UNCHANGED <<client, got, parse, prev, hin, request, pc, out, why>>

\* Every handler closes the connection when its time is up, whatever arrived.
TimesOut ==
    /\ ~on
    /\ rev # "none"
    /\ timer
    /\ Close("timeout")
    /\ UNCHANGED <<client, conn, request, locals, out>>

\* The buffer that the running handler reads into.
Reading == IF pc = "entity" /\ rb.split THEN rb.buf ELSE hin

\* pgrest_conn_recv into it; a full read leaves the connection ready.
Room == IF pc = "init" THEN HeaderBuf ELSE Free(Reading)

\* Seeded fault: the handler returns and its event is not added again.
WaitsUnarmed(timeout) == rev' = "none" /\ timer' = timeout /\ on' = FALSE

\* The event is added again and the handler returns.
Waits(timeout) == rev' = "added" /\ timer' = timeout /\ on' = FALSE

\* Seeded fault: the handler waits for the next bytes without a time out.
ReadAgainForever ==
    /\ on
    /\ ~parse
    /\ ~ready \/ -2 \in Recv(Room)
    /\ ready' = FALSE
    /\ Waits(FALSE)
    /\ UNCHANGED <<client, got, parse, prev, hin, request, locals, pc, out, why>>

\* Nothing to read: every handler adds its event again, the keep-alive
\* handler without its time out.
ReadAgain ==
    /\ on
    /\ ~parse
    /\ \/ pc \in {"header", "entity"} /\ ~ready
       \/ -2 \in Recv(Room)
    /\ ready' = FALSE
    /\ Waits(pc # "keepalive")
    /\ UNCHANGED <<client, got, parse, prev, hin, request, locals, pc, out, why>>

ReadAgainFails ==
    /\ Fails
    /\ on
    /\ ~parse
    /\ -2 \in Recv(Room)
    /\ ready' = FALSE
    /\ Close("event")
    /\ UNCHANGED <<client, got, parse, prev, hin, request, locals, out>>

\* recv() returns 0: the client has closed, or is thought to have.
ReadEof ==
    /\ on
    /\ ~parse
    /\ pc \in {"header", "entity"} => ready
    /\ 0 \in Recv(Room)
    /\ Close("eof")
    /\ UNCHANGED <<client, conn, request, locals, out>>

\* n bytes are added to the buffer, read into b.
ReadInto(b, n) == [b EXCEPT !.data = @ \o Taken(n)]

-----------------------------------------------------------------------------
(* pgrest_http_process_entity, on the header buffer b and the request q.   *)

\* What is kept in the header buffer when the whole body fits behind it.
ShareBuffer(b, r) ==
    /\ hin' = b
    /\ rb' = r

\* The body gets a buffer of its own, and what was read of it is copied: the
\* bytes of the header buffer behind the head, the decoded ones of a chunked
\* body at their front and undecoded ones for the rest of their number.
SplitBuffer(b, decoded, r, q) ==
    LET preread == SubSeq(decoded.data, q.rl + 1, Len(decoded.data))
                   \o SubSeq(b.data, Len(decoded.data) + 1, Len(b.data))
        body == [Reserve(NewBuf(BodyBuf), Len(preread)) EXCEPT !.data = preread]
    IN  /\ rb' = [r EXCEPT !.split = TRUE, !.buf = body]
        /\ hin' = [decoded EXCEPT !.data = SubSeq(@, 1, q.rl)]

\* Seeded fault: the body shares the buffer if it fits into its capacity.
FitsCapacity(left, b) == left > 0 /\ left <= b.cap - Len(b.data)

\* The rest of the body fits into the free part of the header buffer.
FitsBehind(left, b) == left > 0 /\ left <= Free(b)

ProcessEntity(b, q) ==
    LET preread == Len(b.data) - q.rl
        left == IF q.chunked THEN 0 ELSE q.len - preread
    IN  \E p \in {IF preread > 0 THEN BodyParser(b, NoBody, q) ELSE Parsed("again", b, NoBody, <<>>, "")} :
            CASE p.ret = "ok" ->
                 /\ hin' = p.buf
                 /\ rb' = p.rb
                 /\ req' = [q EXCEPT !.rl = @ + Len(p.entity)]
                 /\ Deliver(SubSeq(b.data, 1, q.rl), p.entity)
                 /\ UNCHANGED <<event, why>>
          [] p.ret = "error" ->
                 /\ hin' = b
                 /\ rb' = p.rb
                 /\ req' = q
                 /\ Close(p.status)
                 /\ UNCHANGED out
          [] OTHER ->
                 /\ IF FitsBehind(left, p.buf) THEN ShareBuffer(p.buf, p.rb) ELSE SplitBuffer(b, p.buf, p.rb, q)
                 /\ req' = q
                 /\ pc' = "entity"
                 /\ UNCHANGED <<event, on, out, why>>

-----------------------------------------------------------------------------
(* The handlers.                                                           *)

\* The init handler creates the request, marks its first bytes for parsing
\* and goes on as the header handler.
InitData ==
    /\ on
    /\ pc = "init"
    /\ \E n \in Recv(Room) \ {0, -2} :
           /\ hin' = ReadInto(hin, n)
           /\ got' = got + n
           /\ ready' = (n = Room)
    /\ parse' = TRUE
    /\ pc' = "header"
    /\ UNCHANGED <<client, event, prev, request, locals, on, out, why>>

\* So does the keep-alive handler, but it does not mark them.
KeepaliveData ==
    /\ on
    /\ pc = "keepalive"
    /\ \E n \in Recv(Room) \ {0, -2} :
           /\ hin' = ReadInto(hin, n)
           /\ got' = got + n
           /\ ready' = (n = Room)
    /\ pc' = "header"
    /\ UNCHANGED <<client, event, parse, prev, request, locals, on, out, why>>

\* The request of the pipeline whose head starts the buffer; no request, if
\* the buffer starts anywhere else.
Starting(b) == {i \in DOMAIN pipe.laid : pipe.laid[i].first = b.data[1]}
BodyOf(b) == IF Starting(b) = {} THEN "none" ELSE pipe.reqs[Max(Starting(b))].body

\* pgrest_http_process_header, and what its headers will have set.
Request(b, n) ==
    [rl |-> n,
     len |-> IF BodyOf(b) = "length" THEN Total(pipe.reqs[Max(Starting(b))]) ELSE -1,
     chunked |-> BodyOf(b) \in {"chunked", "garbled"},
     only |-> BodyOf(b) = "none"]

\* The head is complete and has n bytes.
HeadComplete(b, n) ==
    CASE BodyOf(b) = "refused" ->
             hin' = b /\ req' = Request(b, n) /\ Close("header") /\ UNCHANGED <<rb, out>>
      [] BodyOf(b) = "none" ->
             /\ hin' = b
             /\ req' = Request(b, n)
             /\ Deliver(SubSeq(b.data, 1, n), <<>>)
             /\ UNCHANGED <<rb, event, why>>
      [] OTHER -> ProcessEntity(b, Request(b, n))

\* Seeded fault: the size of the head is not compared with its maximum.
ExtensionUnlimited(b) == IF 2 * Len(b.data) > b.cap THEN Grow ELSE b.cap \div 2 - Len(b.data)

\* Seeded fault: a full buffer is asked for the room it has.
ExtensionFree(b) == IF Len(b.data) > MaxHeader THEN -1 ELSE Free(b)

\* pgrest_http_extend_header_buffer: what is reserved, -1 if it is declined.
Extension(b) ==
    CASE Len(b.data) > MaxHeader -> -1
      [] Len(b.data) <= MaxHeader /\ Len(b.data) > b.cap \div 2 -> Grow
      [] OTHER -> b.cap \div 2 - Len(b.data)

\* The head is not complete: a full buffer is extended, and the loop goes on.
HeadIncomplete(b) ==
    /\ UNCHANGED <<request, out>>
    /\ \/ /\ Free(b) >= 1 \/ Extension(b) # -1
          /\ hin' = IF Free(b) >= 1 THEN b ELSE Reserve(b, Extension(b))
          /\ UNCHANGED <<event, pc, on, why>>
       \/ /\ Free(b) < 1
          /\ Extension(b) = -1
          /\ hin' = b
          /\ Close("431")
       \/ /\ Free(b) < 1
          /\ Extension(b) # -1 /\ ReserveFails(b, Extension(b))
          /\ hin' = b
          /\ Close("500")

\* The head is not valid: it is the preface of HTTP/2, or a bad request.
HeadInvalid(b) ==
    /\ hin' = b
    /\ UNCHANGED <<request, out>>
    /\ IF Kinds(b)[1] = "p"
       THEN pc' = "http2" /\ on' = FALSE /\ UNCHANGED <<event, why>>
       ELSE Close("400")

\* pgrest_http_read in the header handler: the bytes marked for parsing, or
\* the ones that recv() returns.
HeaderReads == IF parse THEN {0} ELSE IF ready THEN Recv(Room) \ {0, -2} ELSE {}

\* One turn of the loop of pgrest_http_header_handler. num_headers is not set
\* back between two turns: the parser takes it for the size of the array.
HeaderTurn ==
    /\ on
    /\ pc = "header"
    /\ \E n \in HeaderReads : \E b \in {ReadInto(hin, n)} :
           \E p \in {PhrParseRequest(Kinds(b), nh, prev)} :
               /\ got' = got + n
               /\ ready' = IF parse THEN ready ELSE n = Room
               /\ prev' = Len(b.data)
               /\ nh' = p.headers
               /\ CASE p.ret = "ok" -> HeadComplete(b, p.n)
                    [] p.ret = "again" -> HeadIncomplete(b)
                    [] OTHER -> HeadInvalid(b)
    /\ parse' = FALSE
    /\ UNCHANGED <<client, stale>>

\* The buffer of the body is b.
SetReading(b, r) ==
    IF r.split THEN rb' = [r EXCEPT !.buf = b] /\ UNCHANGED hin ELSE rb' = r /\ hin' = b

\* pgrest_http_extend_body_buffer, when the test for a full buffer says so; the
\* test reads the buffer that the handler started with.
ExtendBody(p) ==
    LET b == Reserve(p.buf, Grow)
    IN  /\ UNCHANGED <<req, out>>
        /\ \/ /\ stale = "no" => Len(p.buf.data) # p.buf.cap
              /\ stale # "unmapped"
              /\ SetReading(p.buf, p.rb)
              /\ UNCHANGED <<event, stale, pc, on, why>>
           \/ /\ stale = "no" => Len(p.buf.data) = p.buf.cap
              /\ stale # "unmapped"
              /\ SetReading(b, p.rb)
              /\ stale' = IF stale # "no" \/ b.cap = p.buf.cap THEN stale
                          ELSE IF p.buf.file THEN "unmapped" ELSE "freed"
              /\ UNCHANGED <<event, pc, on, why>>
           \/ /\ stale = "no" => Len(p.buf.data) = p.buf.cap
              /\ stale # "unmapped"
              /\ ReserveFails(p.buf, Grow)
              /\ SetReading(p.buf, p.rb)
              /\ Close("500")
              /\ UNCHANGED stale
           \/ /\ stale = "unmapped"
              /\ SetReading(p.buf, p.rb)
              /\ Close("crash")
              /\ UNCHANGED stale

\* One turn of the loop of pgrest_http_entity_handler.
EntityTurn ==
    /\ on
    /\ pc = "entity"
    /\ ready
    /\ \E n \in Recv(Room) \ {0, -2} : \E b \in {ReadInto(Reading, n)} :
           \E p \in {BodyParser(b, rb, req)} :
               /\ got' = got + n
               /\ ready' = (n = Room)
               /\ CASE p.ret = "ok" ->
                           /\ SetReading(p.buf, p.rb)
                           /\ req' = [req EXCEPT !.rl = @ + Len(p.entity)]
                           /\ Deliver(SubSeq(IF rb.split THEN hin.data ELSE p.buf.data, 1, req.rl), p.entity)
                           /\ UNCHANGED <<event, stale, why>>
                    [] p.ret = "again" -> ExtendBody(p)
                    [] OTHER ->
                           /\ SetReading(p.buf, p.rb)
                           /\ \E status \in (IF p.ret = "wild" THEN {"400", "crash"} ELSE {p.status}) : Close(status)
                           /\ UNCHANGED <<req, stale, out>>
    /\ UNCHANGED <<client, parse, prev, nh>>

-----------------------------------------------------------------------------
(* The end of a request: pgrest_http_finalize_connection.                  *)

\* The request handler ends and the connection is not kept.
FinishClose ==
    /\ pc = "process"
    /\ Close("done")
    /\ UNCHANGED <<client, conn, request, locals, out>>

\* pgrest_http_buffer_left, and the copy in pgrest_http_set_keepalive: the
\* buffer of the connection, holding what was read of the next request.
BufferLeft ==
    LET body == Consume(rb.buf, Len(Last(out).entity)).data
    IN  CASE req.only \/ ~rb.split -> Consume(hin, req.rl)
          [] ~req.only /\ rb.split /\ body = <<>> -> Reset(hin)
          [] OTHER -> [Reserve(Reset(hin), Len(body)) EXCEPT !.data = body]

\* pgrest_http_set_keepalive: the next request of the pipeline is parsed at
\* once, or the connection waits for one.
FinishKeep ==
    LET b == BufferLeft
        left == b.data # <<>>
    IN  /\ pc = "process"
        /\ prev' = 0
        /\ parse' = left
        /\ hin' = b
        /\ req' = NoRequest
        /\ rb' = NoBody
        /\ \/ /\ left
              /\ pc' = "header"
              /\ rev' = "active"
              /\ timer' = FALSE
              /\ UNCHANGED why
           \/ /\ ~left
              /\ pc' = "keepalive"
              /\ rev' = IF ready THEN "active" ELSE "added"
              /\ timer' = TRUE
              /\ UNCHANGED why
           \/ /\ Fails
              /\ ~left
              /\ pc' = "closed"
              /\ why' = <<pc, "event">>
              /\ UNCHANGED event
        /\ UNCHANGED <<client, got, ready, locals, on, out>>

-----------------------------------------------------------------------------

Init ==
    /\ pipe \in {Sending(p) : p \in Pipelines}
    /\ sent = 0
    /\ fin = FALSE
    /\ got = 0
    /\ pc = "init"
    /\ on = FALSE
    /\ rev = "added"
    /\ timer = TRUE
    /\ ready = FALSE
    /\ parse = FALSE
    /\ prev = 0
    /\ nh = MaxHeaders
    /\ hin = NewBuf(HeaderBuf)
    /\ req = NoRequest
    /\ rb = NoBody
    /\ stale = "no"
    /\ out = <<>>
    /\ why = <<"", "">>

Read == ReadAgain \/ ReadAgainFails \/ ReadEof
Handle == InitData \/ KeepaliveData \/ HeaderTurn \/ EntityTurn \/ Read
Client == Fin \/ \E n \in 1..Len(wire) - sent : Send(n)

Next == Client \/ Fire \/ TimesOut \/ Handle \/ FinishClose \/ FinishKeep

\* A worker that has an event to handle, or a handler to finish, does so; time
\* passes. Nothing is assumed of the client or of the request handler.
Spec == Init /\ [][Next]_vars /\ WF_vars(Fire) /\ WF_vars(Handle) /\ WF_vars(TimesOut)

-----------------------------------------------------------------------------
(* Properties.                                                             *)

Buffers == [data : Seq(1..Len(wire)), off : Nat, cap : Nat, file : BOOLEAN]

\* Every variable has its type; no buffer holds more than its capacity, and a
\* connection that is neither closed nor with the request handler has its
\* handler running or its event added.
TypeOK ==
    /\ sent \in 0..Len(wire) /\ got \in 0..sent
    /\ pc \in {"init", "header", "entity", "keepalive", "process", "http2", "closed"}
    /\ {fin, on, timer, ready, parse, req.chunked, req.only, rb.split} \subseteq BOOLEAN
    /\ rev \in {"none", "added", "active"}
    /\ stale \in {"no", "freed", "unmapped"}
    /\ {prev, nh, req.rl, rb.dl} \subseteq Nat
    /\ hin \in Buffers /\ rb.buf \in Buffers
    /\ \A b \in {hin, rb.buf} : Free(b) >= 0
    /\ pc \in {"init", "header", "entity", "keepalive"} => on # (rev # "none")

\* What the request handler gets is what the client has sent, request by
\* request and byte by byte: heads and entities are neither cut, mixed up nor
\* repeated by the growing, sharing, splitting and compacting of buffers.
RequestsExact ==
    /\ Len(out) <= Len(pipe.reqs)
    /\ \A i \in DOMAIN out : out[i].head = pipe.laid[i].head /\ out[i].entity = pipe.laid[i].entity

\* Between the socket and the request handler no byte is lost, repeated or out
\* of order: the buffers hold what was received since the last request.
NothingLost ==
    LET first == IF Len(out) < Len(pipe.laid) THEN pipe.laid[Len(out) + 1].first ELSE Len(wire) + 1
        held == IF pc = "entity" /\ rb.split THEN hin.data \o rb.buf.data ELSE hin.data
    IN  pc \in {"init", "header", "keepalive", "entity"} /\ ~req.chunked =>
            held = [j \in 1..got - first + 1 |-> first + j - 1]

\* Every byte the client sent reaches the request it belongs to, once, in order
\* and whole, or still lies in the buffers (http_v1.c:134-555).
BytesExact == RequestsExact /\ NothingLost

\* A body that shares the header buffer never fills it before it is complete:
\* the path and the headers of the request, which point into it, stay valid.
SharedBufferStays ==
    pc = "entity" /\ ~rb.split => /\ Free(hin) >= req.rl + req.len - Len(hin.data)
                                  /\ Len(hin.data) < req.rl + req.len

\* A handler does not wait for bytes when it has what it needs: the head it
\* has parsed before is incomplete (the first bytes that the keep-alive
\* handler has read it has not parsed), and so is the entity, unless it is
\* empty.
WaitsForMore ==
    ~on /\ rev = "added" =>
        /\ pc = "header" /\ prev # 0 => PhrParseRequest(Kinds(hin), MaxHeaders, 0).ret # "ok"
        /\ pc = "entity" /\ ~req.chunked /\ req.len > 0 =>
               Len(Reading.data) < req.len + (IF rb.split THEN 0 ELSE req.rl)

\* The end of the stream is seen only where the client has closed, but for
\* four full buffers that are not extended before they are read into: the
\* header buffer whose second half holds the start of a request, the one that
\* the keep-alive handler has filled and not parsed, the body buffer that was
\* filled when the body was split off, and the one that has been extended
\* before.
EofTrue ==
    why[2] = "eof" /\ ~fin =>
        \/ why[1] = "header" /\ Free(hin) = 0 /\ Len(hin.data) = hin.cap \div 2 /\ hin.off > 0
        \/ why[1] = "header" /\ Free(hin) = 0 /\ prev = 0
        \/ why[1] = "entity" /\ rb.split /\ (rb.buf.cap > BodyBuf \/ req.rl + Len(rb.buf.data) = prev)

\* The memory a client can make a connection hold is bounded by the limits of
\* the configuration: a header buffer is not extended for a head that is over
\* its maximum; the one of a later request may start in its second half, and
\* may have had to take what a body left over; a body buffer takes what was
\* read into the header buffer, and grows for a body under its own maximum
\* (http_v1.c:330-555, http_request.c:310-360 and 690-735, memory.c:147-215).
MemoryBounded ==
    LET first == Max({HeaderBuf, 2 * (MaxHeader + Grow)})
        later == Max({first, 4 * MaxHeader, 2 * MaxBody, 2 * BodyBuf})
    IN  /\ hin.cap <= IF out = <<>> THEN first ELSE later
        /\ rb.buf.cap <= Max({BodyBuf, 2 * (MaxBody + Grow), 2 * (hin.cap + Grow)})

\* Whatever a client sends, and however slowly, the reading of a request ends:
\* the request is handed over or the connection is closed.
ReadEnds == pc \in {"header", "entity"} ~> pc \in {"process", "http2", "closed"}
=============================================================================
