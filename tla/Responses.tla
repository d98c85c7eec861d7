----------------------------- MODULE Responses -----------------------------
(***************************************************************************)
(* One response on its way from the upstream to the visitor, through the   *)
(* writers ServeHTTP stacks: the recorder of recorder.go, the gzip writer  *)
(* of compress.go, the cache's captureWriter of cache.go, and the          *)
(* connection.  A method of a writer is an operator on the state of the    *)
(* stack, which calls the writer below it.                                 *)
(*                                                                         *)
(* A body is a sequence of numbered bytes.  What gzip puts on the wire is  *)
(* written as the bytes it decodes to.                                     *)
(***************************************************************************)
EXTENDS Integers, Sequences

CONSTANTS
    MinBytes,  \* Compression.MinBytes
    MaxBody    \* bound: the bytes of a body

ASSUME ResponsesAssumption == MinBytes \in Nat \ {0} /\ MaxBody \in Nat

Early == 103
OK == 200
NoContent == 204
Missing == 404
BadGateway == 502
Unknown == -1        \* no Content-Length

VARIABLES
    stack,    \* the writers and the connection
    upstream  \* what ReverseProxy is doing: pc, bytes of the body read so far

responseVars == <<stack, upstream>>

\* The header map, which all writers share.
Header == [length : {Unknown} \cup (0 .. MaxBody), coded : BOOLEAN, gzip : BOOLEAN,
           text : BOOLEAN, storable : BOOLEAN]

NoHeader == [length |-> Unknown, coded |-> FALSE, gzip |-> FALSE, text |-> FALSE, storable |-> FALSE]

None == [status |-> 0, body |-> <<>>]

\* ServeHTTP: compress says whether newCompressWriter wrapped the writer,
\* capture whether interceptCache did.
ResponsesInit ==
    /\ \E compress, capture \in BOOLEAN :
          stack = [compress |-> compress, capture |-> capture, header |-> NoHeader,
                   rec |-> [status |-> 0, sent |-> FALSE, written |-> 0],
                   cw |-> [wrote |-> FALSE, status |-> 0, decided |-> FALSE,
                           compressing |-> FALSE, buf |-> <<>>, gz |-> <<>>],
                   cap |-> [status |-> 0, capturing |-> FALSE, length |-> 0, buf |-> <<>>],
                   conn |-> [status |-> 0, length |-> Unknown, gzip |-> FALSE, body |-> <<>>, end |-> "open"],
                   stored |-> None, logged |-> 0]
    /\ upstream = [pc |-> "headers", status |-> 0, length |-> Unknown, body |-> <<>>, hinted |-> FALSE]

-----------------------------------------------------------------------------
\* The connection (net/http): an interim status is not the answer, a body without
\* a status is a 200, and a body short of its Content-Length breaks off.
ConnWriteHeader(s, status) ==
    IF status < OK \/ s.conn.status # 0 THEN s
    ELSE [s EXCEPT !.conn = [@ EXCEPT !.status = status, !.length = s.header.length,
                                      !.gzip = s.header.gzip]]

ConnWrite(s, p) ==
    LET t == ConnWriteHeader(s, OK) IN [t EXCEPT !.conn.body = @ \o p]

ConnEnd(s) ==
    LET t == ConnWriteHeader(s, OK)
        framed == t.conn.length = Unknown \/ (~t.conn.gzip /\ Len(t.conn.body) = t.conn.length)
                  \/ t.conn.status = NoContent
    IN  [t EXCEPT !.conn.end = IF framed THEN "whole" ELSE "cut"]

-----------------------------------------------------------------------------
\* captureWriter.
commit(s) ==
    [s EXCEPT !.stored = [status |-> s.cap.status, body |-> s.cap.buf],
              !.cap = [@ EXCEPT !.capturing = FALSE, !.buf = <<>>]]

\* Storable's test of the framing; what else it asks of the response is
\* header.storable here and Policy's subject.
Framed(s, status) == status = OK /\ s.header.length # Unknown /\ s.header.storable

CaptureWriteHeader(s, status) ==
    LET take == Framed(s, status)
        c == [s.cap EXCEPT !.status = status, !.capturing = s.cap.capturing \/ take,
                           !.length = IF take THEN s.header.length ELSE s.cap.length]
        t == ConnWriteHeader([s EXCEPT !.cap = c], status)
    IN  IF t.cap.capturing /\ t.cap.length = 0 THEN commit(t) ELSE t

\* Mutant: what has come so far is committed with every write.
CaptureWriteEager(s, p) ==
    LET t == ConnWrite(s, p)
    IN  IF s.cap.capturing THEN commit([t EXCEPT !.cap.buf = @ \o p]) ELSE t

\* The client first.  More than was declared is not kept, and reaching the
\* declared length commits.
CaptureWrite(s, p) ==
    LET t == ConnWrite(s, p)
        buf == s.cap.buf \o p
    IN  CASE ~s.cap.capturing -> t
          [] s.cap.capturing /\ Len(buf) > s.cap.length ->
                [t EXCEPT !.cap = [@ EXCEPT !.capturing = FALSE, !.buf = <<>>]]
          [] s.cap.capturing /\ Len(buf) = s.cap.length -> commit([t EXCEPT !.cap.buf = buf])
          [] s.cap.capturing /\ Len(buf) < s.cap.length -> [t EXCEPT !.cap.buf = buf]

BelowWriteHeader(s, status) ==
    IF s.capture THEN CaptureWriteHeader(s, status) ELSE ConnWriteHeader(s, status)

BelowWrite(s, p) == IF s.capture THEN CaptureWrite(s, p) ELSE ConnWrite(s, p)

-----------------------------------------------------------------------------
\* compressWriter.
decide(s, compress) == [s EXCEPT !.cw = [@ EXCEPT !.decided = TRUE, !.compressing = compress]]

\* Mutant: the upstream's Content-Length goes out with the compressed body.
startKeepsLength(s, compress) ==
    LET t == decide(s, compress)
    IN  BelowWriteHeader(IF compress THEN [t EXCEPT !.header.gzip = TRUE] ELSE t, t.cw.status)

\* start commits the writer and sends the headers, which compressing changes.
start(s, compress) ==
    LET t == decide(s, compress)
    IN  BelowWriteHeader(IF compress THEN [t EXCEPT !.header = [@ EXCEPT !.gzip = TRUE, !.length = Unknown]]
                         ELSE t, t.cw.status)

\* The bodyless, the already encoded, the unwanted and the small are let through
\* at once; the rest waits for its body.
LetThrough(h, status) ==
    \/ status < OK \/ status = NoContent
    \/ h.coded \/ ~h.text
    \/ h.length # Unknown /\ h.length < MinBytes

CompressWriteHeader(s, status) ==
    LET t == [s EXCEPT !.cw = [@ EXCEPT !.wrote = TRUE, !.status = status]] IN
    IF s.cw.wrote THEN s
    ELSE IF LetThrough(s.header, status) THEN BelowWriteHeader(decide(t, FALSE), status)
    ELSE t

\* gzip keeps what it is given until it is flushed or closed.
CompressedWrite(s, p) ==
    IF s.cw.compressing THEN [s EXCEPT !.cw.gz = @ \o p] ELSE BelowWrite(s, p)

GzipFlush(s) ==
    IF s.cw.gz = <<>> THEN s ELSE [BelowWrite(s, s.cw.gz) EXCEPT !.cw.gz = <<>>]

CompressWrite(s, p) ==
    LET t == IF s.cw.wrote THEN s ELSE CompressWriteHeader(s, OK)
        held == [t EXCEPT !.cw.buf = @ \o p]
    IN  IF t.cw.decided THEN CompressedWrite(t, p)
        ELSE IF Len(held.cw.buf) < MinBytes THEN held
        ELSE CompressedWrite([start(held, TRUE) EXCEPT !.cw.buf = <<>>], held.cw.buf)

\* A flush with nothing behind it is ignored while undecided.
CompressFlush(s) ==
    IF ~s.cw.decided /\ s.cw.buf = <<>> THEN s
    ELSE GzipFlush(IF s.cw.decided THEN s
                   ELSE CompressedWrite([start(s, Len(s.cw.buf) >= MinBytes) EXCEPT !.cw.buf = <<>>], s.cw.buf))

\* Close runs however the handler ends, as a deferred call.  statusOrOK.
CompressClose(s) ==
    LET t == IF s.cw.status = 0 THEN [s EXCEPT !.cw.status = OK] ELSE s IN
    IF t.cw.decided THEN GzipFlush(t)
    ELSE LET u == start(t, FALSE) IN
         IF u.cw.buf = <<>> THEN u ELSE [BelowWrite(u, u.cw.buf) EXCEPT !.cw.buf = <<>>]

-----------------------------------------------------------------------------
\* recorder.  The first status is the one it keeps and the last it passes on,
\* also when that is an interim one.
WriteHeader(s, status) ==
    LET t == [s EXCEPT !.rec = [@ EXCEPT !.status = status, !.sent = TRUE]] IN
    IF s.rec.sent THEN s
    ELSE IF s.compress THEN CompressWriteHeader(t, status) ELSE BelowWriteHeader(t, status)

Write(s, p) ==
    LET t == [WriteHeader(s, OK) EXCEPT !.rec.written = @ + Len(p)]
    IN  IF s.compress THEN CompressWrite(t, p) ELSE BelowWrite(t, p)

Flush(s) == IF s.compress THEN CompressFlush(s) ELSE s

\* The handler is over: the deferred Close, then the server's own end.
Return(s) == ConnEnd(IF s.compress THEN CompressClose(s) ELSE s)

-----------------------------------------------------------------------------
\* What ReverseProxy does with the stack (net/http/httputil).

Bytes(from, n) == [i \in 1 .. n |-> from + i]

\* A 1xx response is passed on as it comes.
Interim ==
    /\ upstream.pc = "headers" /\ ~upstream.hinted
    /\ stack' = WriteHeader(stack, Early)
    /\ upstream' = [upstream EXCEPT !.hinted = TRUE]

\* The upstream's headers are copied and its status written; a body of unknown
\* length is flushed at once, and again after every write.
Flushed(s, length) == IF length = Unknown THEN Flush(s) ELSE s

Respond(status, h) ==
    /\ upstream.pc = "headers"
    /\ status = NoContent => h.length = Unknown
    /\ stack' = Flushed(WriteHeader([stack EXCEPT !.header = h], status), h.length)
    /\ upstream' = [upstream EXCEPT !.pc = "body", !.status = status,
                                    !.length = IF status = NoContent THEN 0 ELSE h.length]

Chunk(n) ==
    LET p == Bytes(Len(upstream.body), n)
        most == IF upstream.length = Unknown THEN MaxBody ELSE upstream.length
    IN
    /\ upstream.pc = "body" /\ Len(upstream.body) + n <= most
    /\ stack' = Flushed(Write(stack, p), upstream.length)
    /\ upstream' = [upstream EXCEPT !.body = @ \o p]

\* forward counts the request, and the handler returns.
Complete ==
    /\ upstream.pc = "body" /\ upstream.length \in {Unknown, Len(upstream.body)}
    /\ stack' = Return([stack EXCEPT !.logged = stack.rec.status])
    /\ upstream' = [upstream EXCEPT !.pc = "done"]

\* The body breaks off: ReverseProxy panics, forward does not count, the deferred
\* Close runs and the server cuts the connection.
BreakOff ==
    /\ upstream.pc = "body" /\ upstream.status # NoContent
    /\ upstream.length # Unknown => Len(upstream.body) < upstream.length
    /\ stack' = [Return(stack) EXCEPT !.conn.end = "cut"]
    /\ upstream' = [upstream EXCEPT !.pc = "broken"]

\* serveBadGateway: the proxy's own page, unless something has been sent.
Unreachable ==
    LET page == [NoHeader EXCEPT !.length = MaxBody, !.text = TRUE]
        body == Bytes(0, MaxBody)
        written == Write(WriteHeader([stack EXCEPT !.header = page], BadGateway), body)
    IN
    /\ upstream.pc = "headers"
    /\ stack' = Return(IF stack.rec.sent THEN [stack EXCEPT !.logged = stack.rec.status]
                       ELSE [written EXCEPT !.logged = BadGateway])
    /\ upstream' = IF stack.rec.sent THEN [upstream EXCEPT !.pc = "broken"]
                   ELSE [upstream EXCEPT !.pc = "done", !.status = BadGateway, !.body = body]

ResponsesNext ==
    \/ Interim
    \/ \E status \in {OK, NoContent, Missing}, h \in {g \in Header : ~g.gzip} : Respond(status, h)
    \/ \E n \in 1 .. MaxBody : Chunk(n)
    \/ Complete \/ BreakOff \/ Unreachable

ResponsesSpec == ResponsesInit /\ [][ResponsesNext]_responseVars

-----------------------------------------------------------------------------
\* Properties.

\* The stack implements Delivery: compressing, holding bytes back, capturing and
\* recording change nothing of what the visitor is promised.
Promise ==
    INSTANCE Delivery WITH
        source <- [status |-> upstream.status, body |-> upstream.body,
                   end |-> CASE upstream.pc = "done" -> "whole" [] upstream.pc = "broken" -> "cut"
                             [] OTHER -> "open"],
        hinted <- upstream.hinted,
        got <- [status |-> stack.conn.status, body |-> stack.conn.body, end |-> stack.conn.end],
        logged <- stack.logged

Delivers == Promise!DeliverySpec

\* What the cache is given is a whole 200 that the visitor was sent as it is
\* stored, byte for byte, and never one that breaks off later (cache.go:163-166).
StoredIsWhole ==
    stack.stored # None =>
        /\ stack.stored = [status |-> upstream.status, body |-> upstream.body]
        /\ stack.stored.status = OK
        /\ stack.stored.body = stack.conn.body /\ ~stack.conn.gzip
        /\ upstream.pc # "broken" /\ Len(upstream.body) = upstream.length
=============================================================================
