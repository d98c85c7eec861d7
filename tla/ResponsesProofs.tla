-------------------------- MODULE ResponsesProofs --------------------------
(***************************************************************************)
(* For every MinBytes, every length of body and every stack of writers the *)
(* visitor is given what Delivery promises, and the cache only a whole     *)
(* response.                                                               *)
(*                                                                         *)
(* The argument follows the stack from the connection up.  Each writer has *)
(* lemmas that say what a status, a write, a flush and the end come to     *)
(* below it; ResponsesInv says in which of a few states the writers stand, *)
(* given how far the upstream has come.                                    *)
(***************************************************************************)
EXTENDS Responses, TLAPS

Body == Seq(Nat)
Ends == {"open", "whole", "cut"}

Stack == [compress : BOOLEAN, capture : BOOLEAN, header : Header,
          rec : [status : Nat, sent : BOOLEAN, written : Nat],
          cw : [wrote : BOOLEAN, status : Nat, decided : BOOLEAN, compressing : BOOLEAN, buf : Body, gz : Body],
          cap : [status : Nat, capturing : BOOLEAN, length : Int, buf : Body],
          conn : [status : Nat, length : Int, gzip : BOOLEAN, body : Body, end : Ends],
          stored : [status : Nat, body : Body], logged : Nat]

\* What a step of the lower writers leaves alone.
Above(s, t) ==
    /\ t.compress = s.compress /\ t.capture = s.capture /\ t.header = s.header
    /\ t.rec = s.rec /\ t.cw = s.cw /\ t.logged = s.logged

Lower(s, t) == t.cap = s.cap /\ t.stored = s.stored

LEMMA HeaderType == ASSUME NEW h \in Header PROVE h.length \in Int /\ h.gzip \in BOOLEAN
  BY ResponsesAssumption DEF Header, Unknown

\* What the connection does with a status.
ConnSent(s, t, status) ==
    /\ t \in Stack /\ Above(s, t) /\ Lower(s, t)
    /\ t.conn.body = s.conn.body /\ t.conn.end = s.conn.end
    /\ status < OK \/ s.conn.status # 0 => t.conn = s.conn
    /\ status >= OK /\ s.conn.status = 0 =>
          t.conn.status = status /\ t.conn.length = s.header.length /\ t.conn.gzip = s.header.gzip

LEMMA ConnHeader ==
  ASSUME NEW s \in Stack, NEW status \in Nat
  PROVE  ConnSent(s, ConnWriteHeader(s, status), status)
  <1> DEFINE c == [s.conn EXCEPT !.status = status, !.length = s.header.length, !.gzip = s.header.gzip]
             t == [s EXCEPT !.conn = c]
  <1>1. s.header \in Header /\ s.conn \in [status : Nat, length : Int, gzip : BOOLEAN, body : Body, end : Ends]
    BY DEF Stack
  <1>2. s.header.length \in Int /\ s.header.gzip \in BOOLEAN
    BY <1>1, HeaderType
  <1>3. /\ c \in [status : Nat, length : Int, gzip : BOOLEAN, body : Body, end : Ends]
        /\ c.body = s.conn.body /\ c.end = s.conn.end /\ c.status = status /\ c.length = s.header.length /\ c.gzip = s.header.gzip
    BY <1>1, <1>2
  <1> HIDE DEF c
  <1>4. t \in Stack /\ t.conn = c /\ Above(s, t) /\ Lower(s, t)
    BY <1>3 DEF Stack, Above, Lower
  <1>5. ConnWriteHeader(s, status) = IF status < OK \/ s.conn.status # 0 THEN s ELSE t
    BY DEF ConnWriteHeader, c
  <1>6. Above(s, s) /\ Lower(s, s)
    BY DEF Above, Lower
  <1> HIDE DEF t
  <1>7. s.conn.status \in Nat /\ OK \in Nat
    BY <1>1 DEF OK
  <1>8. CASE status < OK \/ s.conn.status # 0
    BY <1>5, <1>6, <1>7, <1>8 DEF ConnSent
  <1>9. CASE ~(status < OK \/ s.conn.status # 0)
    BY <1>3, <1>4, <1>5, <1>7, <1>9 DEF ConnSent
  <1> QED
    BY <1>8, <1>9

\* The capture holds what the visitor was sent, until that is all of it.
CaptureOK(s) ==
    /\ s.cap.capturing =>
          /\ s.stored = None /\ s.conn.status = OK /\ s.cap.status = OK
          /\ s.cap.length \in Nat /\ s.conn.length = s.cap.length
          /\ s.cap.buf = s.conn.body /\ Len(s.cap.buf) < s.cap.length
    /\ s.stored # None =>
          /\ s.stored.status = OK /\ s.conn.status = OK
          /\ s.stored.body = s.conn.body /\ s.conn.length = Len(s.conn.body)

Uncaptured(s) == ~s.cap.capturing /\ s.stored = None

LEMMA UncapturedOK == ASSUME NEW s, Uncaptured(s) PROVE CaptureOK(s)
  BY DEF Uncaptured, CaptureOK

CapType == [status : Nat, capturing : BOOLEAN, length : Int, buf : Body]

LEMMA StackFields ==
  ASSUME NEW s \in Stack
  PROVE  /\ s.header \in Header /\ s.compress \in BOOLEAN /\ s.capture \in BOOLEAN
         /\ s.conn.status \in Nat /\ s.conn.length \in Int /\ s.conn.body \in Body
         /\ s.conn \in [status : Nat, length : Int, gzip : BOOLEAN, body : Body, end : Ends]
         /\ s.cap \in CapType
         /\ s.cap.status \in Nat /\ s.cap.capturing \in BOOLEAN /\ s.cap.length \in Int /\ s.cap.buf \in Body
         /\ s.cw \in [wrote : BOOLEAN, status : Nat, decided : BOOLEAN, compressing : BOOLEAN, buf : Body, gz : Body]
         /\ s.cw.status \in Nat /\ s.cw.buf \in Body /\ s.cw.gz \in Body
         /\ s.cw.wrote \in BOOLEAN /\ s.cw.decided \in BOOLEAN /\ s.cw.compressing \in BOOLEAN
         /\ s.rec \in [status : Nat, sent : BOOLEAN, written : Nat] /\ s.rec.sent \in BOOLEAN
         /\ s.logged \in Nat /\ s.rec.status \in Nat /\ s.rec.written \in Nat
  BY DEF Stack, CapType

\* commit: what was buffered becomes the entry.
LEMMA Committed ==
  ASSUME NEW s \in Stack
  PROVE  LET t == commit(s) IN
         /\ t \in Stack /\ Above(s, t) /\ t.conn = s.conn /\ ~t.cap.capturing
         /\ t.stored.status = s.cap.status /\ t.stored.body = s.cap.buf
  <1> DEFINE c == [s.cap EXCEPT !.capturing = FALSE, !.buf = <<>>]
             e == [status |-> s.cap.status, body |-> s.cap.buf]
             t == [s EXCEPT !.stored = e, !.cap = c]
  <1>1. c \in CapType /\ ~c.capturing
    <2>1. <<>> \in Body
      BY DEF Body
    <2> QED
      BY <2>1, StackFields DEF CapType
  <1>2. e \in [status : Nat, body : Body] /\ e.status = s.cap.status /\ e.body = s.cap.buf
    BY StackFields
  <1> HIDE DEF c, e
  <1>3. t \in Stack /\ t.stored = e /\ t.cap = c /\ t.conn = s.conn /\ Above(s, t)
    BY <1>1, <1>2 DEF Stack, Above, CapType
  <1>4. commit(s) = t
    BY DEF commit, c, e
  <1> HIDE DEF t
  <1> QED
    BY <1>1, <1>2, <1>3, <1>4

LEMMA AboveTrans ==
  ASSUME NEW s, NEW t, NEW u, Above(s, t), Above(t, u)
  PROVE  Above(s, u)
  BY DEF Above

\* What handing a status to the writers below comes to.
HeaderSent(s, t, status) ==
    /\ t \in Stack /\ Above(s, t) /\ CaptureOK(t)
    /\ t.conn.body = s.conn.body /\ t.conn.end = s.conn.end
    /\ status < OK => t.conn = s.conn
    /\ status >= OK =>
          t.conn.status = status /\ t.conn.length = s.header.length /\ t.conn.gzip = s.header.gzip
    /\ s.header.length = Unknown \/ status # OK => Uncaptured(t)

Blank(s) == s.conn.status = 0 /\ s.conn.body = <<>> /\ Uncaptured(s) /\ s.cap.buf = <<>>

LEMMA CaptureHeader ==
  ASSUME NEW s \in Stack, NEW status \in Nat, Blank(s)
  PROVE  HeaderSent(s, CaptureWriteHeader(s, status), status)
  <1> DEFINE take == Framed(s, status)
             c == [s.cap EXCEPT !.status = status, !.capturing = s.cap.capturing \/ take,
                               !.length = IF take THEN s.header.length ELSE s.cap.length]
             r == [s EXCEPT !.cap = c]
             t == ConnWriteHeader(r, status)
             u == CaptureWriteHeader(s, status)
  <1>1. take => status = OK /\ s.header.length # Unknown /\ s.header.length \in Nat
    <2>1. s.header.length \in {Unknown} \cup (0 .. MaxBody)
      BY StackFields DEF Header
    <2> QED
      BY <2>1, ResponsesAssumption DEF Framed, Unknown
  <1>2. take \in BOOLEAN
    BY DEF Framed
  <1>3. u = IF t.cap.capturing /\ t.cap.length = 0 THEN commit(t) ELSE t
    BY DEF CaptureWriteHeader
  <1> HIDE DEF take
  <1>a. s.conn.status = 0 /\ s.conn.body = <<>> /\ Uncaptured(s) /\ s.cap.buf = <<>> /\ ~s.cap.capturing
    BY DEF Blank, Uncaptured
  <1>b. s.cap \in CapType /\ (s.cap.capturing \/ take) \in BOOLEAN
        /\ (IF take THEN s.header.length ELSE s.cap.length) \in Int
    BY <1>1, <1>2, StackFields
  <1>4. /\ c \in CapType /\ c.status = status /\ c.buf = s.cap.buf
        /\ c.capturing <=> take
        /\ take => c.length = s.header.length
    <2> DEFINE x == s.cap.capturing \/ take
               y == IF take THEN s.header.length ELSE s.cap.length
    <2>1. c = [s.cap EXCEPT !.status = status, !.capturing = x, !.length = y]
      OBVIOUS
    <2>2. (x <=> take) /\ (take => y = s.header.length) /\ x \in BOOLEAN /\ y \in Int
      BY <1>a, <1>b
    <2> HIDE DEF x, y, c
    <2>3. c \in CapType /\ c.status = status /\ c.buf = s.cap.buf /\ c.capturing = x /\ c.length = y
      BY <1>b, <2>1, <2>2 DEF CapType
    <2> QED
      BY <2>2, <2>3
  <1> HIDE DEF c
  <1>5. r \in Stack /\ r.cap = c /\ r.conn = s.conn /\ r.stored = s.stored /\ r.header = s.header /\ Above(s, r)
    BY <1>4 DEF Stack, Above, CapType
  <1> HIDE DEF r
  <1>6. /\ t \in Stack /\ Above(s, t) /\ t.cap = c /\ t.stored = s.stored
        /\ t.conn.body = s.conn.body /\ t.conn.end = s.conn.end
        /\ status < OK => t.conn = s.conn
        /\ status >= OK =>
             t.conn.status = status /\ t.conn.length = s.header.length /\ t.conn.gzip = s.header.gzip
    <2>1. ConnSent(r, t, status)
      BY <1>5, ConnHeader
    <2> HIDE DEF t
    <2>2. Above(s, t)
      BY <1>5, <2>1, AboveTrans DEF ConnSent
    <2> QED
      BY <1>5, <1>a, <2>1, <2>2 DEF ConnSent, Lower
  <1> SUFFICES HeaderSent(s, u, status)
    OBVIOUS
  <1> HIDE DEF t, u
  <1>7. CASE ~take
    <2>1. u = t /\ Uncaptured(u)
      BY <1>3, <1>4, <1>6, <1>7, <1>a DEF Uncaptured
    <2> QED
      BY <1>6, <2>1, UncapturedOK DEF HeaderSent
  <1>8. CASE take /\ s.header.length # 0
    <2>1. u = t /\ status = OK /\ s.header.length # Unknown
      BY <1>1, <1>3, <1>4, <1>6, <1>8
    <2>2. t.cap.length \in Nat /\ t.conn.length = t.cap.length /\ t.conn.status = OK /\ Len(t.cap.buf) < t.cap.length
      <3>1. Len(<<>>) = 0 /\ OK \in Nat
        BY DEF OK
      <3> QED
        BY <1>1, <1>4, <1>6, <1>8, <1>a, <2>1, <3>1
    <2>3. CaptureOK(t)
      BY <1>4, <1>6, <1>8, <1>a, <2>1, <2>2 DEF CaptureOK, Uncaptured
    <2> QED
      BY <1>6, <2>1, <2>3 DEF HeaderSent
  <1>9. CASE take /\ s.header.length = 0
    <2>1. u = commit(t) /\ status = OK /\ s.header.length # Unknown
      BY <1>1, <1>3, <1>4, <1>6, <1>9
    <2>2. /\ u \in Stack /\ Above(s, u) /\ u.conn = t.conn /\ ~u.cap.capturing
          /\ u.stored.status = OK /\ u.stored.body = <<>>
      BY <1>4, <1>6, <1>a, <2>1, Committed, AboveTrans
    <2>3. t.conn.status = OK /\ t.conn.length = 0 /\ Len(t.conn.body) = 0
      <3>1. Len(<<>>) = 0 /\ OK \in Nat
        BY DEF OK
      <3> QED
        BY <1>6, <1>9, <1>a, <2>1, <3>1
    <2>4. CaptureOK(u)
      BY <1>6, <2>2, <2>3 DEF CaptureOK
    <2> QED
      BY <1>6, <2>1, <2>2, <2>4 DEF HeaderSent
  <1> QED
    BY <1>2, <1>7, <1>8, <1>9

LEMMA BelowHeader ==
  ASSUME NEW s \in Stack, NEW status \in Nat, Blank(s)
  PROVE  HeaderSent(s, BelowWriteHeader(s, status), status)
  <1> DEFINE t == ConnWriteHeader(s, status)
  <1>1. CASE s.capture
    BY <1>1, CaptureHeader DEF BelowWriteHeader
  <1>2. CASE ~s.capture
    <2>1. ConnSent(s, t, status)
      BY ConnHeader
    <2>2. BelowWriteHeader(s, status) = t
      BY <1>2 DEF BelowWriteHeader
    <2> HIDE DEF t
    <2>3. s.conn.status = 0 /\ Uncaptured(t)
      BY <2>1 DEF ConnSent, Lower, Blank, Uncaptured
    <2>4. HeaderSent(s, t, status)
      BY <2>1, <2>3, UncapturedOK DEF ConnSent, HeaderSent
    <2> QED
      BY <2>2, <2>4
  <1> QED
    BY <1>1, <1>2

-----------------------------------------------------------------------------
LEMMA Joined ==
  ASSUME NEW p \in Body, NEW q \in Body
  PROVE  /\ p \o q \in Body /\ Len(p \o q) = Len(p) + Len(q) /\ Len(p) \in Nat /\ Len(q) \in Nat
         /\ p \o <<>> = p /\ <<>> \o p = p /\ <<>> \in Body /\ Len(<<>>) = 0
         /\ Len(p) = 0 => p = <<>>
  BY DEF Body

LEMMA JoinAssoc ==
  ASSUME NEW p \in Body, NEW q \in Body, NEW r \in Body
  PROVE  (p \o q) \o r = p \o (q \o r)
  BY DEF Body

\* What writing p to the writers below comes to.
Written(s, t, p) ==
    /\ t \in Stack /\ Above(s, t) /\ CaptureOK(t)
    /\ t.conn.body = s.conn.body \o p /\ t.conn.end = s.conn.end
    /\ t.conn.status = IF s.conn.status = 0 THEN OK ELSE s.conn.status
    /\ s.conn.status # 0 => t.conn.length = s.conn.length /\ t.conn.gzip = s.conn.gzip
    /\ Uncaptured(s) => Uncaptured(t)

\* The body keeps to its declared length, while it is or has been captured.
Room(s, p) == Uncaptured(s) \/ Len(s.conn.body) + Len(p) <= s.conn.length

ConnTook(s, t, p) ==
    /\ t \in Stack /\ Above(s, t) /\ Lower(s, t)
    /\ t.conn.body = s.conn.body \o p /\ t.conn.end = s.conn.end
    /\ t.conn.status = IF s.conn.status = 0 THEN OK ELSE s.conn.status
    /\ s.conn.status # 0 => t.conn.length = s.conn.length /\ t.conn.gzip = s.conn.gzip

LEMMA ConnBody ==
  ASSUME NEW s \in Stack, NEW p \in Body
  PROVE  ConnTook(s, ConnWrite(s, p), p)
  <1> DEFINE t == ConnWriteHeader(s, OK)
             b == t.conn.body \o p
             c == [t.conn EXCEPT !.body = b]
             u == [t EXCEPT !.conn = c]
  <1>1. OK \in Nat /\ OK >= OK /\ ~(OK < OK)
    BY DEF OK
  <1>2. ConnSent(s, t, OK)
    BY <1>1, ConnHeader
  <1>3. ConnWrite(s, p) = [t EXCEPT !.conn.body = b]
    BY DEF ConnWrite
  <1> HIDE DEF t
  <1>4. t \in Stack
    BY <1>2 DEF ConnSent
  <1>5. ConnWrite(s, p) = u
    BY <1>3
  <1>6. b \in Body /\ b = s.conn.body \o p
    BY <1>2, <1>4, StackFields, Joined DEF ConnSent
  <1> HIDE DEF b
  <1>7. /\ c \in [status : Nat, length : Int, gzip : BOOLEAN, body : Body, end : Ends]
        /\ c.body = b /\ c.end = t.conn.end /\ c.status = t.conn.status /\ c.length = t.conn.length /\ c.gzip = t.conn.gzip
    BY <1>4, <1>6, StackFields
  <1> HIDE DEF c
  <1>8. u \in Stack /\ u.conn = c /\ Above(t, u) /\ Lower(t, u)
    BY <1>4, <1>7 DEF Stack, Above, Lower
  <1> HIDE DEF u
  <1>9. Above(s, u) /\ Lower(s, u)
    BY <1>2, <1>8, AboveTrans DEF ConnSent, Lower
  <1>10. u.conn.status = IF s.conn.status = 0 THEN OK ELSE s.conn.status
    BY <1>1, <1>2, <1>7, <1>8 DEF ConnSent
  <1>11. s.conn.status # 0 => u.conn.length = s.conn.length /\ u.conn.gzip = s.conn.gzip
    BY <1>2, <1>7, <1>8 DEF ConnSent
  <1>12. ConnTook(s, u, p)
    BY <1>2, <1>6, <1>7, <1>8, <1>9, <1>10, <1>11 DEF ConnTook, ConnSent
  <1> QED
    BY <1>5, <1>12

LEMMA CaptureBody ==
  ASSUME NEW s \in Stack, NEW p \in Body, CaptureOK(s), Room(s, p)
  PROVE  Written(s, CaptureWrite(s, p), p)
  <1> DEFINE t == ConnWrite(s, p)
             buf == s.cap.buf \o p
             c == [t.cap EXCEPT !.buf = buf]
             v == [t EXCEPT !.cap = c]
             u == CaptureWrite(s, p)
  <1>1. ConnTook(s, t, p) /\ Len(s.conn.body) \in Nat /\ Len(p) \in Nat /\ s.conn.body \in Body
    BY ConnBody, StackFields, Joined
  <1>2. /\ ~s.cap.capturing => u = t
        /\ s.cap.capturing /\ Len(buf) = s.cap.length => u = commit([t EXCEPT !.cap.buf = buf])
        /\ s.cap.capturing /\ Len(buf) < s.cap.length => u = [t EXCEPT !.cap.buf = buf]
    <2> DEFINE over == [t EXCEPT !.cap = [t.cap EXCEPT !.capturing = FALSE, !.buf = <<>>]]
               more == [t EXCEPT !.cap.buf = buf]
               all == commit(more)
    <2>1. u = CASE ~s.cap.capturing -> t
                [] s.cap.capturing /\ Len(buf) > s.cap.length -> over
                [] s.cap.capturing /\ Len(buf) = s.cap.length -> all
                [] s.cap.capturing /\ Len(buf) < s.cap.length -> more
      BY DEF CaptureWrite
    <2>2. Len(buf) \in Nat /\ s.cap.length \in Int
      BY StackFields, Joined
    <2> HIDE DEF t, u, over, more, all, buf
    <2>3. (~s.cap.capturing => u = t)
      BY <2>1
    <2>4. s.cap.capturing /\ Len(buf) = s.cap.length => u = all
      BY <2>1, <2>2
    <2>5. s.cap.capturing /\ Len(buf) < s.cap.length => u = more
      BY <2>1, <2>2
    <2> QED
      BY <2>3, <2>4, <2>5 DEF all, more
  <1> SUFFICES Written(s, u, p)
    OBVIOUS
  <1> HIDE DEF t, u
  <1>3. t \in Stack /\ t.cap = s.cap /\ t.stored = s.stored
    BY <1>1 DEF ConnTook, Lower
  <1>4. CASE Uncaptured(s)
    <2>1. u = t /\ Uncaptured(t)
      BY <1>2, <1>3, <1>4 DEF Uncaptured
    <2> QED
      BY <1>1, <2>1, UncapturedOK DEF Written, ConnTook
  <1>5. CASE ~s.cap.capturing /\ s.stored # None
    <2>1. u = t /\ ~Uncaptured(s)
      BY <1>2, <1>5 DEF Uncaptured
    <2>2. s.conn.length = Len(s.conn.body) /\ s.stored.status = OK /\ s.conn.status = OK /\ s.stored.body = s.conn.body
      BY <1>5 DEF CaptureOK
    <2>3. Len(p) = 0
      BY <1>1, <2>1, <2>2 DEF Room
    <2>4. s.conn.body \o p = s.conn.body
      BY <1>1, <2>3, Joined
    <2>5. t.conn.body = s.conn.body /\ t.conn.status = OK /\ t.conn.length = s.conn.length
      <3>1. OK # 0
        BY DEF OK
      <3> QED
        BY <1>1, <2>2, <2>4, <3>1 DEF ConnTook
    <2>6. CaptureOK(t)
      BY <1>3, <1>5, <2>2, <2>5 DEF CaptureOK
    <2> QED
      BY <1>1, <2>1, <2>6 DEF Written, ConnTook
  <1>6. CASE s.cap.capturing
    <2>1. /\ s.stored = None /\ s.conn.status = OK /\ s.cap.status = OK
          /\ s.cap.length \in Nat /\ s.conn.length = s.cap.length
          /\ s.cap.buf = s.conn.body /\ ~Uncaptured(s)
      BY <1>6 DEF CaptureOK, Uncaptured
    <2>2. buf = t.conn.body /\ buf \in Body /\ Len(buf) = Len(s.conn.body) + Len(p) /\ Len(buf) <= s.cap.length
      <3> DEFINE b == s.conn.body
      <3>1. buf = b \o p /\ t.conn.body = b \o p /\ b \in Body
        BY <1>1, <2>1 DEF ConnTook
      <3>2. Len(b) + Len(p) <= s.conn.length
        BY <2>1 DEF Room
      <3> HIDE DEF b, buf
      <3>3. b \o p \in Body /\ Len(b \o p) = Len(b) + Len(p)
        BY <3>1, Joined
      <3> QED
        BY <2>1, <3>1, <3>2, <3>3 DEF b
    <2>3. t.conn.status = OK /\ t.conn.length = s.cap.length
      <3>1. OK # 0
        BY DEF OK
      <3> QED
        BY <1>1, <2>1, <3>1 DEF ConnTook
    <2> HIDE DEF buf
    <2>4. [t EXCEPT !.cap.buf = buf] = v
      OBVIOUS
    <2>5. c \in CapType /\ c.buf = buf /\ c.status = OK /\ c.length = s.cap.length /\ c.capturing
      BY <1>3, <1>6, <2>1, <2>2, StackFields DEF CapType
    <2> HIDE DEF c
    <2>6. v \in Stack /\ v.cap = c /\ v.conn = t.conn /\ v.stored = None /\ Above(t, v)
      BY <1>3, <2>1, <2>5 DEF Stack, CapType, Above
    <2> HIDE DEF v
    <2>7. CASE Len(buf) < s.cap.length
      <3>1. u = v
        BY <1>2, <1>6, <2>4, <2>7
      <3>2. CaptureOK(v)
        BY <2>1, <2>2, <2>3, <2>5, <2>6, <2>7 DEF CaptureOK
      <3>3. Above(s, v)
        BY <1>1, <2>6, AboveTrans DEF ConnTook
      <3> QED
        BY <1>1, <2>1, <2>6, <3>1, <3>2, <3>3 DEF Written, ConnTook
    <2>8. CASE Len(buf) = s.cap.length
      <3>1. u = commit(v)
        BY <1>2, <1>6, <2>4, <2>8
      <3>2. /\ u \in Stack /\ Above(v, u) /\ u.conn = t.conn /\ ~u.cap.capturing
            /\ u.stored.status = OK /\ u.stored.body = buf
        BY <2>5, <2>6, <3>1, Committed
      <3>3. CaptureOK(u)
        BY <2>2, <2>3, <2>8, <3>2 DEF CaptureOK
      <3>4. Above(s, u)
        BY <1>1, <2>6, <3>2, AboveTrans DEF ConnTook
      <3> QED
        BY <1>1, <2>1, <3>2, <3>3, <3>4 DEF Written, ConnTook
    <2>9. Len(buf) \in Nat
      BY <2>2, Joined
    <2> QED
      BY <2>1, <2>2, <2>7, <2>8, <2>9
  <1> QED
    BY <1>4, <1>5, <1>6 DEF Uncaptured

LEMMA BelowBody ==
  ASSUME NEW s \in Stack, NEW p \in Body, CaptureOK(s), Room(s, p), s.capture \/ Uncaptured(s)
  PROVE  Written(s, BelowWrite(s, p), p)
  <1> DEFINE t == ConnWrite(s, p)
  <1>1. CASE s.capture
    BY <1>1, CaptureBody DEF BelowWrite
  <1>2. CASE ~s.capture
    <2>1. ConnTook(s, t, p)
      BY ConnBody
    <2>2. BelowWrite(s, p) = t
      BY <1>2 DEF BelowWrite
    <2> HIDE DEF t
    <2>3. Uncaptured(s) /\ Uncaptured(t)
      BY <1>2, <2>1 DEF ConnTook, Lower, Uncaptured
    <2>4. Written(s, t, p)
      BY <2>1, <2>3, UncapturedOK DEF ConnTook, Written
    <2> QED
      BY <2>2, <2>4
  <1> QED
    BY <1>1, <1>2

-----------------------------------------------------------------------------
\* What the writers below the recorder leave alone.
Top(s, t) ==
    /\ t.compress = s.compress /\ t.capture = s.capture /\ t.rec = s.rec /\ t.logged = s.logged
    /\ t.conn.end = s.conn.end

Same(s, t) == t.conn = s.conn /\ Lower(s, t)

LEMMA TopTrans == ASSUME NEW s, NEW t, NEW u, Top(s, t), Top(t, u) PROVE Top(s, u)
  BY DEF Top

LEMMA SameKeeps ==
  ASSUME NEW s, NEW t, Same(s, t)
  PROVE  /\ CaptureOK(s) => CaptureOK(t)
         /\ Uncaptured(s) => Uncaptured(t)
         /\ Blank(s) => Blank(t)
  BY DEF Same, Lower, CaptureOK, Uncaptured, Blank

CwType == [wrote : BOOLEAN, status : Nat, decided : BOOLEAN, compressing : BOOLEAN, buf : Body, gz : Body]

WithCw(s, c) == [s EXCEPT !.cw = c]

LEMMA CwSet ==
  ASSUME NEW s \in Stack, NEW c \in CwType
  PROVE  LET t == WithCw(s, c) IN t \in Stack /\ Top(s, t) /\ Same(s, t) /\ t.cw = c /\ t.header = s.header
  BY DEF WithCw, Stack, CwType, Top, Same, Lower

WithBuf(s, x) == [s EXCEPT !.cw.buf = x]
WithGz(s, x) == [s EXCEPT !.cw.gz = x]

\* The compress writer but for what it holds back.
Settings(s, t) ==
    /\ t \in Stack /\ Top(s, t) /\ Same(s, t) /\ t.header = s.header
    /\ t.cw.wrote = s.cw.wrote /\ t.cw.status = s.cw.status
    /\ t.cw.decided = s.cw.decided /\ t.cw.compressing = s.cw.compressing

LEMMA BufSet ==
  ASSUME NEW s \in Stack, NEW x \in Body
  PROVE  LET t == WithBuf(s, x) IN Settings(s, t) /\ t.cw.buf = x /\ t.cw.gz = s.cw.gz
  <1> DEFINE c == [s.cw EXCEPT !.buf = x]
             t == WithCw(s, c)
  <1>1. /\ c \in CwType /\ c.buf = x /\ c.gz = s.cw.gz /\ c.wrote = s.cw.wrote /\ c.status = s.cw.status
        /\ c.decided = s.cw.decided /\ c.compressing = s.cw.compressing
    BY StackFields DEF CwType
  <1>2. WithBuf(s, x) = t
    BY DEF WithBuf, WithCw
  <1> HIDE DEF c
  <1>3. t \in Stack /\ Top(s, t) /\ Same(s, t) /\ t.cw = c /\ t.header = s.header
    BY <1>1, CwSet
  <1> HIDE DEF t
  <1> QED
    BY <1>1, <1>2, <1>3 DEF Settings

LEMMA GzSet ==
  ASSUME NEW s \in Stack, NEW x \in Body
  PROVE  LET t == WithGz(s, x) IN Settings(s, t) /\ t.cw.gz = x /\ t.cw.buf = s.cw.buf
  <1> DEFINE c == [s.cw EXCEPT !.gz = x]
             t == WithCw(s, c)
  <1>1. /\ c \in CwType /\ c.gz = x /\ c.buf = s.cw.buf /\ c.wrote = s.cw.wrote /\ c.status = s.cw.status
        /\ c.decided = s.cw.decided /\ c.compressing = s.cw.compressing
    BY StackFields DEF CwType
  <1>2. WithGz(s, x) = t
    BY DEF WithGz, WithCw
  <1> HIDE DEF c
  <1>3. t \in Stack /\ Top(s, t) /\ Same(s, t) /\ t.cw = c /\ t.header = s.header
    BY <1>1, CwSet
  <1> HIDE DEF t
  <1> QED
    BY <1>1, <1>2, <1>3 DEF Settings

LEMMA DecideSet ==
  ASSUME NEW s \in Stack, NEW compress \in BOOLEAN
  PROVE  LET t == decide(s, compress) IN
         /\ t \in Stack /\ Top(s, t) /\ Same(s, t) /\ t.header = s.header
         /\ t.cw.wrote = s.cw.wrote /\ t.cw.status = s.cw.status
         /\ t.cw.decided /\ t.cw.compressing = compress /\ t.cw.buf = s.cw.buf /\ t.cw.gz = s.cw.gz
  <1> DEFINE c == [s.cw EXCEPT !.decided = TRUE, !.compressing = compress]
             t == WithCw(s, c)
  <1>1. /\ c \in CwType /\ c.gz = s.cw.gz /\ c.buf = s.cw.buf /\ c.wrote = s.cw.wrote /\ c.status = s.cw.status
        /\ c.decided = TRUE /\ c.compressing = compress
    BY StackFields DEF CwType
  <1>2. decide(s, compress) = t
    BY DEF decide, WithCw
  <1> HIDE DEF c
  <1>3. t \in Stack /\ Top(s, t) /\ Same(s, t) /\ t.cw = c /\ t.header = s.header
    BY <1>1, CwSet
  <1> HIDE DEF t
  <1> QED
    BY <1>1, <1>2, <1>3

\* The writers' states.  Nothing has been sent; the compress writer has a status and
\* waits for more of the body b; the body goes out as it comes, with what it is
\* declared to be; it goes out compressed; an interim status went out.
Captures(s) == CaptureOK(s) /\ (s.capture \/ Uncaptured(s))

NothingHeld(s) == s.compress => s.cw.wrote /\ s.cw.decided /\ ~s.cw.compressing /\ s.cw.buf = <<>>
                                 /\ s.cw.gz = <<>> /\ s.cw.status # 0

Unsent(s) ==
    /\ s \in Stack /\ Blank(s) /\ ~s.header.gzip
    /\ ~s.cw.wrote /\ ~s.cw.decided /\ ~s.cw.compressing /\ s.cw.buf = <<>> /\ s.cw.gz = <<>>

Waiting(s, status, length, b) ==
    /\ s \in Stack /\ Blank(s) /\ s.compress /\ ~s.header.gzip
    /\ s.cw.wrote /\ ~s.cw.decided /\ ~s.cw.compressing /\ s.cw.status = status
    /\ s.cw.gz = <<>> /\ s.cw.buf = b /\ Len(b) < MinBytes
    /\ s.header.length = length
    /\ length = Unknown \/ length >= MinBytes

Plain(s, status, length, b) ==
    /\ s \in Stack /\ Captures(s)
    /\ s.conn.status = status /\ s.conn.length = length /\ ~s.conn.gzip /\ s.conn.body = b
    /\ length = Unknown \/ status # OK => Uncaptured(s)

Direct(s, status, length, b) == Plain(s, status, length, b) /\ NothingHeld(s)

Compressed(s, status, b) ==
    /\ s \in Stack /\ Uncaptured(s) /\ s.compress
    /\ s.cw.wrote /\ s.cw.decided /\ s.cw.compressing /\ s.cw.status = status /\ s.cw.buf = <<>>
    /\ s.conn.status = status /\ s.conn.length = Unknown /\ s.conn.body \o s.cw.gz = b

Hinted(s, b) ==
    /\ s \in Stack /\ Uncaptured(s) /\ NothingHeld(s)
    /\ s.conn.body = b
    /\ b # <<>> => s.conn.status # 0

Final(status) == status \in {OK, NoContent, Missing, BadGateway}

LEMMA StatusNumbers ==
  /\ OK \in Nat /\ NoContent \in Nat /\ Missing \in Nat /\ BadGateway \in Nat /\ Early \in Nat
  /\ Early < OK /\ Early # 0 /\ OK # 0 /\ OK # NoContent /\ ~(OK < OK)
  /\ \A status : Final(status) => status \in Nat /\ status >= OK /\ ~(status < OK) /\ status # 0
  BY DEF OK, NoContent, Missing, BadGateway, Early, Final

LEMMA EmptyBody == <<>> \in Body /\ Len(<<>>) = 0
  BY DEF Body

LEMMA AboveTop ==
  ASSUME NEW s, NEW t, Above(s, t), t.conn.end = s.conn.end
  PROVE  Top(s, t) /\ t.cw = s.cw /\ t.header = s.header
  BY DEF Above, Top

LEMMA SentTop ==
  ASSUME NEW s, NEW t, NEW status, HeaderSent(s, t, status)
  PROVE  Top(s, t) /\ t.cw = s.cw /\ t.header = s.header
  BY AboveTop DEF HeaderSent

LEMMA WrittenTop ==
  ASSUME NEW s, NEW t, NEW p, Written(s, t, p)
  PROVE  Top(s, t) /\ t.cw = s.cw /\ t.header = s.header
  BY AboveTop DEF Written

\* A final status straight to the writers below.
LEMMA HeaderPlain ==
  ASSUME NEW s \in Stack, Blank(s), ~s.header.gzip, NEW status, Final(status)
  PROVE  LET t == BelowWriteHeader(s, status) IN
         Top(s, t) /\ t.header = s.header /\ t.cw = s.cw /\ Plain(t, status, s.header.length, <<>>)
  <1> DEFINE t == BelowWriteHeader(s, status)
  <1>1. status \in Nat /\ status >= OK /\ status # 0
    BY StatusNumbers
  <1>2. HeaderSent(s, t, status)
    BY <1>1, BelowHeader
  <1>3. s.capture \/ Uncaptured(t)
    <2>1. CASE ~s.capture
      <3>1. t = ConnWriteHeader(s, status)
        BY <2>1 DEF BelowWriteHeader
      <3>2. Lower(s, t)
        BY <1>1, <3>1, ConnHeader DEF ConnSent
      <3> QED
        BY <3>2 DEF Lower, Uncaptured, Blank
    <2> QED
      BY <2>1
  <1> HIDE DEF t
  <1>4. Top(s, t) /\ t.cw = s.cw /\ t.header = s.header
    BY <1>2, SentTop
  <1>5. /\ t \in Stack /\ Captures(t) /\ t.conn.status = status /\ t.conn.length = s.header.length /\ ~t.conn.gzip
        /\ t.conn.body = <<>> /\ (s.header.length = Unknown \/ status # OK => Uncaptured(t))
    BY <1>1, <1>2, <1>3, <1>4 DEF HeaderSent, Blank, Captures, Top
  <1> QED
    BY <1>4, <1>5 DEF Plain, t

LEMMA HeaderDirect ==
  ASSUME NEW s \in Stack, Blank(s), ~s.header.gzip, NothingHeld(s), NEW status, Final(status)
  PROVE  LET t == BelowWriteHeader(s, status) IN
         Top(s, t) /\ t.header = s.header /\ Direct(t, status, s.header.length, <<>>)
  <1> DEFINE t == BelowWriteHeader(s, status)
  <1>1. Top(s, t) /\ t.header = s.header /\ t.cw = s.cw /\ Plain(t, status, s.header.length, <<>>)
    BY HeaderPlain
  <1> HIDE DEF t
  <1>2. NothingHeld(t)
    BY <1>1 DEF NothingHeld, Top
  <1> QED
    BY <1>1, <1>2 DEF Direct, t

\* An interim status.
LEMMA HeaderHint ==
  ASSUME NEW s \in Stack, Blank(s), NothingHeld(s)
  PROVE  LET t == BelowWriteHeader(s, Early) IN
         Top(s, t) /\ Hinted(t, <<>>) /\ t.conn = s.conn
  <1> DEFINE t == BelowWriteHeader(s, Early)
  <1>1. Early \in Nat /\ Early < OK /\ Early # OK
    BY StatusNumbers
  <1>2. HeaderSent(s, t, Early)
    BY <1>1, BelowHeader
  <1> HIDE DEF t
  <1>3. Top(s, t) /\ t.cw = s.cw /\ t.header = s.header
    BY <1>2, SentTop
  <1>4. t \in Stack /\ t.conn = s.conn /\ Uncaptured(t) /\ t.conn.body = <<>>
    BY <1>1, <1>2 DEF HeaderSent, Blank
  <1>5. NothingHeld(t)
    BY <1>3 DEF NothingHeld, Top
  <1> QED
    BY <1>3, <1>4, <1>5 DEF Hinted, t

\* CompressWriteHeader, the first time.
LEMMA CompressHeader ==
  ASSUME NEW s, Unsent(s), s.compress, NEW status, Final(status)
  PROVE  LET t == CompressWriteHeader(s, status) IN
         /\ Top(s, t) /\ t.header = s.header
         /\ \/ Direct(t, status, s.header.length, <<>>)
            \/ Waiting(t, status, s.header.length, <<>>) /\ status # NoContent
  <1> DEFINE c == [s.cw EXCEPT !.wrote = TRUE, !.status = status]
             t == WithCw(s, c)
             d == decide(t, FALSE)
             u == CompressWriteHeader(s, status)
  <1>1. status \in Nat /\ status # 0 /\ s \in Stack /\ ~(status < OK)
    BY StatusNumbers DEF Unsent
  <1>2. /\ c \in CwType /\ c.wrote /\ c.status = status /\ c.buf = <<>> /\ c.gz = <<>> /\ ~c.decided /\ ~c.compressing
    BY <1>1, StackFields DEF CwType, Unsent
  <1>3. u = IF LetThrough(s.header, status) THEN BelowWriteHeader(d, status) ELSE t
    <2>1. t = [s EXCEPT !.cw = c]
      BY DEF WithCw
    <2> HIDE DEF t
    <2> QED
      BY <2>1 DEF CompressWriteHeader, Unsent
  <1> SUFFICES Top(s, u) /\ u.header = s.header
               /\ (\/ Direct(u, status, s.header.length, <<>>)
                   \/ Waiting(u, status, s.header.length, <<>>) /\ status # NoContent)
    OBVIOUS
  <1> HIDE DEF u, c
  <1>4. t \in Stack /\ Top(s, t) /\ Same(s, t) /\ t.cw = c /\ t.header = s.header
    BY <1>1, <1>2, CwSet
  <1> HIDE DEF t
  <1>5. Blank(t) /\ t.compress
    BY <1>4, SameKeeps DEF Unsent, Top
  <1>6. CASE LetThrough(s.header, status)
    <2>1. /\ d \in Stack /\ Top(t, d) /\ Same(t, d) /\ d.header = t.header
          /\ d.cw.wrote = t.cw.wrote /\ d.cw.status = t.cw.status
          /\ d.cw.decided /\ d.cw.compressing = FALSE /\ d.cw.buf = t.cw.buf /\ d.cw.gz = t.cw.gz
      BY <1>4, DecideSet
    <2> HIDE DEF d
    <2>2. Blank(d) /\ NothingHeld(d) /\ d.header = s.header /\ ~d.header.gzip
      BY <1>1, <1>2, <1>4, <1>5, <2>1, SameKeeps DEF NothingHeld, Unsent
    <2>3. u = BelowWriteHeader(d, status)
      BY <1>3, <1>6
    <2>4. Top(d, u) /\ u.header = s.header /\ Direct(u, status, s.header.length, <<>>)
      BY <2>1, <2>2, <2>3, HeaderDirect
    <2> QED
      BY <1>4, <2>1, <2>4, TopTrans
  <1>7. CASE ~LetThrough(s.header, status)
    <2>1. u = t
      BY <1>3, <1>7
    <2>2. status # NoContent /\ ~(s.header.length # Unknown /\ s.header.length < MinBytes)
      BY <1>7 DEF LetThrough
    <2>3. s.header.length = Unknown \/ s.header.length >= MinBytes
      <3>1. s.header.length \in Int
        BY <1>1, StackFields, HeaderType
      <3> QED
        BY <2>2, <3>1, ResponsesAssumption
    <2>4. Len(<<>>) < MinBytes
      BY EmptyBody, ResponsesAssumption
    <2>5. Waiting(t, status, s.header.length, <<>>)
      BY <1>2, <1>4, <1>5, <2>3, <2>4 DEF Waiting, Unsent
    <2> QED
      BY <1>4, <2>1, <2>2, <2>5
  <1> QED
    BY <1>6, <1>7

LEMMA CompressHint ==
  ASSUME NEW s, Unsent(s), s.compress
  PROVE  LET t == CompressWriteHeader(s, Early) IN Top(s, t) /\ Hinted(t, <<>>) /\ t.conn = s.conn
  <1> DEFINE c == [s.cw EXCEPT !.wrote = TRUE, !.status = Early]
             t == WithCw(s, c)
             d == decide(t, FALSE)
             u == CompressWriteHeader(s, Early)
  <1>1. Early \in Nat /\ Early # 0 /\ s \in Stack /\ Early < OK
    BY StatusNumbers DEF Unsent
  <1>2. /\ c \in CwType /\ c.wrote /\ c.status = Early /\ c.buf = <<>> /\ c.gz = <<>>
    BY <1>1, StackFields DEF CwType, Unsent
  <1>3. u = BelowWriteHeader(d, Early)
    <2>1. t = [s EXCEPT !.cw = c]
      BY DEF WithCw
    <2>2. LetThrough(s.header, Early)
      BY <1>1 DEF LetThrough
    <2> HIDE DEF t
    <2> QED
      BY <2>1, <2>2 DEF CompressWriteHeader, Unsent
  <1> SUFFICES Top(s, u) /\ Hinted(u, <<>>) /\ u.conn = s.conn
    OBVIOUS
  <1> HIDE DEF u, c
  <1>4. t \in Stack /\ Top(s, t) /\ Same(s, t) /\ t.cw = c /\ t.header = s.header
    BY <1>1, <1>2, CwSet
  <1> HIDE DEF t
  <1>5. /\ d \in Stack /\ Top(t, d) /\ Same(t, d) /\ d.header = t.header
        /\ d.cw.wrote = t.cw.wrote /\ d.cw.status = t.cw.status
        /\ d.cw.decided /\ d.cw.compressing = FALSE /\ d.cw.buf = t.cw.buf /\ d.cw.gz = t.cw.gz
    BY <1>4, DecideSet
  <1> HIDE DEF d
  <1>6. Blank(d) /\ NothingHeld(d) /\ d.conn = s.conn
    BY <1>1, <1>2, <1>4, <1>5, SameKeeps DEF NothingHeld, Unsent, Same
  <1>7. Top(d, u) /\ Hinted(u, <<>>) /\ u.conn = d.conn
    BY <1>3, <1>5, <1>6, HeaderHint
  <1> QED
    BY <1>4, <1>5, <1>6, <1>7, TopTrans

-----------------------------------------------------------------------------
\* Writing.  The body b keeps to the length that was declared.
Fits(length, b, p) == length = Unknown \/ Len(b) + Len(p) <= length

LEMMA PlainWrite ==
  ASSUME NEW s, NEW status, NEW length, NEW b, Plain(s, status, length, b), Final(status),
         NEW p \in Body, Fits(length, b, p)
  PROVE  LET t == BelowWrite(s, p) IN
         Top(s, t) /\ t.cw = s.cw /\ t.header = s.header /\ Plain(t, status, length, b \o p)
  <1> DEFINE t == BelowWrite(s, p)
  <1>1. s \in Stack /\ CaptureOK(s) /\ (s.capture \/ Uncaptured(s))
    BY DEF Plain, Captures
  <1>2. Room(s, p)
    BY DEF Room, Fits, Plain
  <1>3. Written(s, t, p)
    BY <1>1, <1>2, BelowBody
  <1> HIDE DEF t
  <1>4. Top(s, t) /\ t.cw = s.cw /\ t.header = s.header
    BY <1>3, WrittenTop
  <1>5. s.conn.status # 0
    BY StatusNumbers DEF Plain
  <1>6. Plain(t, status, length, b \o p)
    BY <1>1, <1>3, <1>4, <1>5 DEF Written, Plain, Captures, Top
  <1> QED
    BY <1>4, <1>6 DEF t

LEMMA DirectWrite ==
  ASSUME NEW s, NEW status, NEW length, NEW b, Direct(s, status, length, b), Final(status),
         NEW p \in Body, Fits(length, b, p)
  PROVE  LET t == BelowWrite(s, p) IN Top(s, t) /\ Direct(t, status, length, b \o p)
  <1> DEFINE t == BelowWrite(s, p)
  <1>1. Top(s, t) /\ t.cw = s.cw /\ Plain(t, status, length, b \o p)
    BY PlainWrite DEF Direct
  <1> HIDE DEF t
  <1>2. NothingHeld(t)
    BY <1>1 DEF NothingHeld, Top, Direct
  <1> QED
    BY <1>1, <1>2 DEF Direct, t

LEMMA HintedWrite ==
  ASSUME NEW s, NEW b, Hinted(s, b), NEW p \in Body
  PROVE  LET t == BelowWrite(s, p) IN
         /\ Top(s, t) /\ Hinted(t, b \o p)
         /\ s.conn.status # 0 => t.conn.status = s.conn.status
  <1> DEFINE t == BelowWrite(s, p)
  <1>1. s \in Stack /\ Uncaptured(s) /\ CaptureOK(s) /\ Room(s, p)
    BY UncapturedOK DEF Hinted, Room
  <1>2. Written(s, t, p)
    BY <1>1, BelowBody
  <1> HIDE DEF t
  <1>3. Top(s, t) /\ t.cw = s.cw /\ t.header = s.header
    BY <1>2, WrittenTop
  <1>4. /\ t \in Stack /\ Uncaptured(t) /\ t.conn.body = b \o p
        /\ t.conn.status # 0 /\ (s.conn.status # 0 => t.conn.status = s.conn.status)
    BY <1>1, <1>2, StatusNumbers DEF Written, Hinted
  <1>5. NothingHeld(t)
    BY <1>3 DEF NothingHeld, Top, Hinted
  <1> QED
    BY <1>3, <1>4, <1>5 DEF Hinted, t

\* Gzip's own buffer goes out.
LEMMA Flushes ==
  ASSUME NEW s, NEW status, NEW b, Compressed(s, status, b), Final(status)
  PROVE  LET t == GzipFlush(s) IN
         Top(s, t) /\ Compressed(t, status, b) /\ t.conn.body = b /\ t.cw.gz = <<>>
  <1> DEFINE t == BelowWrite(s, s.cw.gz)
             v == WithGz(t, <<>>)
             u == GzipFlush(s)
  <1>1. s \in Stack /\ Uncaptured(s) /\ CaptureOK(s) /\ s.cw.gz \in Body /\ s.conn.body \in Body
    BY UncapturedOK, StackFields DEF Compressed
  <1>2. u = IF s.cw.gz = <<>> THEN s ELSE v
    BY DEF GzipFlush, WithGz
  <1> SUFFICES Top(s, u) /\ Compressed(u, status, b) /\ u.conn.body = b /\ u.cw.gz = <<>>
    OBVIOUS
  <1> HIDE DEF u
  <1>3. CASE s.cw.gz = <<>>
    <2>1. s.conn.body \o s.cw.gz = s.conn.body
      BY <1>1, <1>3, Joined
    <2>2. u = s /\ s.conn.body = b
      BY <1>2, <1>3, <2>1 DEF Compressed
    <2>3. Top(s, s)
      BY DEF Top
    <2> QED
      BY <1>3, <2>2, <2>3
  <1>4. CASE s.cw.gz # <<>>
    <2>1. Written(s, t, s.cw.gz)
      <3>1. Room(s, s.cw.gz)
        BY <1>1 DEF Room
      <3> QED
        BY <1>1, <3>1, BelowBody
    <2> HIDE DEF t
    <2>2. Top(s, t) /\ t.cw = s.cw
      BY <2>1, WrittenTop
    <2>3. s.conn.status = status /\ status # 0 /\ s.conn.body \o s.cw.gz = b /\ s.conn.length = Unknown
      BY StatusNumbers DEF Compressed
    <2>4. /\ t \in Stack /\ Uncaptured(t) /\ t.conn.status = status /\ t.conn.length = Unknown
          /\ t.conn.body = b
      BY <1>1, <2>1, <2>3 DEF Written
    <2>5. Settings(t, v) /\ v.cw.gz = <<>> /\ v.cw.buf = t.cw.buf
      BY <2>4, EmptyBody, GzSet
    <2> HIDE DEF v
    <2>6. v \in Stack /\ Top(s, v) /\ Uncaptured(v) /\ v.conn = t.conn
      BY <2>2, <2>4, <2>5, TopTrans, SameKeeps DEF Settings, Same
    <2>7. v.conn.body \o v.cw.gz = b
      <3>1. t.conn.body \in Body
        BY <2>4, StackFields
      <3> QED
        BY <2>4, <2>5, <2>6, <3>1, Joined
    <2>8. Compressed(v, status, b)
      BY <2>2, <2>4, <2>5, <2>6, <2>7 DEF Compressed, Settings, Top
    <2> QED
      BY <1>2, <1>4, <2>4, <2>5, <2>6, <2>8
  <1> QED
    BY <1>3, <1>4

-----------------------------------------------------------------------------
\* A waiting writer, with whatever it holds: start leaves the body to it.
Held(s, status, length, b) ==
    /\ s \in Stack /\ Blank(s) /\ s.compress /\ ~s.header.gzip
    /\ s.cw.wrote /\ ~s.cw.decided /\ ~s.cw.compressing /\ s.cw.status = status
    /\ s.cw.gz = <<>> /\ s.cw.buf = b
    /\ s.header.length = length

LEMMA StartPlain ==
  ASSUME NEW s, NEW status, Final(status), NEW length, NEW b, Held(s, status, length, b)
  PROVE  LET t == start(s, FALSE) IN
         /\ Top(s, t) /\ Plain(t, status, length, <<>>)
         /\ t.compress /\ t.cw.wrote /\ t.cw.decided /\ ~t.cw.compressing /\ t.cw.status = status
         /\ t.cw.gz = <<>> /\ t.cw.buf = b
  <1> DEFINE d == decide(s, FALSE)
             t == start(s, FALSE)
  <1>1. s \in Stack /\ s.compress
    BY DEF Held
  <1>2. t = BelowWriteHeader(d, d.cw.status)
    BY DEF start
  <1>3. /\ d \in Stack /\ Top(s, d) /\ Same(s, d) /\ d.header = s.header
        /\ d.cw.wrote = s.cw.wrote /\ d.cw.status = s.cw.status
        /\ d.cw.decided /\ d.cw.compressing = FALSE /\ d.cw.buf = s.cw.buf /\ d.cw.gz = s.cw.gz
    BY <1>1, DecideSet
  <1> SUFFICES /\ Top(s, t) /\ Plain(t, status, length, <<>>)
               /\ t.compress /\ t.cw.wrote /\ t.cw.decided /\ ~t.cw.compressing /\ t.cw.status = status
               /\ t.cw.gz = <<>> /\ t.cw.buf = b
    OBVIOUS
  <1> HIDE DEF d, t
  <1>4. Blank(d) /\ ~d.header.gzip /\ d.cw.status = status /\ d.header.length = length
    BY <1>3, SameKeeps DEF Held
  <1>5. Top(d, t) /\ t.header = d.header /\ t.cw = d.cw /\ Plain(t, status, length, <<>>)
    BY <1>2, <1>3, <1>4, HeaderPlain
  <1>6. Top(s, t)
    BY <1>3, <1>5, TopTrans
  <1> QED
    BY <1>1, <1>3, <1>5, <1>6 DEF Held, Top

LEMMA StartCompressed ==
  ASSUME NEW s, NEW status, Final(status), NEW length, NEW b, Held(s, status, length, b)
  PROVE  LET t == start(s, TRUE) IN
         /\ t \in Stack /\ Top(s, t) /\ Uncaptured(t)
         /\ t.compress /\ t.cw.wrote /\ t.cw.decided /\ t.cw.compressing /\ t.cw.status = status
         /\ t.cw.gz = <<>> /\ t.cw.buf = b
         /\ t.conn.status = status /\ t.conn.length = Unknown /\ t.conn.body = <<>>
  <1> DEFINE d == decide(s, TRUE)
             h == [d.header EXCEPT !.gzip = TRUE, !.length = Unknown]
             e == [d EXCEPT !.header = h]
             t == start(s, TRUE)
  <1>1. s \in Stack /\ s.compress
    BY DEF Held
  <1>2. t = BelowWriteHeader(e, d.cw.status)
    BY DEF start
  <1>3. /\ d \in Stack /\ Top(s, d) /\ Same(s, d) /\ d.header = s.header
        /\ d.cw.wrote = s.cw.wrote /\ d.cw.status = s.cw.status
        /\ d.cw.decided /\ d.cw.compressing = TRUE /\ d.cw.buf = s.cw.buf /\ d.cw.gz = s.cw.gz
    BY <1>1, DecideSet
  <1> SUFFICES /\ t \in Stack /\ Top(s, t) /\ Uncaptured(t)
               /\ t.compress /\ t.cw.wrote /\ t.cw.decided /\ t.cw.compressing /\ t.cw.status = status
               /\ t.cw.gz = <<>> /\ t.cw.buf = b
               /\ t.conn.status = status /\ t.conn.length = Unknown /\ t.conn.body = <<>>
    OBVIOUS
  <1> HIDE DEF d, t
  <1>4. h \in Header /\ h.length = Unknown
    BY <1>3, StackFields DEF Header
  <1> HIDE DEF h
  <1>5. e \in Stack /\ Top(d, e) /\ Same(d, e) /\ e.header = h /\ e.cw = d.cw
    BY <1>3, <1>4 DEF Stack, Top, Same, Lower
  <1> HIDE DEF e
  <1>6. Blank(e)
    BY <1>3, <1>5, SameKeeps DEF Held
  <1>7. d.cw.status = status /\ status \in Nat /\ status >= OK
    BY <1>3, StatusNumbers DEF Held
  <1>8. HeaderSent(e, t, status)
    BY <1>2, <1>5, <1>6, <1>7, BelowHeader
  <1>9. Top(e, t) /\ t.cw = e.cw
    BY <1>8, SentTop
  <1>10. /\ t \in Stack /\ Uncaptured(t) /\ t.conn.status = status /\ t.conn.length = Unknown
         /\ t.conn.body = <<>>
    BY <1>4, <1>5, <1>6, <1>7, <1>8 DEF HeaderSent, Blank
  <1>11. Top(s, t)
    BY <1>3, <1>5, <1>9, TopTrans
  <1> QED
    BY <1>1, <1>3, <1>5, <1>9, <1>10, <1>11 DEF Held, Top

LEMMA WaitingHeld ==
  ASSUME NEW s, NEW status, NEW length, NEW b, Waiting(s, status, length, b)
  PROVE  Held(s, status, length, b) /\ b \in Body /\ s \in Stack /\ s.compress
  BY StackFields DEF Waiting, Held

\* The bytes held back go out as they are.
LEMMA Released ==
  ASSUME NEW s, NEW status, Final(status), NEW length, NEW b, Waiting(s, status, length, b)
  PROVE  LET t == start(s, FALSE)
             u == [BelowWrite(t, t.cw.buf) EXCEPT !.cw.buf = <<>>]
             v == BelowWrite([t EXCEPT !.cw.buf = <<>>], b)
         IN  /\ Top(s, u) /\ Direct(u, status, length, b)
             /\ Top(s, v) /\ Direct(v, status, length, b)
             /\ b = <<>> => Top(s, t) /\ Direct(t, status, length, b)
  <1> DEFINE t == start(s, FALSE)
             x == BelowWrite(t, b)
             u == WithBuf(x, <<>>)
             w == WithBuf(t, <<>>)
             v == BelowWrite(w, b)
  <1>1. Held(s, status, length, b) /\ b \in Body
    BY WaitingHeld
  <1>2. /\ Top(s, t) /\ Plain(t, status, length, <<>>)
        /\ t.compress /\ t.cw.wrote /\ t.cw.decided /\ ~t.cw.compressing /\ t.cw.status = status
        /\ t.cw.gz = <<>> /\ t.cw.buf = b
    BY <1>1, StartPlain
  <1>3. u = [BelowWrite(t, t.cw.buf) EXCEPT !.cw.buf = <<>>]
        /\ v = BelowWrite([t EXCEPT !.cw.buf = <<>>], b)
    BY <1>2 DEF WithBuf
  <1> SUFFICES /\ Top(s, u) /\ Direct(u, status, length, b)
               /\ Top(s, v) /\ Direct(v, status, length, b)
               /\ b = <<>> => Top(s, t) /\ Direct(t, status, length, b)
    BY <1>3
  <1> HIDE DEF t
  <1>4. Fits(length, <<>>, b) /\ status # 0 /\ t \in Stack /\ <<>> \o b = b /\ <<>> \in Body
    <2>1. Len(b) < MinBytes /\ (length = Unknown \/ length >= MinBytes) /\ length \in Int
      BY <1>1, StackFields, HeaderType DEF Waiting
    <2>2. Len(<<>>) = 0 /\ Len(b) \in Nat /\ <<>> \o b = b
      BY <1>1, Joined
    <2> QED
      BY <1>2, <2>1, <2>2, StatusNumbers, EmptyBody, ResponsesAssumption DEF Fits, Plain
  <1>5. Top(t, x) /\ x.cw = t.cw /\ Plain(x, status, length, b)
    <2> DEFINE e == <<>>
    <2>1. Plain(t, status, length, e) /\ Fits(length, e, b) /\ b \in Body /\ e \o b = b
      BY <1>1, <1>2, <1>4
    <2> HIDE DEF e
    <2>2. Top(t, x) /\ x.cw = t.cw /\ Plain(x, status, length, e \o b)
      BY <2>1, PlainWrite
    <2> QED
      BY <2>1, <2>2
  <1> HIDE DEF x
  <1>6. Settings(x, u) /\ u.cw.buf = <<>> /\ u.cw.gz = x.cw.gz
    BY <1>4, <1>5, BufSet DEF Plain
  <1> HIDE DEF u
  <1>7. Direct(u, status, length, b) /\ Top(s, u)
    <2>1. NothingHeld(u)
      BY <1>2, <1>4, <1>5, <1>6 DEF NothingHeld, Settings
    <2>2. Plain(u, status, length, b)
      BY <1>5, <1>6, SameKeeps DEF Settings, Plain, Same, Captures, Top
    <2> QED
      BY <1>2, <1>5, <1>6, <2>1, <2>2, TopTrans DEF Direct, Settings
  <1>8. Settings(t, w) /\ w.cw.buf = <<>> /\ w.cw.gz = t.cw.gz
    BY <1>4, BufSet
  <1> HIDE DEF w
  <1>9. Direct(w, status, length, <<>>)
    <2>1. NothingHeld(w)
      BY <1>2, <1>4, <1>8 DEF NothingHeld, Settings
    <2>2. Plain(w, status, length, <<>>)
      BY <1>2, <1>8, SameKeeps DEF Settings, Plain, Same, Captures, Top
    <2> QED
      BY <2>1, <2>2 DEF Direct
  <1>10. Top(w, v) /\ Direct(v, status, length, b)
    <2> DEFINE e == <<>>
    <2>1. Direct(w, status, length, e) /\ Fits(length, e, b) /\ b \in Body /\ e \o b = b
      BY <1>1, <1>4, <1>9
    <2> HIDE DEF e
    <2>2. Top(w, v) /\ Direct(v, status, length, e \o b)
      BY <2>1, DirectWrite
    <2> QED
      BY <2>1, <2>2
  <1> HIDE DEF v
  <1>11. Top(s, v)
    BY <1>2, <1>8, <1>10, TopTrans DEF Settings
  <1>12. b = <<>> => Direct(t, status, length, b)
    BY <1>2, <1>4 DEF Direct, NothingHeld
  <1> QED
    BY <1>2, <1>7, <1>10, <1>11, <1>12

-----------------------------------------------------------------------------
\* What the visitor has only grows, under one status.
Extends(a, b) == \E q \in Body : b = a \o q

Onward(s, t) ==
    /\ s.conn.status # 0 => t.conn.status = s.conn.status
    /\ Extends(s.conn.body, t.conn.body)

LEMMA ExtendsItself == ASSUME NEW a \in Body PROVE Extends(a, a) /\ Extends(<<>>, a)
  BY Joined DEF Extends

LEMMA ExtendsBy == ASSUME NEW a \in Body, NEW q \in Body PROVE Extends(a, a \o q)
  BY DEF Extends

\* A final status has been given and the body b, within its declared length.
Sending(s, status, length, b) ==
    \/ Waiting(s, status, length, b)
    \/ Direct(s, status, length, b)
    \/ Compressed(s, status, b)

LEMMA SendingType ==
  ASSUME NEW s, NEW status, NEW length, NEW b, Sending(s, status, length, b)
  PROVE  /\ s \in Stack /\ b \in Body /\ s.conn.body \in Body
         /\ s.compress => s.cw.wrote
         /\ s.conn.status = 0 \/ s.conn.status = status
  <1>1. s \in Stack
    BY DEF Sending, Waiting, Direct, Plain, Compressed
  <1>2. s.conn.body \in Body /\ s.cw.gz \in Body /\ s.cw.buf \in Body
    BY <1>1, StackFields
  <1>3. CASE Waiting(s, status, length, b)
    BY <1>1, <1>2, <1>3 DEF Waiting, Blank
  <1>4. CASE Direct(s, status, length, b)
    BY <1>1, <1>2, <1>4 DEF Direct, Plain, NothingHeld
  <1>5. CASE Compressed(s, status, b)
    BY <1>1, <1>2, <1>5, Joined DEF Compressed
  <1> QED
    BY <1>3, <1>4, <1>5 DEF Sending

\* CompressWrite once there is a status.
Took(t, p) ==
    LET held == WithBuf(t, t.cw.buf \o p)
    IN  IF t.cw.decided THEN CompressedWrite(t, p)
        ELSE IF Len(held.cw.buf) < MinBytes THEN held
        ELSE CompressedWrite(WithBuf(start(held, TRUE), <<>>), held.cw.buf)

LEMMA CompressTook == ASSUME NEW s, s.cw.wrote, NEW p PROVE CompressWrite(s, p) = Took(s, p)
  <1> DEFINE t == IF s.cw.wrote THEN s ELSE CompressWriteHeader(s, OK)
  <1>1. CompressWrite(s, p) = Took(t, p)
    BY DEF CompressWrite, Took, WithBuf
  <1>2. t = s
    OBVIOUS
  <1> QED
    BY <1>1, <1>2

LEMMA WaitingWrite ==
  ASSUME NEW s, NEW status, NEW length, NEW b, Waiting(s, status, length, b), Final(status),
         NEW p \in Body
  PROVE  LET t == CompressWrite(s, p) IN Top(s, t) /\ Sending(t, status, length, b \o p)
  <1> DEFINE held == WithBuf(s, s.cw.buf \o p)
             x == start(held, TRUE)
             y == WithBuf(x, <<>>)
             z == WithGz(y, y.cw.gz \o held.cw.buf)
             u == CompressWrite(s, p)
  <1>1. /\ s \in Stack /\ b \in Body /\ s.cw.buf = b /\ s.compress /\ s.cw.wrote /\ ~s.cw.decided
        /\ b \o p \in Body /\ Len(b \o p) \in Nat
    <2>1. s \in Stack /\ b \in Body
      BY WaitingHeld
    <2>2. b \o p \in Body
      BY <2>1, Joined
    <2> QED
      BY <2>1, <2>2, Joined DEF Waiting
  <1>2. u = IF Len(held.cw.buf) < MinBytes THEN held ELSE CompressedWrite(y, held.cw.buf)
    BY <1>1, CompressTook DEF Took
  <1> SUFFICES Top(s, u) /\ Sending(u, status, length, b \o p)
    OBVIOUS
  <1> HIDE DEF u
  <1>3. Settings(s, held) /\ held.cw.buf = b \o p /\ held.cw.gz = s.cw.gz
    BY <1>1, BufSet
  <1> HIDE DEF held
  <1>4. held \in Stack /\ Top(s, held) /\ Held(held, status, length, b \o p)
    BY <1>3, SameKeeps DEF Waiting, Held, Settings, Top
  <1>5. CASE Len(b \o p) < MinBytes
    <2>1. u = held
      BY <1>2, <1>3, <1>5
    <2>2. Waiting(held, status, length, b \o p)
      BY <1>4, <1>5 DEF Held, Waiting
    <2> QED
      BY <1>4, <2>1, <2>2 DEF Sending
  <1>6. CASE ~(Len(b \o p) < MinBytes)
    <2>1. u = CompressedWrite(y, held.cw.buf)
      BY <1>2, <1>3, <1>6
    <2>2. /\ x \in Stack /\ Top(held, x) /\ Uncaptured(x)
          /\ x.compress /\ x.cw.wrote /\ x.cw.decided /\ x.cw.compressing /\ x.cw.status = status
          /\ x.cw.gz = <<>> /\ x.cw.buf = b \o p
          /\ x.conn.status = status /\ x.conn.length = Unknown /\ x.conn.body = <<>>
      BY <1>4, StartCompressed
    <2> HIDE DEF x
    <2>3. Settings(x, y) /\ y.cw.buf = <<>> /\ y.cw.gz = x.cw.gz
      BY <2>2, EmptyBody, BufSet
    <2>4. y.cw.compressing
      BY <2>2, <2>3 DEF Settings
    <2>5. u = z
      BY <2>1, <2>4 DEF CompressedWrite, WithGz
    <2> HIDE DEF y
    <2>6. y \in Stack /\ y.cw.gz \o held.cw.buf = b \o p
      BY <1>1, <1>3, <2>2, <2>3, Joined DEF Settings
    <2>7. Settings(y, z) /\ z.cw.gz = b \o p /\ z.cw.buf = y.cw.buf
      BY <1>1, <2>6, GzSet
    <2> HIDE DEF z
    <2>8. Top(s, z)
      BY <1>4, <2>2, <2>3, <2>7, TopTrans DEF Settings
    <2>9. Uncaptured(z) /\ z.conn = x.conn
      BY <2>2, <2>3, <2>7, SameKeeps DEF Settings, Same
    <2>10. z.conn.body \o z.cw.gz = b \o p
      <3> DEFINE w == b \o p
      <3>1. w \in Body /\ z.cw.gz = w /\ z.conn.body = <<>>
        BY <1>1, <2>2, <2>7, <2>9
      <3> HIDE DEF w
      <3>2. <<>> \o w = w
        BY <3>1, Joined
      <3> QED
        BY <3>1, <3>2 DEF w
    <2>11. Compressed(z, status, b \o p)
      BY <2>2, <2>3, <2>7, <2>9, <2>10 DEF Compressed, Settings, Top
    <2> QED
      BY <2>5, <2>8, <2>11 DEF Sending
  <1> QED
    BY <1>5, <1>6

LEMMA CompressedWriteOK ==
  ASSUME NEW s, NEW status, NEW length, NEW b, Compressed(s, status, b), Final(status),
         NEW p \in Body
  PROVE  LET t == CompressWrite(s, p) IN
         Top(s, t) /\ Compressed(t, status, b \o p) /\ t.conn = s.conn
  <1> DEFINE t == WithGz(s, s.cw.gz \o p)
             u == CompressWrite(s, p)
  <1>1. s \in Stack /\ s.cw.gz \in Body /\ s.cw.gz \o p \in Body /\ s.conn.body \in Body
    BY StackFields, Joined DEF Compressed
  <1>2. u = t
    BY DEF CompressWrite, CompressedWrite, WithGz, Compressed
  <1> SUFFICES Top(s, u) /\ Compressed(u, status, b \o p) /\ u.conn = s.conn
    OBVIOUS
  <1> HIDE DEF u
  <1>3. Settings(s, t) /\ t.cw.gz = s.cw.gz \o p /\ t.cw.buf = s.cw.buf
    BY <1>1, GzSet
  <1> HIDE DEF t
  <1>4. s.conn.body \o (s.cw.gz \o p) = b \o p
    BY <1>1, JoinAssoc DEF Compressed
  <1>5. t.conn = s.conn /\ Uncaptured(t)
    BY <1>3, SameKeeps DEF Settings, Same, Compressed
  <1>6. Compressed(t, status, b \o p)
    BY <1>3, <1>4, <1>5 DEF Compressed, Settings, Top
  <1> QED
    BY <1>2, <1>3, <1>5, <1>6 DEF Settings

\* Writing through the compress writer, or past it.
Through(s, p) == IF s.compress THEN CompressWrite(s, p) ELSE BelowWrite(s, p)

LEMMA SendingWrite ==
  ASSUME NEW s, NEW status, NEW length, NEW b, Sending(s, status, length, b), Final(status),
         NEW p \in Body, Fits(length, b, p)
  PROVE  LET t == Through(s, p) IN
         Top(s, t) /\ Sending(t, status, length, b \o p) /\ Onward(s, t)
  <1> DEFINE t == Through(s, p)
  <1>1. s \in Stack /\ b \in Body /\ s.conn.body \in Body
    BY SendingType
  <1> SUFFICES Top(s, t) /\ Sending(t, status, length, b \o p) /\ Onward(s, t)
    OBVIOUS
  <1>2. CASE Waiting(s, status, length, b)
    <2>1. t = CompressWrite(s, p)
      BY <1>2 DEF Waiting, Through
    <2> HIDE DEF t
    <2>2. Top(s, t) /\ Sending(t, status, length, b \o p)
      BY <1>2, <2>1, WaitingWrite
    <2>3. s.conn.status = 0 /\ s.conn.body = <<>> /\ t.conn.body \in Body
      BY <1>2, <2>2, SendingType DEF Waiting, Blank
    <2> QED
      BY <2>2, <2>3, ExtendsItself DEF Onward
  <1>3. CASE Direct(s, status, length, b)
    <2>1. t = BelowWrite(s, p)
      BY <1>3 DEF Direct, NothingHeld, Through, CompressWrite, CompressedWrite
    <2> HIDE DEF t
    <2>2. Top(s, t) /\ Direct(t, status, length, b \o p)
      BY <1>3, <2>1, DirectWrite
    <2>3. Onward(s, t)
      BY <1>1, <1>3, <2>2, ExtendsBy DEF Onward, Direct, Plain
    <2> QED
      BY <2>2, <2>3 DEF Sending
  <1>4. CASE Compressed(s, status, b)
    <2>1. t = CompressWrite(s, p)
      BY <1>4 DEF Compressed, Through
    <2> HIDE DEF t
    <2>2. Top(s, t) /\ Compressed(t, status, b \o p) /\ t.conn = s.conn
      BY <1>4, <2>1, CompressedWriteOK
    <2>3. Onward(s, t)
      BY <1>1, <2>2, ExtendsItself DEF Onward
    <2> QED
      BY <2>2, <2>3 DEF Sending
  <1> HIDE DEF t
  <1> QED
    BY <1>2, <1>3, <1>4 DEF Sending

LEMMA HintedThrough ==
  ASSUME NEW s, NEW b \in Body, Hinted(s, b), NEW p \in Body
  PROVE  LET t == Through(s, p) IN Top(s, t) /\ Hinted(t, b \o p) /\ Onward(s, t)
  <1> DEFINE t == Through(s, p)
  <1>1. t = BelowWrite(s, p)
    BY DEF Hinted, NothingHeld, Through, CompressWrite, CompressedWrite
  <1> SUFFICES Top(s, t) /\ Hinted(t, b \o p) /\ Onward(s, t)
    OBVIOUS
  <1> HIDE DEF t
  <1>2. Top(s, t) /\ Hinted(t, b \o p) /\ (s.conn.status # 0 => t.conn.status = s.conn.status)
    BY <1>1, HintedWrite
  <1>3. Onward(s, t)
    BY <1>2, ExtendsBy DEF Hinted, Onward
  <1> QED
    BY <1>2, <1>3

-----------------------------------------------------------------------------
\* Flushing.
LEMMA TopItself == ASSUME NEW s PROVE Top(s, s) /\ Same(s, s)
  BY DEF Top, Same, Lower

LEMMA OnwardItself == ASSUME NEW s \in Stack PROVE Onward(s, s)
  BY StackFields, ExtendsItself DEF Onward

LEMMA NothingToFlush ==
  ASSUME NEW s, s.compress, NothingHeld(s)
  PROVE  CompressFlush(s) = s /\ GzipFlush(s) = s /\ CompressClose(s) = s
  <1>1. GzipFlush(s) = s
    BY DEF GzipFlush, NothingHeld
  <1>2. CompressFlush(s) = s
    BY <1>1 DEF CompressFlush, NothingHeld
  <1>3. CompressClose(s) = s
    <2> DEFINE t == IF s.cw.status = 0 THEN [s EXCEPT !.cw.status = OK] ELSE s
    <2>1. t = s
      BY DEF NothingHeld
    <2> HIDE DEF t
    <2>2. CompressClose(s) = IF t.cw.decided THEN GzipFlush(t)
             ELSE LET u == start(t, FALSE) IN
                  IF u.cw.buf = <<>> THEN u ELSE [BelowWrite(u, u.cw.buf) EXCEPT !.cw.buf = <<>>]
      BY DEF CompressClose, t
    <2> QED
      BY <1>1, <2>1, <2>2 DEF NothingHeld
  <1> QED
    BY <1>1, <1>2, <1>3

LEMMA WaitingFlush ==
  ASSUME NEW s, NEW status, NEW length, NEW b, Waiting(s, status, length, b), Final(status)
  PROVE  LET t == CompressFlush(s) IN
         Top(s, t) /\ (Waiting(t, status, length, b) \/ Direct(t, status, length, b))
  <1> DEFINE t == CompressFlush(s)
             v == BelowWrite([start(s, FALSE) EXCEPT !.cw.buf = <<>>], b)
  <1>1. ~s.cw.decided /\ s.cw.buf = b /\ b \in Body /\ Len(b) < MinBytes
    BY WaitingHeld DEF Waiting
  <1> SUFFICES Top(s, t) /\ (Waiting(t, status, length, b) \/ Direct(t, status, length, b))
    OBVIOUS
  <1>2. CASE b = <<>>
    <2>1. t = s
      BY <1>1, <1>2 DEF CompressFlush
    <2> QED
      BY <2>1, TopItself
  <1>3. CASE b # <<>>
    <2> DEFINE x == WithBuf(start(s, FALSE), <<>>)
    <2>1. (Len(b) >= MinBytes) = FALSE
      BY <1>1, Joined, ResponsesAssumption
    <2>2. t = GzipFlush(CompressedWrite(WithBuf(start(s, Len(b) >= MinBytes), <<>>), b))
      <3> DEFINE w == CompressedWrite(WithBuf(start(s, Len(s.cw.buf) >= MinBytes), <<>>), s.cw.buf)
      <3>1. t = IF ~s.cw.decided /\ s.cw.buf = <<>> THEN s ELSE GzipFlush(IF s.cw.decided THEN s ELSE w)
        BY DEF CompressFlush, WithBuf
      <3>2. w = CompressedWrite(WithBuf(start(s, Len(b) >= MinBytes), <<>>), b)
        BY <1>1
      <3> HIDE DEF w, t
      <3>3. (IF s.cw.decided THEN s ELSE w) = w
        BY <1>1
      <3>4. t = GzipFlush(w)
        BY <1>1, <1>3, <3>1, <3>3
      <3> QED
        BY <3>2, <3>4
    <2>3. t = GzipFlush(CompressedWrite(x, b))
      <3>1. start(s, Len(b) >= MinBytes) = start(s, FALSE)
        BY <2>1
      <3> HIDE DEF t
      <3> QED
        BY <2>2, <3>1
    <2> HIDE DEF t
    <2>4. Held(s, status, length, b)
      BY WaitingHeld
    <2>5. start(s, FALSE) \in Stack /\ ~start(s, FALSE).cw.compressing
      BY <2>4, StartPlain DEF Plain
    <2>6. ~x.cw.compressing
      <3> DEFINE y == start(s, FALSE)
      <3>1. y \in Stack /\ ~y.cw.compressing /\ <<>> \in Body
        BY <2>5, EmptyBody
      <3> HIDE DEF y
      <3>2. Settings(y, WithBuf(y, <<>>))
        BY <3>1, BufSet
      <3>3. ~WithBuf(y, <<>>).cw.compressing
        BY <3>1, <3>2 DEF Settings
      <3> QED
        BY <3>3 DEF y
    <2>7. x = [start(s, FALSE) EXCEPT !.cw.buf = <<>>]
      BY DEF WithBuf
    <2>8. CompressedWrite(x, b) = v
      BY <2>6, <2>7 DEF CompressedWrite
    <2> HIDE DEF x
    <2>9. Top(s, v) /\ Direct(v, status, length, b)
      BY Released
    <2> HIDE DEF v
    <2>10. v.compress
      BY <2>9 DEF Top, Waiting
    <2>11. GzipFlush(v) = v
      BY <2>9, <2>10, NothingToFlush DEF Direct
    <2> QED
      BY <2>3, <2>8, <2>9, <2>11
  <1> HIDE DEF t
  <1> QED
    BY <1>2, <1>3

LEMMA CompressedFlush ==
  ASSUME NEW s, NEW status, NEW b, Compressed(s, status, b), Final(status)
  PROVE  /\ CompressFlush(s) = GzipFlush(s) /\ CompressClose(s) = GzipFlush(s)
         /\ Onward(s, GzipFlush(s))
  <1>1. CompressFlush(s) = GzipFlush(s)
    BY DEF CompressFlush, Compressed
  <1>2. CompressClose(s) = GzipFlush(s)
    <2> DEFINE t == IF s.cw.status = 0 THEN [s EXCEPT !.cw.status = OK] ELSE s
    <2>1. t = s
      BY StatusNumbers DEF Compressed
    <2> HIDE DEF t
    <2>2. CompressClose(s) = IF t.cw.decided THEN GzipFlush(t)
             ELSE LET u == start(t, FALSE) IN
                  IF u.cw.buf = <<>> THEN u ELSE [BelowWrite(u, u.cw.buf) EXCEPT !.cw.buf = <<>>]
      BY DEF CompressClose, t
    <2> QED
      BY <2>1, <2>2 DEF Compressed
  <1>3. Onward(s, GzipFlush(s))
    <2> DEFINE u == GzipFlush(s)
    <2>1. Compressed(u, status, b) /\ u.conn.body = b
      BY Flushes
    <2> HIDE DEF u
    <2>2. s.conn.body \in Body /\ s.cw.gz \in Body /\ b = s.conn.body \o s.cw.gz
      BY StackFields DEF Compressed
    <2>3. Extends(s.conn.body, u.conn.body)
      BY <2>1, <2>2, ExtendsBy
    <2>4. Onward(s, u)
      BY <2>1, <2>3 DEF Onward, Compressed
    <2> QED
      BY <2>4 DEF u
  <1> QED
    BY <1>1, <1>2, <1>3

LEMMA SendingFlush ==
  ASSUME NEW s, NEW status, NEW length, NEW b, Sending(s, status, length, b), Final(status)
  PROVE  LET t == Flush(s) IN Top(s, t) /\ Sending(t, status, length, b) /\ Onward(s, t)
  <1> DEFINE t == Flush(s)
  <1>1. s \in Stack /\ b \in Body
    BY SendingType
  <1> SUFFICES Top(s, t) /\ Sending(t, status, length, b) /\ Onward(s, t)
    OBVIOUS
  <1>2. CASE ~s.compress
    <2>1. t = s
      BY <1>2 DEF Flush
    <2> QED
      BY <1>1, <2>1, TopItself, OnwardItself
  <1>3. CASE Waiting(s, status, length, b)
    <2>1. t = CompressFlush(s)
      BY <1>3 DEF Flush, Waiting
    <2> HIDE DEF t
    <2>2. Top(s, t) /\ (Waiting(t, status, length, b) \/ Direct(t, status, length, b))
      BY <1>3, <2>1, WaitingFlush
    <2>3. Sending(t, status, length, b)
      BY <2>2 DEF Sending
    <2>4. s.conn.status = 0 /\ s.conn.body = <<>> /\ t.conn.body \in Body
      BY <1>3, <2>3, SendingType DEF Waiting, Blank
    <2> QED
      BY <2>2, <2>3, <2>4, ExtendsItself DEF Onward
  <1>4. CASE Direct(s, status, length, b) /\ s.compress
    <2>1. t = s
      BY <1>4, NothingToFlush DEF Flush, Direct
    <2> QED
      BY <1>1, <2>1, TopItself, OnwardItself
  <1>5. CASE Compressed(s, status, b)
    <2>1. t = GzipFlush(s)
      BY <1>5, CompressedFlush DEF Flush, Compressed
    <2> QED
      BY <1>5, <2>1, Flushes, CompressedFlush DEF Sending
  <1> HIDE DEF t
  <1> QED
    BY <1>2, <1>3, <1>4, <1>5 DEF Sending

LEMMA HintedFlush == ASSUME NEW s, NEW b, Hinted(s, b) PROVE Flush(s) = s
  BY NothingToFlush DEF Flush, Hinted

\* The deferred Close leaves nothing behind.
Closed(s, status, length, b) ==
    /\ s \in Stack /\ CaptureOK(s) /\ s.conn.status = status /\ s.conn.body = b
    /\ \/ s.conn.length = length /\ ~s.conn.gzip
       \/ s.conn.length = Unknown /\ Uncaptured(s)
    /\ length = Unknown \/ status # OK => Uncaptured(s)

CloseWriters(s) == IF s.compress THEN CompressClose(s) ELSE s

LEMMA DirectClosed ==
  ASSUME NEW s, NEW status, NEW length, NEW b, Direct(s, status, length, b)
  PROVE  Closed(s, status, length, b)
  BY DEF Direct, Plain, Captures, Closed

LEMMA WaitingClose ==
  ASSUME NEW s, NEW status, NEW length, NEW b, Waiting(s, status, length, b), Final(status)
  PROVE  LET t == CompressClose(s) IN Top(s, t) /\ Direct(t, status, length, b)
  <1> DEFINE t == IF s.cw.status = 0 THEN [s EXCEPT !.cw.status = OK] ELSE s
             u == start(s, FALSE)
             v == [BelowWrite(u, u.cw.buf) EXCEPT !.cw.buf = <<>>]
             r == CompressClose(s)
  <1>1. t = s
    BY StatusNumbers DEF Waiting
  <1> HIDE DEF t
  <1>2. r = IF t.cw.decided THEN GzipFlush(t)
             ELSE LET w == start(t, FALSE) IN
                  IF w.cw.buf = <<>> THEN w ELSE [BelowWrite(w, w.cw.buf) EXCEPT !.cw.buf = <<>>]
    BY DEF CompressClose, t
  <1>3. r = IF u.cw.buf = <<>> THEN u ELSE v
    BY <1>1, <1>2 DEF Waiting
  <1>4. Held(s, status, length, b)
    BY WaitingHeld
  <1>5. u.cw.buf = b
    BY <1>4, StartPlain
  <1>6. /\ Top(s, v) /\ Direct(v, status, length, b)
        /\ b = <<>> => Top(s, u) /\ Direct(u, status, length, b)
    BY Released
  <1> SUFFICES Top(s, r) /\ Direct(r, status, length, b)
    OBVIOUS
  <1> HIDE DEF r, u, v
  <1> QED
    BY <1>3, <1>5, <1>6

LEMMA SendingClose ==
  ASSUME NEW s, NEW status, NEW length, NEW b, Sending(s, status, length, b), Final(status)
  PROVE  LET t == CloseWriters(s) IN Top(s, t) /\ Closed(t, status, length, b) /\ Onward(s, t)
  <1> DEFINE t == CloseWriters(s)
  <1>1. s \in Stack /\ b \in Body
    BY SendingType
  <1> SUFFICES Top(s, t) /\ Closed(t, status, length, b) /\ Onward(s, t)
    OBVIOUS
  <1>2. CASE Direct(s, status, length, b)
    <2>1. t = s
      BY <1>2, NothingToFlush DEF CloseWriters, Direct
    <2> QED
      BY <1>1, <1>2, <2>1, TopItself, OnwardItself, DirectClosed
  <1>3. CASE Waiting(s, status, length, b)
    <2>1. t = CompressClose(s)
      BY <1>3 DEF CloseWriters, Waiting
    <2> HIDE DEF t
    <2>2. Top(s, t) /\ Direct(t, status, length, b)
      BY <1>3, <2>1, WaitingClose
    <2>3. s.conn.status = 0 /\ s.conn.body = <<>> /\ t.conn.body \in Body
      BY <1>1, <1>3, <2>2 DEF Waiting, Blank, Direct, Plain
    <2> QED
      BY <2>2, <2>3, ExtendsItself, DirectClosed DEF Onward
  <1>4. CASE Compressed(s, status, b)
    <2>1. t = GzipFlush(s)
      BY <1>4, CompressedFlush DEF CloseWriters, Compressed
    <2> HIDE DEF t
    <2>2. Top(s, t) /\ Compressed(t, status, b) /\ t.conn.body = b /\ Onward(s, t)
      BY <1>4, <2>1, Flushes, CompressedFlush
    <2>3. Closed(t, status, length, b)
      BY <2>2, UncapturedOK DEF Closed, Compressed
    <2> QED
      BY <2>2, <2>3
  <1> HIDE DEF t
  <1> QED
    BY <1>2, <1>3, <1>4 DEF Sending

LEMMA HintedClose == ASSUME NEW s, NEW b, Hinted(s, b) PROVE CloseWriters(s) = s
  BY NothingToFlush DEF CloseWriters, Hinted

-----------------------------------------------------------------------------
\* The recorder, on top.
Under(s, t) ==
    /\ t \in Stack /\ t.compress = s.compress /\ t.capture = s.capture
    /\ t.cw = s.cw /\ Same(s, t)

LEMMA Carried ==
  ASSUME NEW s, NEW t, Under(s, t)
  PROVE  /\ Unsent(s) /\ ~t.header.gzip => Unsent(t)
         /\ \A status, length, b : Sending(s, status, length, b) /\ t.header = s.header
                                        => Sending(t, status, length, b)
         /\ \A b : Hinted(s, b) => Hinted(t, b)
         /\ s \in Stack => Onward(s, t)
  <1>1. /\ t \in Stack /\ t.compress = s.compress /\ t.capture = s.capture /\ t.cw = s.cw /\ t.conn = s.conn
        /\ CaptureOK(s) => CaptureOK(t)
        /\ Uncaptured(s) => Uncaptured(t)
        /\ Blank(s) => Blank(t)
    BY SameKeeps DEF Under, Same
  <1>2. NothingHeld(s) => NothingHeld(t)
    BY <1>1 DEF NothingHeld
  <1>3. Unsent(s) /\ ~t.header.gzip => Unsent(t)
    BY <1>1 DEF Unsent
  <1>4. ASSUME NEW status, NEW length, NEW b, Sending(s, status, length, b), t.header = s.header
        PROVE  Sending(t, status, length, b)
    <2>1. Waiting(s, status, length, b) => Waiting(t, status, length, b)
      BY <1>1, <1>4 DEF Waiting
    <2>2. Direct(s, status, length, b) => Direct(t, status, length, b)
      BY <1>1, <1>2 DEF Direct, Plain, Captures
    <2>3. Compressed(s, status, b) => Compressed(t, status, b)
      BY <1>1 DEF Compressed
    <2> QED
      BY <1>4, <2>1, <2>2, <2>3 DEF Sending
  <1>5. ASSUME NEW b, Hinted(s, b) PROVE Hinted(t, b)
    BY <1>1, <1>2, <1>5 DEF Hinted
  <1>6. ASSUME s \in Stack PROVE Onward(s, t)
    BY <1>1, <1>6, StackFields, ExtendsItself DEF Onward
  <1> QED
    BY <1>3, <1>4, <1>5, <1>6

RecType == [status : Nat, sent : BOOLEAN, written : Nat]

WithRec(s, r) == [s EXCEPT !.rec = r]
WithHeader(s, h) == [s EXCEPT !.header = h]
WithLogged(s, n) == [s EXCEPT !.logged = n]

LEMMA RecSet ==
  ASSUME NEW s \in Stack, NEW r \in RecType
  PROVE  LET t == WithRec(s, r) IN
         Under(s, t) /\ t.rec = r /\ t.header = s.header /\ t.logged = s.logged
  BY DEF WithRec, Stack, RecType, Under, Same, Lower

LEMMA HeaderSet ==
  ASSUME NEW s \in Stack, NEW h \in Header
  PROVE  LET t == WithHeader(s, h) IN
         Under(s, t) /\ t.rec = s.rec /\ t.header = h /\ t.logged = s.logged
  BY DEF WithHeader, Stack, Under, Same, Lower

LEMMA LoggedSet ==
  ASSUME NEW s \in Stack, NEW n \in Nat
  PROVE  LET t == WithLogged(s, n) IN
         Under(s, t) /\ t.rec = s.rec /\ t.header = s.header /\ t.logged = n
  BY DEF WithLogged, Stack, Under, Same, Lower

\* What is behind the recorder once it has passed on a status.
Noted(s, t, status) ==
    t.rec.sent /\ t.rec.status = status /\ t.logged = s.logged /\ t.conn.end = s.conn.end

LEMMA WriteHeaderFirst ==
  ASSUME NEW s, Unsent(s), ~s.rec.sent, NEW status, Final(status)
  PROVE  LET t == WriteHeader(s, status) IN
         Noted(s, t, status) /\ Sending(t, status, s.header.length, <<>>) /\ t.header = s.header
  <1> DEFINE r == [s.rec EXCEPT !.status = status, !.sent = TRUE]
             x == WithRec(s, r)
             t == WriteHeader(s, status)
  <1>1. s \in Stack /\ status \in Nat
    BY StatusNumbers DEF Unsent
  <1>2. r \in RecType /\ r.sent /\ r.status = status
    BY <1>1, StackFields DEF RecType
  <1>3. t = IF s.compress THEN CompressWriteHeader(x, status) ELSE BelowWriteHeader(x, status)
    BY DEF WriteHeader, WithRec
  <1> SUFFICES Noted(s, t, status) /\ Sending(t, status, s.header.length, <<>>) /\ t.header = s.header
    OBVIOUS
  <1> HIDE DEF t, r
  <1>4. Under(s, x) /\ x.rec = r /\ x.header = s.header /\ x.logged = s.logged
    BY <1>1, <1>2, RecSet
  <1> HIDE DEF x
  <1>5. Unsent(x) /\ x.conn = s.conn /\ x.compress = s.compress /\ x \in Stack
    BY <1>4, Carried DEF Unsent, Under, Same
  <1>6. Top(x, t) /\ t.header = x.header /\ Sending(t, status, x.header.length, <<>>)
    <2>1. CASE s.compress
      <3>1. t = CompressWriteHeader(x, status)
        BY <1>3, <2>1
      <3> QED
        BY <1>5, <2>1, <3>1, CompressHeader DEF Sending
    <2>2. CASE ~s.compress
      <3>1. t = BelowWriteHeader(x, status)
        BY <1>3, <2>2
      <3>2. Blank(x) /\ ~x.header.gzip /\ NothingHeld(x)
        BY <1>5, <2>2 DEF Unsent, NothingHeld
      <3> QED
        BY <1>5, <3>1, <3>2, HeaderDirect DEF Sending
    <2> QED
      BY <2>1, <2>2
  <1> QED
    BY <1>2, <1>4, <1>5, <1>6 DEF Noted, Top

LEMMA WriteHeaderHint ==
  ASSUME NEW s, Unsent(s), ~s.rec.sent
  PROVE  LET t == WriteHeader(s, Early) IN
         Noted(s, t, Early) /\ Hinted(t, <<>>) /\ t.conn = s.conn
  <1> DEFINE r == [s.rec EXCEPT !.status = Early, !.sent = TRUE]
             x == WithRec(s, r)
             t == WriteHeader(s, Early)
  <1>1. s \in Stack /\ Early \in Nat
    BY StatusNumbers DEF Unsent
  <1>2. r \in RecType /\ r.sent /\ r.status = Early
    BY <1>1, StackFields DEF RecType
  <1>3. t = IF s.compress THEN CompressWriteHeader(x, Early) ELSE BelowWriteHeader(x, Early)
    BY DEF WriteHeader, WithRec
  <1> SUFFICES Noted(s, t, Early) /\ Hinted(t, <<>>) /\ t.conn = s.conn
    OBVIOUS
  <1> HIDE DEF t, r
  <1>4. Under(s, x) /\ x.rec = r /\ x.header = s.header /\ x.logged = s.logged
    BY <1>1, <1>2, RecSet
  <1> HIDE DEF x
  <1>5. Unsent(x) /\ x.conn = s.conn /\ x.compress = s.compress /\ x \in Stack
    BY <1>4, Carried DEF Unsent, Under, Same
  <1>6. Top(x, t) /\ Hinted(t, <<>>) /\ t.conn = x.conn
    <2>1. CASE s.compress
      <3>1. t = CompressWriteHeader(x, Early)
        BY <1>3, <2>1
      <3> QED
        BY <1>5, <2>1, <3>1, CompressHint
    <2>2. CASE ~s.compress
      <3>1. t = BelowWriteHeader(x, Early)
        BY <1>3, <2>2
      <3>2. Blank(x) /\ NothingHeld(x)
        BY <1>5, <2>2 DEF Unsent, NothingHeld
      <3> QED
        BY <1>5, <3>1, <3>2, HeaderHint
    <2> QED
      BY <2>1, <2>2
  <1> QED
    BY <1>2, <1>4, <1>5, <1>6 DEF Noted, Top

LEMMA WriteHeaderAgain == ASSUME NEW s, s.rec.sent, NEW status PROVE WriteHeader(s, status) = s
  BY DEF WriteHeader

\* Write, once the status is out: what the lower writers get, and the count.
LEMMA WriteThrough ==
  ASSUME NEW s \in Stack, s.rec.sent, NEW p \in Body
  PROVE  \E x : /\ Write(s, p) = Through(x, p)
                /\ Under(s, x) /\ x.header = s.header /\ x.logged = s.logged
                /\ x.rec.sent /\ x.rec.status = s.rec.status
  <1> DEFINE y == WriteHeader(s, OK)
             r == [s.rec EXCEPT !.written = s.rec.written + Len(p)]
             x == WithRec(s, r)
  <1>1. y = s
    BY WriteHeaderAgain
  <1>2. r \in RecType /\ r.sent /\ r.status = s.rec.status
    <2> DEFINE n == s.rec.written + Len(p)
    <2>1. n \in Nat
      BY StackFields, Joined
    <2>a. r = [s.rec EXCEPT !.written = n] /\ s.rec.sent
      OBVIOUS
    <2> HIDE DEF n, r
    <2>2. s.rec \in [status : Nat, sent : BOOLEAN, written : Nat]
      BY StackFields
    <2>3. r \in RecType /\ r.sent = s.rec.sent /\ r.status = s.rec.status
      BY <2>a, <2>1, <2>2 DEF RecType
    <2> QED
      BY <2>a, <2>3
  <1>3. Write(s, p) = LET t == [y EXCEPT !.rec.written = y.rec.written + Len(p)]
                      IN  IF s.compress THEN CompressWrite(t, p) ELSE BelowWrite(t, p)
    BY DEF Write
  <1> HIDE DEF y
  <1>4. Write(s, p) = IF s.compress THEN CompressWrite(x, p) ELSE BelowWrite(x, p)
    <2> DEFINE w == [y EXCEPT !.rec.written = y.rec.written + Len(p)]
    <2>1. Write(s, p) = IF s.compress THEN CompressWrite(w, p) ELSE BelowWrite(w, p)
      BY <1>3
    <2>2. w = x
      BY <1>1 DEF WithRec
    <2> HIDE DEF w, x
    <2> QED
      BY <2>1, <2>2
  <1> HIDE DEF r
  <1>5. Under(s, x) /\ x.rec = r /\ x.header = s.header /\ x.logged = s.logged
    BY <1>2, RecSet
  <1> HIDE DEF x
  <1>6. Write(s, p) = Through(x, p)
    BY <1>4, <1>5 DEF Through, Under
  <1> QED
    BY <1>2, <1>5, <1>6

Kept(s, t) == Noted(s, t, s.rec.status) /\ Onward(s, t)

LEMMA OnwardTrans ==
  ASSUME NEW s, NEW t, NEW u, s.conn.body \in Body, Onward(s, t), Onward(t, u)
  PROVE  Onward(s, u)
  <1>1. PICK p \in Body : t.conn.body = s.conn.body \o p
    BY DEF Onward, Extends
  <1>2. PICK q \in Body : u.conn.body = t.conn.body \o q
    BY DEF Onward, Extends
  <1>3. p \o q \in Body /\ u.conn.body = s.conn.body \o (p \o q)
    <2> DEFINE a == s.conn.body
    <2>1. a \in Body /\ u.conn.body = (a \o p) \o q
      BY <1>1, <1>2
    <2> HIDE DEF a
    <2>2. p \o q \in Body
      BY <1>1, <1>2, Joined
    <2>3. (a \o p) \o q = a \o (p \o q)
      BY <1>1, <1>2, <2>1, JoinAssoc
    <2> QED
      BY <2>1, <2>2, <2>3 DEF a
  <1> QED
    BY <1>3 DEF Onward, Extends

LEMMA WriteMore ==
  ASSUME NEW s, s.rec.sent, NEW status, NEW length, NEW b, Sending(s, status, length, b), Final(status),
         NEW p \in Body, Fits(length, b, p)
  PROVE  LET t == Write(s, p) IN Kept(s, t) /\ Sending(t, status, length, b \o p)
  <1> DEFINE t == Write(s, p)
  <1>1. s \in Stack /\ s.conn.body \in Body
    BY SendingType
  <1>2. PICK x : /\ t = Through(x, p) /\ Under(s, x) /\ x.header = s.header /\ x.logged = s.logged
                 /\ x.rec.sent /\ x.rec.status = s.rec.status
    BY <1>1, WriteThrough
  <1> SUFFICES Kept(s, t) /\ Sending(t, status, length, b \o p)
    OBVIOUS
  <1> HIDE DEF t
  <1>3. Sending(x, status, length, b) /\ Onward(s, x) /\ x.conn = s.conn
    BY <1>1, <1>2, Carried DEF Under, Same
  <1>4. Top(x, t) /\ Sending(t, status, length, b \o p) /\ Onward(x, t)
    BY <1>2, <1>3, SendingWrite
  <1>5. Onward(s, t)
    BY <1>1, <1>3, <1>4, OnwardTrans
  <1> QED
    BY <1>2, <1>3, <1>4, <1>5 DEF Kept, Noted, Top

LEMMA WriteHinted ==
  ASSUME NEW s, s.rec.sent, NEW b \in Body, Hinted(s, b), NEW p \in Body
  PROVE  LET t == Write(s, p) IN Kept(s, t) /\ Hinted(t, b \o p)
  <1> DEFINE t == Write(s, p)
  <1>1. s \in Stack /\ s.conn.body \in Body
    BY StackFields DEF Hinted
  <1>2. PICK x : /\ t = Through(x, p) /\ Under(s, x) /\ x.header = s.header /\ x.logged = s.logged
                 /\ x.rec.sent /\ x.rec.status = s.rec.status
    BY <1>1, WriteThrough
  <1> SUFFICES Kept(s, t) /\ Hinted(t, b \o p)
    OBVIOUS
  <1> HIDE DEF t
  <1>3. Hinted(x, b) /\ Onward(s, x) /\ x.conn = s.conn
    BY <1>1, <1>2, Carried DEF Under, Same
  <1>4. Top(x, t) /\ Hinted(t, b \o p) /\ Onward(x, t)
    BY <1>2, <1>3, HintedThrough
  <1>5. Onward(s, t)
    BY <1>1, <1>3, <1>4, OnwardTrans
  <1> QED
    BY <1>2, <1>3, <1>4, <1>5 DEF Kept, Noted, Top

\* The server's own end of the response.
Ended(s, t) ==
    /\ t \in Stack /\ Lower(s, t) /\ t.logged = s.logged /\ t.conn.body = s.conn.body
    /\ s.conn.status # 0 => t.conn.status = s.conn.status /\ t.conn.gzip = s.conn.gzip
                            /\ t.conn.length = s.conn.length
    /\ t.conn.status # 0

WithEnd(s, e) == [s EXCEPT !.conn.end = e]

LEMMA EndSet ==
  ASSUME NEW s \in Stack, NEW e \in Ends
  PROVE  LET t == WithEnd(s, e) IN
         /\ t \in Stack /\ Lower(s, t) /\ t.logged = s.logged /\ t.conn.body = s.conn.body
         /\ t.conn.status = s.conn.status /\ t.conn.gzip = s.conn.gzip /\ t.conn.length = s.conn.length
         /\ t.conn.end = e
  <1> DEFINE c == [s.conn EXCEPT !.end = e]
             t == [s EXCEPT !.conn = c]
  <1>1. /\ c \in [status : Nat, length : Int, gzip : BOOLEAN, body : Body, end : Ends]
        /\ c.end = e /\ c.body = s.conn.body /\ c.status = s.conn.status /\ c.length = s.conn.length
        /\ c.gzip = s.conn.gzip
    BY StackFields
  <1>2. WithEnd(s, e) = t
    BY DEF WithEnd
  <1> HIDE DEF c
  <1>3. t \in Stack /\ t.conn = c /\ Lower(s, t) /\ t.logged = s.logged
    BY <1>1 DEF Stack, Lower
  <1> HIDE DEF t
  <1> QED
    BY <1>1, <1>2, <1>3

LEMMA EndOK ==
  ASSUME NEW s \in Stack
  PROVE  LET t == ConnEnd(s) IN
         /\ Ended(s, t) /\ t.conn.end \in {"whole", "cut"}
         /\ s.conn.status # 0 /\ (\/ s.conn.length = Unknown
                                  \/ ~s.conn.gzip /\ Len(s.conn.body) = s.conn.length
                                  \/ s.conn.status = NoContent)
               => t.conn.end = "whole"
  <1> DEFINE t == ConnWriteHeader(s, OK)
             framed == t.conn.length = Unknown \/ (~t.conn.gzip /\ Len(t.conn.body) = t.conn.length)
                       \/ t.conn.status = NoContent
             e == IF framed THEN "whole" ELSE "cut"
             u == ConnEnd(s)
  <1>1. ConnSent(s, t, OK) /\ ~(OK < OK) /\ OK >= OK /\ OK # 0
    BY ConnHeader, StatusNumbers DEF OK
  <1>2. u = WithEnd(t, e) /\ e \in {"whole", "cut"} /\ (framed => e = "whole")
    BY DEF ConnEnd, WithEnd
  <1> SUFFICES /\ Ended(s, u) /\ u.conn.end \in {"whole", "cut"}
               /\ s.conn.status # 0 /\ (\/ s.conn.length = Unknown
                                        \/ ~s.conn.gzip /\ Len(s.conn.body) = s.conn.length
                                        \/ s.conn.status = NoContent)
                     => u.conn.end = "whole"
    OBVIOUS
  <1> HIDE DEF e, u
  <1> HIDE DEF t
  <1>3. t \in Stack /\ e \in Ends
    BY <1>1, <1>2 DEF ConnSent, Ends
  <1>4. /\ u \in Stack /\ Lower(t, u) /\ u.logged = t.logged /\ u.conn.body = t.conn.body
        /\ u.conn.status = t.conn.status /\ u.conn.gzip = t.conn.gzip /\ u.conn.length = t.conn.length
        /\ u.conn.end = e
    BY <1>2, <1>3, EndSet
  <1>5. Ended(s, u)
    BY <1>1, <1>4 DEF Ended, ConnSent, Lower, Above
  <1>6. CASE s.conn.status # 0
    <2>1. t.conn = s.conn
      BY <1>1, <1>6 DEF ConnSent
    <2> QED
      BY <1>2, <1>4, <1>5, <2>1
  <1>7. CASE s.conn.status = 0
    <2>1. u.conn.end \in {"whole", "cut"}
      BY <1>2, <1>4
    <2> QED
      BY <1>5, <1>7, <2>1
  <1> QED
    BY <1>6, <1>7

LEMMA ReturnIs == ASSUME NEW s PROVE Return(s) = ConnEnd(CloseWriters(s))
  BY DEF Return, CloseWriters

\* What the visitor has of a response under way.
LEMMA VisitorHas ==
  ASSUME NEW s, NEW status, NEW length, NEW b, Sending(s, status, length, b), Final(status)
  PROVE  /\ Extends(s.conn.body, b)
         /\ s.conn.body # <<>> => s.conn.status # 0
         /\ s.conn.status # 0 => s.conn.status = status
  <1>1. status # 0 /\ b \in Body /\ s.conn.body \in Body
    BY StatusNumbers, SendingType
  <1>2. CASE Waiting(s, status, length, b)
    BY <1>1, <1>2, ExtendsItself DEF Waiting, Blank
  <1>3. CASE Direct(s, status, length, b)
    BY <1>1, <1>3, ExtendsItself DEF Direct, Plain
  <1>4. CASE Compressed(s, status, b)
    <2>1. s.cw.gz \in Body /\ b = s.conn.body \o s.cw.gz
      BY <1>4, StackFields DEF Compressed
    <2> QED
      BY <1>1, <1>4, <2>1, ExtendsBy DEF Compressed
  <1> QED
    BY <1>2, <1>3, <1>4 DEF Sending

-----------------------------------------------------------------------------
\* The invariant.
Upstream == [pc : {"headers", "body", "done", "broken"}, status : Nat, length : Int, body : Body,
             hinted : BOOLEAN]

\* The length the stack was told: none with a 204.
Told(u) == IF u.status = NoContent THEN Unknown ELSE u.length

AtHeaders(s, u) ==
    /\ u.status = 0 /\ u.body = <<>>
    /\ ~u.hinted => Unsent(s) /\ ~s.rec.sent
    /\ u.hinted => Hinted(s, <<>>) /\ s.rec.sent

AtBody(s, u) ==
    /\ s.rec.sent /\ Final(u.status)
    /\ u.length # Unknown => Len(u.body) <= u.length
    /\ ~u.hinted => s.rec.status = u.status /\ Sending(s, u.status, Told(u), u.body)
    /\ u.hinted => Hinted(s, u.body)

Stored(s, u) ==
    s.stored # None =>
        /\ s.stored = [status |-> u.status, body |-> u.body]
        /\ s.stored.status = OK
        /\ s.stored.body = s.conn.body /\ ~s.conn.gzip
        /\ u.pc # "broken" /\ Len(u.body) = u.length

ResponsesInv ==
    /\ stack \in Stack /\ upstream \in Upstream
    /\ upstream.pc \in {"headers", "body"} => stack.logged = 0 /\ stack.conn.end = "open"
    /\ upstream.pc = "headers" => AtHeaders(stack, upstream)
    /\ upstream.pc = "body" => AtBody(stack, upstream)
    /\ upstream.pc \in {"done", "broken"} => Stored(stack, upstream)

\* One step of the promise, put without the modules between.
Shows(s, u, t, v) ==
    /\ s.conn.end = "open"
    /\ u.hinted => v.hinted
    /\ u.status # 0 => v.status = u.status
    /\ Extends(u.body, v.body)
    /\ Onward(s, t) /\ Extends(t.conn.body, v.body)
    /\ t.conn.body # <<>> => t.conn.status # 0

ShowsUnhinted(t, v) ==
    /\ t.conn.status # 0 => t.conn.status = v.status
    /\ t.conn.end = "whole" => v.pc = "done" /\ t.conn.status # 0 /\ t.conn.body = v.body
    /\ t.conn.end = "cut" => v.pc = "broken"
    /\ t.logged # 0 => t.logged = v.status

LEMMA PrefixOf ==
  ASSUME NEW a \in Body, NEW b, Extends(a, b)
  PROVE  Promise!Prefix(a, b)
  <1>1. PICK q \in Body : b = a \o q
    BY DEF Extends
  <1>2. Len(a) \in Nat /\ Len(q) \in Nat /\ Len(a \o q) = Len(a) + Len(q)
    BY <1>1, Joined
  <1>3. a = SubSeq(a \o q, 1, Len(a))
    BY <1>1, <1>2 DEF Body
  <1> QED
    BY <1>1, <1>2, <1>3 DEF Promise!Prefix

LEMMA ShownStep ==
  ASSUME stack.conn.body \in Body, stack'.conn.body \in Body, upstream.body \in Body,
         Shows(stack, upstream, stack', upstream'),
         ~upstream'.hinted => ShowsUnhinted(stack', upstream')
  PROVE  Promise!Deliver
  <1> DEFINE End(u) == CASE u.pc = "done" -> "whole" [] u.pc = "broken" -> "cut" [] OTHER -> "open"
  <1>1. /\ Promise!Prefix(upstream.body, upstream'.body)
        /\ Promise!Prefix(stack.conn.body, stack'.conn.body)
        /\ Promise!Prefix(stack'.conn.body, upstream'.body)
    BY PrefixOf DEF Shows, Onward
  <1>2. /\ upstream'.pc = "done" => End(upstream') = "whole"
        /\ upstream'.pc = "broken" => End(upstream') = "cut"
    OBVIOUS
  <1> QED
    BY <1>1, <1>2 DEF Promise!Deliver, Shows, ShowsUnhinted, Onward, Promise!Open, Promise!Whole, Promise!Cut

-----------------------------------------------------------------------------
LEMMA ClosedStored ==
  ASSUME NEW s, NEW u, Closed(s, u.status, Told(u), u.body), u.pc # "broken"
  PROVE  Stored(s, u)
  <1> SUFFICES ASSUME s.stored # None
               PROVE  /\ s.stored = [status |-> u.status, body |-> u.body]
                      /\ s.stored.status = OK
                      /\ s.stored.body = s.conn.body /\ ~s.conn.gzip
                      /\ Len(u.body) = u.length
    BY DEF Stored
  <1>1. ~Uncaptured(s) /\ s \in Stack /\ CaptureOK(s) /\ s.conn.status = u.status /\ s.conn.body = u.body
    BY DEF Uncaptured, Closed
  <1>2. /\ s.stored.status = OK /\ s.conn.status = OK
        /\ s.stored.body = s.conn.body /\ s.conn.length = Len(s.conn.body)
    BY <1>1 DEF CaptureOK
  <1>3. s.conn.length = Told(u) /\ ~s.conn.gzip
    BY <1>1 DEF Closed
  <1>4. Told(u) = u.length
    BY <1>1, <1>2, StatusNumbers DEF Told
  <1>5. s.stored = [status |-> s.stored.status, body |-> s.stored.body]
    BY <1>1 DEF Stack
  <1> QED
    BY <1>1, <1>2, <1>3, <1>4, <1>5

LEMMA UncapturedStored == ASSUME NEW s, NEW u, Uncaptured(s) PROVE Stored(s, u)
  BY DEF Uncaptured, Stored

LEMMA EndedStored ==
  ASSUME NEW s, NEW t, NEW u, Stored(s, u), Ended(s, t), CaptureOK(s)
  PROVE  Stored(t, u)
  <1>1. CASE s.stored = None
    BY <1>1 DEF Ended, Lower, Stored
  <1>2. CASE s.stored # None
    <2>1. s.conn.status # 0
      BY <1>2, StatusNumbers DEF CaptureOK
    <2> QED
      BY <1>2, <2>1 DEF Ended, Lower, Stored
  <1> QED
    BY <1>1, <1>2

LEMMA StoredAtBody ==
  ASSUME ResponsesInv
  PROVE  Stored(stack, upstream)
  <1>1. CASE upstream.pc = "headers"
    <2>1. Uncaptured(stack)
      BY <1>1 DEF ResponsesInv, AtHeaders, Unsent, Blank, Hinted, Upstream
    <2> QED
      BY <2>1, UncapturedStored
  <1>2. CASE upstream.pc = "body"
    <2>1. AtBody(stack, upstream)
      BY <1>2 DEF ResponsesInv
    <2>2. CASE Uncaptured(stack)
      BY <2>2, UncapturedStored
    <2>3. CASE ~Uncaptured(stack)
      <3>1. Sending(stack, upstream.status, Told(upstream), upstream.body)
        BY <2>1, <2>3 DEF AtBody, Hinted
      <3>2. Direct(stack, upstream.status, Told(upstream), upstream.body)
        BY <2>3, <3>1 DEF Sending, Waiting, Blank, Compressed
      <3>3. Closed(stack, upstream.status, Told(upstream), upstream.body)
        BY <3>2, DirectClosed
      <3> QED
        BY <1>2, <3>3, ClosedStored
    <2> QED
      BY <2>2, <2>3
  <1> QED
    BY <1>1, <1>2 DEF ResponsesInv, Upstream

\* A step of a response under way: the invariant after it and the promise.
Step == ResponsesInv' /\ Promise!Deliver

LEMMA UpstreamFields ==
  ASSUME ResponsesInv
  PROVE  /\ upstream.status \in Nat /\ upstream.length \in Int /\ upstream.body \in Body
         /\ upstream.hinted \in BOOLEAN /\ stack \in Stack /\ stack.conn.body \in Body
         /\ upstream \in [pc : {"headers", "body", "done", "broken"}, status : Nat, length : Int, body : Body,
                          hinted : BOOLEAN]
  BY StackFields DEF ResponsesInv, Upstream

LEMMA InterimOK ==
  ASSUME ResponsesInv, Interim
  PROVE  Step
  <1> DEFINE u == [upstream EXCEPT !.hinted = TRUE]
  <1>1. /\ Unsent(stack) /\ ~stack.rec.sent /\ upstream.status = 0 /\ upstream.body = <<>> /\ upstream.pc = "headers"
        /\ stack.logged = 0 /\ stack.conn.end = "open" /\ stack.conn.body = <<>> /\ stack.conn.status = 0
    BY DEF ResponsesInv, Interim, AtHeaders, Unsent, Blank
  <1>2. Noted(stack, stack', Early) /\ Hinted(stack', <<>>) /\ stack'.conn = stack.conn
    BY <1>1, WriteHeaderHint DEF Interim
  <1>3. upstream' = u
    BY DEF Interim
  <1>4. /\ u \in Upstream /\ u.hinted /\ u.pc = "headers" /\ u.status = 0 /\ u.body = <<>>
    BY <1>1, UpstreamFields DEF Upstream
  <1> HIDE DEF u
  <1>5. ResponsesInv'
    BY <1>1, <1>2, <1>3, <1>4 DEF ResponsesInv, AtHeaders, Hinted, Noted
  <1>6. Extends(<<>>, <<>>)
    BY EmptyBody, ExtendsItself
  <1>7. Shows(stack, upstream, stack', upstream')
    BY <1>1, <1>2, <1>3, <1>4, <1>6 DEF Shows, Onward
  <1>8. Promise!Deliver
    BY <1>1, <1>2, <1>3, <1>4, <1>7, EmptyBody, ShownStep
  <1> QED
    BY <1>5, <1>8 DEF Step

\* Between the headers and the end: what is needed of stack' and upstream'.
LEMMA UnderWay ==
  ASSUME ResponsesInv, upstream.pc \in {"headers", "body"},
         NEW t, stack' = t, NEW u, upstream' = u, u \in Upstream, u.pc = "body", t \in Stack,
         AtBody(t, u), u.hinted = upstream.hinted, t.logged = 0, t.conn.end = "open",
         upstream.status # 0 => u.status = upstream.status,
         Extends(upstream.body, u.body), Onward(stack, t)
  PROVE  Step
  <1>1. ResponsesInv'
    BY DEF ResponsesInv
  <1>2. CASE ~u.hinted
    <2>1. Sending(t, u.status, Told(u), u.body) /\ Final(u.status)
      BY <1>2 DEF AtBody
    <2>2. /\ Extends(t.conn.body, u.body)
          /\ t.conn.body # <<>> => t.conn.status # 0
          /\ t.conn.status # 0 => t.conn.status = u.status
      BY <2>1, VisitorHas
    <2>3. Shows(stack, upstream, t, u) /\ ShowsUnhinted(t, u)
      BY <1>2, <2>2 DEF Shows, ShowsUnhinted, ResponsesInv
    <2> QED
      BY <1>1, <2>3, UpstreamFields, StackFields, ShownStep DEF Step
  <1>3. CASE u.hinted
    <2>1. Hinted(t, u.body) /\ t.conn.body \in Body
      BY <1>3, StackFields DEF AtBody
    <2>2. /\ Extends(t.conn.body, u.body)
          /\ t.conn.body # <<>> => t.conn.status # 0
      BY <2>1, ExtendsItself DEF Hinted
    <2>3. Shows(stack, upstream, t, u)
      BY <1>3, <2>2 DEF Shows, ResponsesInv
    <2> QED
      BY <1>1, <1>3, <2>1, <2>3, UpstreamFields, ShownStep DEF Step
  <1> QED
    BY <1>2, <1>3

LEMMA RespondOK ==
  ASSUME ResponsesInv, NEW status \in {OK, NoContent, Missing}, NEW h \in Header, ~h.gzip, Respond(status, h)
  PROVE  Step
  <1> DEFINE x == WithHeader(stack, h)
             y == WriteHeader(x, status)
             t == Flushed(y, h.length)
             n == IF status = NoContent THEN 0 ELSE h.length
             u == [upstream EXCEPT !.pc = "body", !.status = status, !.length = n]
  <1>1. /\ upstream.pc = "headers" /\ (status = NoContent => h.length = Unknown)
        /\ stack' = t /\ upstream' = u
    BY DEF Respond, WithHeader
  <1>2. /\ AtHeaders(stack, upstream) /\ stack.logged = 0 /\ stack.conn.end = "open" /\ stack \in Stack
        /\ upstream.status = 0 /\ upstream.body = <<>> /\ upstream.hinted \in BOOLEAN
    BY <1>1, UpstreamFields DEF ResponsesInv, AtHeaders
  <1>3. n \in Int /\ Final(status) /\ status \in Nat /\ (n # Unknown => 0 <= n) /\ h.length \in Int
    <2>1. h.length \in {Unknown} \cup (0 .. MaxBody) /\ h.length \in Int
      BY HeaderType DEF Header
    <2>2. Final(status) /\ status \in Nat
      BY StatusNumbers DEF Final
    <2>3. h.length # Unknown => 0 <= h.length
      BY <2>1, ResponsesAssumption
    <2> QED
      BY <2>1, <2>2, <2>3
  <1>4. (IF status = NoContent THEN Unknown ELSE n) = h.length
    BY <1>1
  <1> HIDE DEF n
  <1>5. /\ u \in Upstream /\ u.pc = "body" /\ u.status = status /\ u.length = n /\ u.body = <<>>
        /\ u.hinted = upstream.hinted /\ Told(u) = h.length
    <2>1. /\ u \in Upstream /\ u.pc = "body" /\ u.status = status /\ u.length = n /\ u.body = upstream.body
          /\ u.hinted = upstream.hinted
      BY <1>3, UpstreamFields DEF Upstream
    <2> QED
      BY <1>2, <1>4, <2>1 DEF Told
  <1> HIDE DEF u
  <1>6. Under(stack, x) /\ x.rec = stack.rec /\ x.header = h /\ x.logged = stack.logged /\ Onward(stack, x)
        /\ x.conn = stack.conn /\ x \in Stack
    BY <1>2, HeaderSet, Carried DEF Under, Same
  <1>7. u.length # Unknown => Len(u.body) <= u.length
    BY <1>3, <1>5, EmptyBody
  <1>8. CASE ~upstream.hinted
    <2>1. Unsent(x) /\ ~x.rec.sent
      BY <1>2, <1>6, <1>8, Carried DEF AtHeaders
    <2> HIDE DEF x
    <2>2. Noted(x, y, status) /\ Sending(y, status, h.length, <<>>)
      BY <1>3, <1>6, <2>1, WriteHeaderFirst
    <2>3. y \in Stack /\ y.conn.body \in Body /\ x.conn.status = 0 /\ x.conn.body = <<>>
      BY <2>1, <2>2, SendingType DEF Unsent, Blank
    <2>4. Onward(x, y)
      BY <2>3, ExtendsItself DEF Onward
    <2> HIDE DEF y
    <2>5. Top(y, t) /\ Sending(t, status, h.length, <<>>) /\ Onward(y, t)
      <3>1. CASE h.length = Unknown
        <4>1. t = Flush(y)
          BY <3>1 DEF Flushed
        <4> QED
          BY <1>3, <2>2, <4>1, SendingFlush
      <3>2. CASE h.length # Unknown
        <4>1. t = y
          BY <3>2 DEF Flushed
        <4> QED
          BY <2>2, <2>3, <4>1, TopItself, OnwardItself
      <3> QED
        BY <3>1, <3>2
    <2> HIDE DEF t
    <2>6. Onward(stack, t)
      BY <1>2, <1>6, <2>3, <2>4, <2>5, OnwardTrans, StackFields
    <2>7. t \in Stack /\ AtBody(t, u) /\ t.logged = 0 /\ t.conn.end = "open"
      <3>1. t \in Stack /\ t.rec.sent /\ t.rec.status = status /\ t.logged = 0 /\ t.conn.end = "open"
        BY <1>2, <1>6, <2>2, <2>5, SendingType DEF Top, Noted
      <3> QED
        BY <1>3, <1>5, <1>7, <1>8, <2>5, <3>1 DEF AtBody
    <2>8. Extends(upstream.body, u.body)
      BY <1>2, <1>5, EmptyBody, ExtendsItself
    <2> QED
      BY <1>1, <1>2, <1>5, <2>6, <2>7, <2>8, UnderWay
  <1>9. CASE upstream.hinted
    <2>1. Hinted(x, <<>>) /\ x.rec.sent
      BY <1>2, <1>6, <1>9, Carried DEF AtHeaders
    <2> HIDE DEF x
    <2>2. y = x
      BY <2>1, WriteHeaderAgain
    <2> HIDE DEF y
    <2>3. t = x
      BY <2>1, <2>2, HintedFlush DEF Flushed
    <2> HIDE DEF t
    <2>4. AtBody(t, u)
      BY <1>3, <1>5, <1>7, <1>9, <2>1, <2>3 DEF AtBody
    <2>5. Extends(upstream.body, u.body)
      BY <1>2, <1>5, EmptyBody, ExtendsItself
    <2> QED
      BY <1>1, <1>2, <1>5, <1>6, <2>3, <2>4, <2>5, UnderWay
  <1> QED
    BY <1>2, <1>8, <1>9

LEMMA SomeBytes ==
  ASSUME NEW from \in Nat, NEW n \in Nat
  PROVE  Bytes(from, n) \in Body /\ Len(Bytes(from, n)) = n
  BY DEF Bytes, Body

LEMMA ChunkOK ==
  ASSUME ResponsesInv, NEW n \in 1 .. MaxBody, Chunk(n)
  PROVE  Step
  <1> DEFINE b == upstream.body
             p == Bytes(Len(b), n)
             y == Write(stack, p)
             t == Flushed(y, upstream.length)
             u == [upstream EXCEPT !.body = b \o p]
  <1>1. upstream.pc = "body" /\ stack' = t /\ upstream' = u
    BY DEF Chunk
  <1>2. n \in Nat /\ b \in Body /\ Len(b) \in Nat /\ upstream.length \in Int
    BY UpstreamFields, ResponsesAssumption DEF Body
  <1>3. upstream.length # Unknown => Len(b) + n <= upstream.length
    BY DEF Chunk
  <1>4. p \in Body /\ Len(p) = n
    BY <1>2, SomeBytes
  <1> HIDE DEF p
  <1>5. b \o p \in Body /\ Len(b \o p) = Len(b) + n
    BY <1>2, <1>4, Joined
  <1>6. /\ AtBody(stack, upstream) /\ stack.rec.sent /\ Final(upstream.status)
        /\ stack.logged = 0 /\ stack.conn.end = "open" /\ stack \in Stack /\ upstream.hinted \in BOOLEAN
    BY <1>1, UpstreamFields DEF ResponsesInv, AtBody
  <1>7. /\ u \in Upstream /\ u.pc = "body" /\ u.status = upstream.status /\ u.length = upstream.length
        /\ u.body = b \o p /\ u.hinted = upstream.hinted /\ Told(u) = Told(upstream)
    BY <1>1, <1>5, UpstreamFields DEF Upstream, Told
  <1> HIDE DEF u
  <1>8. Fits(Told(upstream), b, p)
    BY <1>3, <1>4 DEF Fits, Told
  <1>9. Extends(upstream.body, u.body) /\ (u.length # Unknown => Len(u.body) <= u.length)
    BY <1>2, <1>3, <1>4, <1>5, <1>7, ExtendsBy
  <1>10. CASE ~upstream.hinted
    <2>1. Sending(stack, upstream.status, Told(upstream), b) /\ stack.rec.status = upstream.status
      BY <1>6, <1>10 DEF AtBody
    <2>2. Kept(stack, y) /\ Sending(y, upstream.status, Told(upstream), b \o p)
      BY <1>4, <1>6, <1>8, <2>1, WriteMore
    <2> HIDE DEF y
    <2>3. Top(y, t) /\ Sending(t, upstream.status, Told(upstream), b \o p) /\ Onward(y, t)
      <3>1. CASE upstream.length = Unknown
        <4>1. t = Flush(y)
          BY <3>1 DEF Flushed
        <4> QED
          BY <1>6, <2>2, <4>1, SendingFlush
      <3>2. CASE upstream.length # Unknown
        <4>1. t = y
          BY <3>2 DEF Flushed
        <4> QED
          BY <2>2, <4>1, TopItself, OnwardItself, SendingType
      <3> QED
        BY <3>1, <3>2
    <2> HIDE DEF t
    <2>4. Onward(stack, t)
      BY <1>6, <2>2, <2>3, OnwardTrans, StackFields DEF Kept
    <2>5. t \in Stack /\ t.rec.sent /\ t.rec.status = upstream.status /\ t.logged = 0 /\ t.conn.end = "open"
      BY <1>6, <2>1, <2>2, <2>3, SendingType DEF Top, Noted, Kept
    <2>6. AtBody(t, u)
      BY <1>6, <1>7, <1>9, <1>10, <2>3, <2>5 DEF AtBody
    <2> QED
      BY <1>1, <1>6, <1>7, <1>9, <2>4, <2>5, <2>6, UnderWay
  <1>11. CASE upstream.hinted
    <2>1. Hinted(stack, b)
      BY <1>6, <1>11 DEF AtBody
    <2>2. Kept(stack, y) /\ Hinted(y, b \o p)
      BY <1>2, <1>4, <1>6, <2>1, WriteHinted
    <2> HIDE DEF y
    <2>3. t = y
      BY <2>2, HintedFlush DEF Flushed
    <2> HIDE DEF t
    <2>4. t \in Stack /\ t.rec.sent /\ t.logged = 0 /\ t.conn.end = "open" /\ Onward(stack, t)
      BY <1>6, <2>2, <2>3 DEF Hinted, Kept, Noted
    <2>5. AtBody(t, u)
      BY <1>6, <1>7, <1>9, <1>11, <2>2, <2>3, <2>4 DEF AtBody
    <2> QED
      BY <1>1, <1>6, <1>7, <1>9, <2>4, <2>5, UnderWay
  <1> QED
    BY <1>6, <1>10, <1>11

-----------------------------------------------------------------------------
\* The end of a response.
LEMMA EndedOnward ==
  ASSUME NEW s \in Stack, NEW t, Ended(s, t)
  PROVE  Onward(s, t)
  <1>1. s.conn.body \in Body
    BY StackFields
  <1> QED
    BY <1>1, ExtendsItself DEF Ended, Onward

LEMMA ReturnSent ==
  ASSUME NEW s, NEW status, NEW length, NEW b, Sending(s, status, length, b), Final(status)
  PROVE  LET t == Return(s) IN
         /\ t \in Stack /\ Onward(s, t) /\ t.logged = s.logged
         /\ t.conn.body = b /\ t.conn.status = status /\ t.conn.end \in {"whole", "cut"}
         /\ length = Unknown \/ length = Len(b) => t.conn.end = "whole"
         /\ t.stored # None => length = Len(b)
         /\ \A u : u.status = status /\ Told(u) = length /\ u.body = b /\ u.pc # "broken" => Stored(t, u)
  <1> DEFINE c == CloseWriters(s)
             t == ConnEnd(c)
  <1>1. Return(s) = t
    BY ReturnIs
  <1>2. s \in Stack /\ s.conn.body \in Body /\ b \in Body /\ Len(b) \in Nat
    BY SendingType DEF Body
  <1>3. Top(s, c) /\ Closed(c, status, length, b) /\ Onward(s, c)
    BY SendingClose
  <1> HIDE DEF c
  <1>4. c \in Stack /\ CaptureOK(c) /\ c.conn.status = status /\ c.conn.body = b /\ status # 0
    BY <1>3, StatusNumbers DEF Closed
  <1>5. /\ Ended(c, t) /\ t.conn.end \in {"whole", "cut"}
        /\ (\/ c.conn.length = Unknown
            \/ ~c.conn.gzip /\ Len(c.conn.body) = c.conn.length)
              => t.conn.end = "whole"
    BY <1>4, EndOK
  <1> HIDE DEF t
  <1>6. length = Unknown \/ length = Len(b) => t.conn.end = "whole"
    BY <1>3, <1>4, <1>5 DEF Closed
  <1>7. t \in Stack /\ t.logged = s.logged /\ t.conn.body = b /\ t.conn.status = status
    BY <1>3, <1>4, <1>5 DEF Ended, Top
  <1>8. Onward(s, t)
    BY <1>2, <1>3, <1>4, <1>5, EndedOnward, OnwardTrans
  <1>9. t.stored # None => length = Len(b)
    <2>1. SUFFICES ASSUME t.stored # None PROVE length = Len(b)
      OBVIOUS
    <2>2. c.stored # None /\ ~Uncaptured(c)
      BY <1>5, <2>1 DEF Ended, Lower, Uncaptured
    <2>3. c.conn.length = length
      BY <1>3, <2>2 DEF Closed
    <2> QED
      BY <1>4, <2>2, <2>3 DEF CaptureOK
  <1>10. ASSUME NEW u, u.status = status, Told(u) = length, u.body = b, u.pc # "broken"
         PROVE  Stored(t, u)
    <2>1. Closed(c, u.status, Told(u), u.body)
      BY <1>3, <1>10
    <2>2. Stored(c, u)
      BY <1>10, <2>1, ClosedStored
    <2> QED
      BY <1>4, <1>5, <2>2, EndedStored
  <1> QED
    BY <1>1, <1>5, <1>6, <1>7, <1>8, <1>9, <1>10

LEMMA ReturnHinted ==
  ASSUME NEW s, NEW b, Hinted(s, b)
  PROVE  LET t == Return(s) IN
         /\ t \in Stack /\ Onward(s, t) /\ t.logged = s.logged /\ t.stored = None
         /\ t.conn.body = b /\ t.conn.status # 0
  <1> DEFINE t == ConnEnd(s)
  <1>1. Return(s) = t
    BY ReturnIs, HintedClose
  <1>2. s \in Stack /\ Uncaptured(s) /\ s.conn.body = b
    BY DEF Hinted
  <1>3. Ended(s, t)
    BY <1>2, EndOK
  <1> HIDE DEF t
  <1>4. Onward(s, t)
    BY <1>2, <1>3, EndedOnward
  <1> QED
    BY <1>1, <1>2, <1>3, <1>4 DEF Ended, Lower, Uncaptured

\* The last step of a response: what is needed of stack' and upstream'.
LEMMA OverNow ==
  ASSUME ResponsesInv, NEW t, stack' = t, NEW u, upstream' = u, u \in Upstream, t \in Stack,
         u.pc \in {"done", "broken"}, Stored(t, u), stack.conn.end = "open",
         u.hinted = upstream.hinted, upstream.status # 0 => u.status = upstream.status,
         Extends(upstream.body, u.body), Onward(stack, t), Extends(t.conn.body, u.body),
         t.conn.status # 0, ~u.hinted => ShowsUnhinted(t, u)
  PROVE  Step
  <1>1. ResponsesInv'
    BY DEF ResponsesInv
  <1>2. Shows(stack, upstream, t, u)
    BY DEF Shows
  <1> QED
    BY <1>1, <1>2, UpstreamFields, StackFields, ShownStep DEF Step

LEMMA CompleteOK ==
  ASSUME ResponsesInv, Complete
  PROVE  Step
  <1> DEFINE x == WithLogged(stack, stack.rec.status)
             t == Return(x)
             u == [upstream EXCEPT !.pc = "done"]
             b == upstream.body
  <1>1. /\ upstream.pc = "body" /\ upstream.length \in {Unknown, Len(b)} /\ stack' = t /\ upstream' = u
    BY DEF Complete, WithLogged
  <1>2. /\ AtBody(stack, upstream) /\ Final(upstream.status) /\ stack \in Stack /\ stack.conn.end = "open"
        /\ upstream.hinted \in BOOLEAN /\ b \in Body /\ stack.rec.status \in Nat
    BY <1>1, UpstreamFields, StackFields DEF ResponsesInv, AtBody
  <1>3. /\ u \in Upstream /\ u.pc = "done" /\ u.status = upstream.status /\ u.body = b
        /\ u.hinted = upstream.hinted /\ Told(u) = Told(upstream)
    BY UpstreamFields DEF Upstream, Told
  <1> HIDE DEF u
  <1>4. /\ Under(stack, x) /\ x.header = stack.header /\ x.logged = stack.rec.status /\ Onward(stack, x)
        /\ x \in Stack
    BY <1>2, LoggedSet, Carried DEF Under
  <1>5. Extends(b, b)
    BY <1>2, ExtendsItself
  <1>6. CASE ~upstream.hinted
    <2>1. Sending(x, upstream.status, Told(upstream), b) /\ x.logged = upstream.status
      BY <1>2, <1>4, <1>6, Carried DEF AtBody
    <2> HIDE DEF x
    <2>2. Told(upstream) = Unknown \/ Told(upstream) = Len(b)
      BY <1>1 DEF Told
    <2>3. /\ t \in Stack /\ Onward(x, t) /\ t.logged = x.logged
          /\ t.conn.body = b /\ t.conn.status = upstream.status
          /\ Told(upstream) = Unknown \/ Told(upstream) = Len(b) => t.conn.end = "whole"
          /\ \A v : v.status = upstream.status /\ Told(v) = Told(upstream) /\ v.body = b /\ v.pc # "broken"
                      => Stored(t, v)
      BY <1>2, <2>1, ReturnSent
    <2> HIDE DEF t
    <2>4. Stored(t, u) /\ t.conn.end = "whole"
      BY <1>3, <2>2, <2>3
    <2>5. Onward(stack, t)
      BY <1>2, <1>4, <2>3, OnwardTrans, StackFields
    <2>6. t.conn.status # 0 /\ ShowsUnhinted(t, u)
      BY <1>2, <1>3, <2>1, <2>3, <2>4, StatusNumbers DEF ShowsUnhinted
    <2> QED
      BY <1>1, <1>2, <1>3, <1>5, <2>3, <2>4, <2>5, <2>6, OverNow
  <1>7. CASE upstream.hinted
    <2>1. Hinted(x, b)
      BY <1>2, <1>4, <1>7, Carried DEF AtBody
    <2> HIDE DEF x
    <2>2. t \in Stack /\ Onward(x, t) /\ t.stored = None /\ t.conn.body = b /\ t.conn.status # 0
      BY <2>1, ReturnHinted
    <2> HIDE DEF t
    <2>3. Stored(t, u) /\ Onward(stack, t)
      BY <1>2, <1>4, <2>2, OnwardTrans, StackFields DEF Stored
    <2> QED
      BY <1>1, <1>2, <1>3, <1>5, <1>7, <2>2, <2>3, OverNow
  <1> QED
    BY <1>2, <1>6, <1>7

LEMMA BreakOffOK ==
  ASSUME ResponsesInv, BreakOff
  PROVE  Step
  <1> DEFINE c == Return(stack)
             t == WithEnd(c, "cut")
             u == [upstream EXCEPT !.pc = "broken"]
             b == upstream.body
  <1>1. /\ upstream.pc = "body" /\ stack' = t /\ upstream' = u /\ upstream.status # NoContent
        /\ upstream.length # Unknown => Len(b) < upstream.length
    BY DEF BreakOff, WithEnd
  <1>2. /\ AtBody(stack, upstream) /\ Final(upstream.status) /\ stack \in Stack /\ stack.conn.end = "open"
        /\ upstream.hinted \in BOOLEAN /\ b \in Body /\ stack.logged = 0 /\ Len(b) \in Nat
        /\ upstream.length \in Int
    BY <1>1, UpstreamFields DEF ResponsesInv, AtBody, Body
  <1>3. /\ u \in Upstream /\ u.pc = "broken" /\ u.status = upstream.status /\ u.body = b
        /\ u.hinted = upstream.hinted
    BY UpstreamFields DEF Upstream
  <1> HIDE DEF u
  <1>4. Extends(b, b) /\ "cut" \in Ends
    BY <1>2, ExtendsItself DEF Ends
  <1>5. CASE ~upstream.hinted
    <2>1. Sending(stack, upstream.status, upstream.length, b)
      BY <1>1, <1>2, <1>5 DEF AtBody, Told
    <2>2. /\ c \in Stack /\ Onward(stack, c) /\ c.logged = 0
          /\ c.conn.body = b /\ c.conn.status = upstream.status
          /\ c.stored # None => upstream.length = Len(b)
      BY <1>2, <2>1, ReturnSent
    <2>3. c.stored = None
      BY <1>1, <1>2, <2>2 DEF Unknown
    <2> HIDE DEF c
    <2>4. /\ t \in Stack /\ t.stored = None /\ t.logged = 0 /\ t.conn.body = b
          /\ t.conn.status = upstream.status /\ t.conn.end = "cut"
      BY <1>4, <2>2, <2>3, EndSet DEF Lower
    <2> HIDE DEF t
    <2>5. Onward(stack, t) /\ Stored(t, u)
      BY <2>2, <2>4 DEF Onward, Stored
    <2>6. t.conn.status # 0 /\ ShowsUnhinted(t, u)
      BY <1>2, <1>3, <2>4, StatusNumbers DEF ShowsUnhinted
    <2> QED
      BY <1>1, <1>2, <1>3, <1>4, <2>4, <2>5, <2>6, OverNow
  <1>6. CASE upstream.hinted
    <2>1. Hinted(stack, b)
      BY <1>2, <1>6 DEF AtBody
    <2>2. c \in Stack /\ Onward(stack, c) /\ c.stored = None /\ c.conn.body = b /\ c.conn.status # 0
      BY <2>1, ReturnHinted
    <2> HIDE DEF c
    <2>3. t \in Stack /\ t.stored = None /\ t.conn.body = b /\ t.conn.status = c.conn.status
      BY <1>4, <2>2, EndSet DEF Lower
    <2> HIDE DEF t
    <2>4. Onward(stack, t) /\ Stored(t, u)
      BY <2>2, <2>3 DEF Onward, Stored
    <2> QED
      BY <1>1, <1>2, <1>3, <1>4, <1>6, <2>2, <2>3, <2>4, OverNow
  <1> QED
    BY <1>2, <1>5, <1>6

LEMMA UnreachableOK ==
  ASSUME ResponsesInv, Unreachable
  PROVE  Step
  <1> DEFINE page == [NoHeader EXCEPT !.length = MaxBody, !.text = TRUE]
             body == Bytes(0, MaxBody)
             x == WithHeader(stack, page)
             y == WriteHeader(x, BadGateway)
             z == Write(y, body)
             w == WithLogged(z, BadGateway)
             v == WithLogged(stack, stack.rec.status)
             t == Return(IF stack.rec.sent THEN v ELSE w)
             ub == [upstream EXCEPT !.pc = "broken"]
             ud == [upstream EXCEPT !.pc = "done", !.status = BadGateway, !.body = body]
  <1>1. /\ upstream.pc = "headers" /\ stack' = t
        /\ upstream' = IF stack.rec.sent THEN ub ELSE ud
    BY DEF Unreachable, WithHeader, WithLogged
  <1>2. /\ AtHeaders(stack, upstream) /\ stack \in Stack /\ stack.conn.end = "open"
        /\ upstream.hinted \in BOOLEAN /\ stack.rec.status \in Nat
        /\ upstream.status = 0 /\ upstream.body = <<>> /\ stack.conn.body \in Body
    BY <1>1, UpstreamFields, StackFields DEF ResponsesInv, AtHeaders
  <1>3. CASE ~upstream.hinted
    <2>1. Unsent(stack) /\ ~stack.rec.sent /\ stack.conn.status = 0 /\ stack.conn.body = <<>>
      BY <1>2, <1>3 DEF AtHeaders, Unsent, Blank
    <2>2. stack' = Return(w) /\ upstream' = ud
      BY <1>1, <2>1
    <2> HIDE DEF t
    <2>3. body \in Body /\ Len(body) = MaxBody /\ MaxBody \in Nat
      BY ResponsesAssumption, SomeBytes
    <2>4. Final(BadGateway) /\ BadGateway \in Nat /\ BadGateway # NoContent /\ BadGateway # 0
      BY StatusNumbers DEF Final, BadGateway, NoContent
    <2> HIDE DEF body
    <2>5. page \in Header /\ ~page.gzip /\ page.length = MaxBody
      <3>1. NoHeader \in Header /\ ~NoHeader.gzip
        BY DEF NoHeader, Header
      <3>2. MaxBody \in {Unknown} \cup (0 .. MaxBody)
        BY <2>3
      <3> QED
        BY <3>1, <3>2 DEF Header
    <2> HIDE DEF page
    <2>6. /\ ud \in Upstream /\ ud.pc = "done" /\ ud.status = BadGateway /\ ud.body = body
          /\ ud.hinted = upstream.hinted
      BY <2>3, <2>4, UpstreamFields DEF Upstream
    <2> HIDE DEF ud
    <2>7. Under(stack, x) /\ x.rec = stack.rec /\ x.header = page
      BY <1>2, <2>5, HeaderSet
    <2> HIDE DEF x
    <2>8. Unsent(x) /\ ~x.rec.sent
      BY <2>1, <2>5, <2>7, Carried
    <2>9. y.rec.sent /\ Sending(y, BadGateway, MaxBody, <<>>)
      BY <2>4, <2>5, <2>7, <2>8, WriteHeaderFirst DEF Noted
    <2> HIDE DEF y
    <2>10. Sending(z, BadGateway, MaxBody, body)
      <3> DEFINE e == <<>>
      <3>1. Sending(y, BadGateway, MaxBody, e) /\ e \o body = body
        BY <2>3, <2>9, Joined
      <3>2. Fits(MaxBody, e, body)
        BY <2>3, EmptyBody DEF Fits
      <3> HIDE DEF e
      <3>3. Sending(z, BadGateway, MaxBody, e \o body)
        BY <2>3, <2>4, <2>9, <3>1, <3>2, WriteMore
      <3> QED
        BY <3>1, <3>3
    <2>11. z \in Stack
      BY <2>10, SendingType
    <2> HIDE DEF z
    <2>12. Sending(w, BadGateway, MaxBody, body) /\ w.logged = BadGateway
      BY <2>4, <2>10, <2>11, LoggedSet, Carried
    <2> HIDE DEF w
    <2> DEFINE r == Return(w)
    <2>13. /\ r \in Stack /\ r.logged = BadGateway
           /\ r.conn.body = body /\ r.conn.status = BadGateway
           /\ MaxBody = Len(body) => r.conn.end = "whole"
      BY <2>4, <2>12, ReturnSent
    <2>14. r.stored = None
      <3>1. SUFFICES ASSUME r.stored # None PROVE FALSE
        OBVIOUS
      <3> DEFINE g == [status |-> BadGateway, length |-> MaxBody, body |-> body, pc |-> "done"]
      <3>2. g.status = BadGateway /\ Told(g) = MaxBody /\ g.body = body /\ g.pc # "broken"
        BY <2>4 DEF Told
      <3> HIDE DEF g
      <3>3. Stored(r, g)
        BY <2>4, <2>12, <3>2, ReturnSent
      <3> QED
        BY <3>1, <3>2, <3>3 DEF Stored, OK, BadGateway
    <2> HIDE DEF r
    <2>15. Stored(r, ud)
      BY <2>14 DEF Stored
    <2>16. Extends(upstream.body, ud.body) /\ Onward(stack, r) /\ Extends(r.conn.body, ud.body)
      BY <1>2, <2>1, <2>3, <2>6, <2>13, ExtendsItself DEF Onward
    <2>17. r.conn.status # 0 /\ ShowsUnhinted(r, ud)
      BY <2>3, <2>4, <2>6, <2>13 DEF ShowsUnhinted
    <2> QED
      BY <1>2, <2>2, <2>6, <2>13, <2>15, <2>16, <2>17, OverNow DEF r
  <1>4. CASE upstream.hinted
    <2>1. Hinted(stack, <<>>) /\ stack.rec.sent
      BY <1>2, <1>4 DEF AtHeaders
    <2>2. stack' = Return(v) /\ upstream' = ub
      BY <1>1, <2>1
    <2> HIDE DEF t
    <2>3. /\ ub \in Upstream /\ ub.pc = "broken" /\ ub.status = 0 /\ ub.body = <<>>
          /\ ub.hinted = upstream.hinted
      BY <1>2, UpstreamFields DEF Upstream
    <2> HIDE DEF ub
    <2>4. Under(stack, v) /\ Onward(stack, v) /\ Hinted(v, <<>>)
      BY <1>2, <2>1, LoggedSet, Carried
    <2> HIDE DEF v
    <2> DEFINE r == Return(v)
    <2>5. /\ r \in Stack /\ Onward(v, r) /\ r.stored = None
          /\ r.conn.body = <<>> /\ r.conn.status # 0
      BY <2>4, ReturnHinted
    <2> HIDE DEF r
    <2>6. Stored(r, ub) /\ Onward(stack, r)
      BY <1>2, <2>4, <2>5, OnwardTrans DEF Stored
    <2>7. Extends(upstream.body, ub.body) /\ Extends(r.conn.body, ub.body)
      BY <1>2, <2>3, <2>5, EmptyBody, ExtendsItself
    <2> QED
      BY <1>2, <1>4, <2>2, <2>3, <2>5, <2>6, <2>7, OverNow DEF r
  <1> QED
    BY <1>2, <1>3, <1>4

-----------------------------------------------------------------------------
\* The initial states and the specification.
LEMMA ResponsesInvInit ==
  ASSUME ResponsesInit
  PROVE  ResponsesInv /\ Promise!DeliveryInit
  <1>1. PICK compress \in BOOLEAN, capture \in BOOLEAN :
          stack = [compress |-> compress, capture |-> capture, header |-> NoHeader,
                   rec |-> [status |-> 0, sent |-> FALSE, written |-> 0],
                   cw |-> [wrote |-> FALSE, status |-> 0, decided |-> FALSE,
                           compressing |-> FALSE, buf |-> <<>>, gz |-> <<>>],
                   cap |-> [status |-> 0, capturing |-> FALSE, length |-> 0, buf |-> <<>>],
                   conn |-> [status |-> 0, length |-> Unknown, gzip |-> FALSE, body |-> <<>>, end |-> "open"],
                   stored |-> None, logged |-> 0]
    BY DEF ResponsesInit
  <1>2. upstream = [pc |-> "headers", status |-> 0, length |-> Unknown, body |-> <<>>, hinted |-> FALSE]
    BY DEF ResponsesInit
  <1>3. NoHeader \in Header /\ ~NoHeader.gzip
    BY DEF NoHeader, Header
  <1>4. None \in [status : Nat, body : Body] /\ Unknown \in Int
    BY EmptyBody DEF None, Unknown
  <1>5. stack \in Stack
    BY <1>1, <1>3, <1>4, EmptyBody DEF Stack, Ends
  <1>6. upstream \in Upstream
    BY <1>2, <1>4, EmptyBody DEF Upstream
  <1>7. Unsent(stack)
    BY <1>1, <1>3, <1>5 DEF Unsent, Blank, Uncaptured
  <1>8. ResponsesInv
    BY <1>1, <1>2, <1>5, <1>6, <1>7 DEF ResponsesInv, AtHeaders
  <1>9. Promise!DeliveryInit
    BY <1>1, <1>2 DEF Promise!DeliveryInit, Promise!Nothing, Promise!Open
  <1> QED
    BY <1>8, <1>9

LEMMA ResponsesInvNext ==
  ASSUME ResponsesInv, [ResponsesNext]_responseVars
  PROVE  ResponsesInv' /\ [Promise!Deliver]_(Promise!deliveryVars)
  <1>1. CASE UNCHANGED responseVars
    BY <1>1 DEF responseVars, ResponsesInv, AtHeaders, AtBody, Stored, Promise!deliveryVars
  <1>2. ASSUME NEW status \in {OK, NoContent, Missing}, NEW h \in {g \in Header : ~g.gzip}, Respond(status, h)
        PROVE  Step
    BY <1>2, RespondOK
  <1>3. ASSUME NEW n \in 1 .. MaxBody, Chunk(n) PROVE Step
    BY <1>3, ChunkOK
  <1>4. CASE ResponsesNext
    BY <1>2, <1>3, <1>4, InterimOK, CompleteOK, BreakOffOK, UnreachableOK DEF ResponsesNext, Step
  <1> QED
    BY <1>1, <1>4

LEMMA ResponsesInvariant == ResponsesSpec => []ResponsesInv
  <1>1. ResponsesInit => ResponsesInv
    BY ResponsesInvInit
  <1>2. ResponsesInv /\ [ResponsesNext]_responseVars => ResponsesInv'
    BY ResponsesInvNext
  <1> QED
    BY <1>1, <1>2, PTL DEF ResponsesSpec

\* What captureWriter gives the cache is a whole 200, byte for byte what the visitor
\* was sent, whatever the compress writer does above it and however the upstream
\* ends (cache.go).
THEOREM StoredResponsesAreWhole == ResponsesSpec => []StoredIsWhole
  <1>1. ResponsesInv => StoredIsWhole
    BY StoredAtBody DEF Stored, StoredIsWhole
  <1> QED
    BY <1>1, ResponsesInvariant, PTL

\* The stack implements Delivery: recorder, compress writer and capture writer show
\* the visitor the upstream's status, its bytes in order, and an end that says
\* whether they are all there.
THEOREM StackDelivers == ResponsesSpec => Delivers
  <1>1. ResponsesInit => Promise!DeliveryInit
    BY ResponsesInvInit
  <1>2. ResponsesInv /\ [ResponsesNext]_responseVars => [Promise!Deliver]_(Promise!deliveryVars)
    BY ResponsesInvNext
  <1> QED
    BY <1>1, <1>2, ResponsesInvariant, PTL DEF ResponsesSpec, Delivers, Promise!DeliverySpec
=============================================================================
