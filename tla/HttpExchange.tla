---------------------------- MODULE HttpExchange ----------------------------
(***************************************************************************)
(* One connection of pcm-sensor-server: the bytes of the client, the       *)
(* parser, the answers, and the stream buffer they leave through.          *)
(*                                                                         *)
(* The client's bytes are a sequence of items, each one line or one block  *)
(* of data, of the requests it sends one after the other, pipelined or     *)
(* not.  The parser (operator>> of HTTPRequest) takes items from the front *)
(* as getline and read do, whatever they were meant to be; what it does    *)
(* not take is what the next request starts with.  At the end of the input *)
(* (the client closed, or SO_RCVTIMEO) underflow closes the socket and     *)
(* getline returns an empty line, which the header loop takes for the end  *)
(* of the headers; whatever is answered then reaches nobody.               *)
(*                                                                         *)
(* The answer is a number of characters in a buffer of BufSize characters  *)
(* that basic_socketbuf sends when it is full and on flush.  send may fail *)
(* and send nothing, or take only a part of what it was given.             *)
(***************************************************************************)
EXTENDS Naturals, Sequences, FiniteSets, SequencesExt

CONSTANTS Requests,       \* the request records a client sends, see Wire
          MaxRequests,    \* bound: requests per connection
          MaxInput,       \* bound: a client sends when fewer items are unread
          RequestLimit,   \* requestLimit of HTTPConnection::execute (100)
          AnswerLength,   \* characters of an answer
          BufSize         \* SIZE of basic_socketbuf (16385)

ASSUME HttpAssumption == RequestLimit \in Nat \ {0} /\ BufSize \in Nat \ {0} /\ AnswerLength \in Nat \ {0}

VARIABLES input,          \* items the server has not read
          begun,          \* requests the client has sent
          ended,          \* the client has closed, or the read timed out
          phase,          \* "reading", "answering", "flushing", "closing", "closed"
          numRequests, keepListening,
          answers,        \* the answers: [code, connection, to]
          written,        \* characters of all answers put into the stream
          buffer,         \* the characters between pbase and pptr, as positions in the output
          broken,         \* badbit: the stream ignores further output
          wire,           \* characters the socket took, in order
          shortened       \* history: send took less than it was given

httpVars == <<input, begun, ended, phase, numRequests, keepListening, answers,
              written, buffer, broken, wire, shortened>>
connVars == <<input, begun, ended, numRequests, keepListening, answers>>
streamVars == <<written, buffer, broken, wire, shortened>>

----------------------------------------------------------------------------
(* Requests on the wire.                                                   *)

\* HTTPMethodProperties
requestHasBody(method) ==
  CASE method \in {"GET", "HEAD", "DELETE", "TRACE"} -> "No"
    [] method \in {"POST", "PUT", "CONNECT", "PATCH"} -> "Required"
    [] method = "OPTIONS" -> "Optional"

Item(kind, req) == [kind |-> kind, req |-> req]

\* the items of a request that a client sends, by its framing
Wire(r) ==
  LET Items(kinds) == [i \in DOMAIN kinds |-> Item(kinds[i], r)]
  IN Items(<<"request", "headers", "blank">>)
     \o CASE r.framing = "none" -> <<>>
          [] r.framing = "length" -> Items(<<"data">>)
          [] r.framing = "chunked" /\ ~r.chunk /\ ~r.trailer -> Items(<<"zero", "blank">>)
          [] r.framing = "chunked" /\ ~r.chunk /\ r.trailer -> Items(<<"zero", "trailer", "blank">>)
          [] r.framing = "chunked" /\ r.chunk -> Items(<<"size", "data", "crlf", "zero", "blank">>)

Kind(items, i) == IF i \in DOMAIN items THEN items[i].kind ELSE ""

\* what the parser made of the items, and how many of them it asked for
Bad(used) == [ok |-> FALSE, used |-> used]
Good(r, headers, used) == [ok |-> TRUE, req |-> r, headers |-> headers, used |-> used]

\* readChunkedData: after the data it reads three lines, the end of the chunk, "the empty line
\* following the chunk" and the next header; no such empty line is sent, so the third line is
\* not a chunk header and std::stoll throws
readChunkedData(r, items, from) ==
  CASE Kind(items, from + 1) = "zero" -> Good(r, TRUE, from + 1)
    [] Kind(items, from + 1) = "size" -> Bad(from + 5)
    [] OTHER -> Bad(from + 1)

\* the line after the last chunk is empty, or a header that is added until it is there twice
Trailers(r, items, from) ==
  IF Kind(items, from + 1) = "blank" /\ ~r.trailer THEN Good(r, TRUE, from + 1) ELSE Bad(from + 1)

\* the body after the first "from" items; header values keep the blank after the colon, so that
\* "Expect: 100-continue" is not "100-continue"
BodyLeftUnread(r, headers, items, from) == Good(r, headers, from)
ReadBody(r, headers, items, from) ==
  LET framing == IF headers THEN r.framing ELSE "none"
      hasBody == requestHasBody(r.method)
  IN CASE hasBody = "No" -> Good(r, headers, from)
       [] hasBody # "No" /\ framing = "none" ->
            IF hasBody = "Optional" THEN Good(r, headers, from) ELSE Bad(from)
       [] hasBody # "No" /\ framing # "none" /\ r.expect = "other" -> Bad(from)
       [] hasBody # "No" /\ framing = "length" /\ r.expect # "other" -> Good(r, headers, from + 1)
       [] hasBody # "No" /\ framing = "chunked" /\ r.expect # "other" ->
            LET body == readChunkedData(r, items, from)
            IN IF body.ok THEN Trailers(r, items, body.used) ELSE body

\* operator>>: the request line, the headers up to an empty line or the end, the body
ReadRequest(items) ==
  IF Kind(items, 1) # "request" THEN Bad(1)
  ELSE LET r == items[1].req
           headers == Kind(items, 2) = "headers"
       IN CASE ~r.lineok -> Bad(1)
            [] r.lineok /\ headers /\ ~r.headersok -> Bad(2)
            [] OTHER -> ReadBody(r, headers, items, 3)

----------------------------------------------------------------------------
(* Answers.                                                                *)

\* matchSupportedWithAcceptedMimeTypes and mimeTypeToOutputFormat
OutputFormat(accept) == IF accept \in {"JSON", "Prometheus"} THEN accept ELSE "HTML"

\* my_get_callback by the class of the path
my_get_callback(path, accept) ==
  CASE path \in {"/favicon.ico", "/", "/dashboard", "/dashboard/influxdb", "/dashboard/prometheus",
                 "/dashboard/prometheus/default", "/metrics"} -> 200
    [] path \in {"/persecond", "/persecond/", "/persecond/5", "/persecond/30"} ->
         IF OutputFormat(accept) = "HTML" THEN 406 ELSE 200
    [] path \in {"/persecond/0", "/persecond/31", "/persecond/x"} -> 400
    [] OTHER -> 404

\* HTTPConnection::execute between reading and answering: <<code, goes on to the end of the loop>>
Answer(got) ==
  IF ~got.ok THEN <<400, FALSE>>
  ELSE IF got.req.proto = "1.1" /\ ~(got.headers /\ got.req.host) THEN <<400, FALSE>>
  ELSE IF got.req.method \in {"GET", "HEAD"} THEN <<my_get_callback(got.req.path, got.req.accept), TRUE>>
  ELSE <<501, TRUE>>

HttpInit ==
  /\ input = <<>> /\ begun = 0 /\ ended = FALSE
  /\ phase = "reading" /\ numRequests = 0 /\ keepListening = FALSE
  /\ answers = <<>>
  /\ written = 0 /\ buffer = <<>> /\ broken = FALSE /\ wire = <<>> /\ shortened = FALSE

\* the client sends the next request; with an answer outstanding it is pipelined
ClientSends(r) ==
  /\ ~ended /\ begun < MaxRequests /\ Len(input) < MaxInput
  /\ input' = input \o Wire([r EXCEPT !.n = begun + 1])
  /\ begun' = begun + 1
  /\ UNCHANGED <<ended, phase, numRequests, keepListening, answers>> /\ UNCHANGED streamVars

\* the client stops sending, also in the middle of a request: the last items never arrive
InputEnds(kept) ==
  /\ ~ended
  /\ ended' = TRUE
  /\ input' = SubSeq(input, 1, kept)
  /\ UNCHANGED <<begun, phase, numRequests, keepListening, answers>> /\ UNCHANGED streamVars

GoesOn(got) == got.ok /\ Answer(got)[2]

\* one pass of the loop in HTTPConnection::execute, up to the answer
KeepListening(got) ==
  IF numRequests + 1 < RequestLimit
  THEN keepListening \/ (got.headers /\ got.req.connection = "keep-alive")
  ELSE FALSE
ConnectionHeader(got) ==
  IF numRequests + 1 < RequestLimit
  THEN IF got.headers /\ got.req.connection = "keep-alive" THEN "keep-alive" ELSE "none"
  ELSE "close"

\* the parser has what it asks for, or nothing more will come: then the stream has failed and
\* the answer is not written
Receive ==
  LET got == ReadRequest(input)
      eof == got.used > Len(input)
  IN /\ phase = "reading" /\ (~eof \/ ended)
     /\ input' = SubSeq(input, got.used + 1, Len(input))
     /\ numRequests' = IF got.ok THEN numRequests + 1 ELSE numRequests
     /\ keepListening' = (GoesOn(got) /\ KeepListening(got))
     /\ answers' = IF eof THEN answers
                   ELSE Append(answers, [code |-> Answer(got)[1],
                                         connection |-> IF GoesOn(got) THEN ConnectionHeader(got) ELSE "none",
                                         to |-> IF got.ok THEN got.req.n ELSE 0,
                                         last |-> ~GoesOn(got)])
     /\ phase' = IF eof THEN "closing" ELSE "answering"
     /\ broken' = eof
     /\ UNCHANGED <<begun, ended, written, buffer, wire, shortened>>

----------------------------------------------------------------------------
(* basic_socketbuf.  A character is its position in the output.            *)

SentCounts == IF buffer = <<>> THEN {0} ELSE 1 .. Len(buffer)
Take(sent) ==   \* what the socket took of what it was given
  /\ wire' = wire \o SubSeq(buffer, 1, sent)
  /\ shortened' = (shortened \/ sent # Len(buffer))

\* sync and writeToSocket: pbump(-bytesSent) moves pptr, not the characters
Send(sent) ==
  /\ Take(sent)
  /\ buffer' = SubSeq(buffer, 1, Len(buffer) - sent)

AllWritten == written = Len(answers) * AnswerLength

\* sputc with room in the buffer
PutChar ==
  /\ phase = "answering" /\ ~broken /\ ~AllWritten /\ Len(buffer) < BufSize
  /\ written' = written + 1
  /\ buffer' = Append(buffer, written + 1)
  /\ UNCHANGED <<phase, broken, wire, shortened>> /\ UNCHANGED connVars

\* overflow: send, then setp forgets what is in the buffer, then the character
KeepOnOverflow(sent) ==
  /\ Take(sent)
  /\ buffer' = Append(Tail(buffer), written + 1)
Overflow(sent) ==
  /\ Take(sent)
  /\ buffer' = <<written + 1>>

PutFull ==
  /\ phase = "answering" /\ ~broken /\ ~AllWritten /\ Len(buffer) = BufSize
  /\ written' = written + 1
  /\ \E sent \in SentCounts : Overflow(sent)
  /\ UNCHANGED <<phase, broken>> /\ UNCHANGED connVars

\* the flush at the end of operator<<, and the one of execute that follows it
Flush ==
  /\ phase = "answering" /\ ~broken /\ AllWritten
  /\ \E sent \in SentCounts : Send(sent)
  /\ phase' = IF Last(answers).last THEN "closing" ELSE "flushing"
  /\ UNCHANGED <<written, broken>> /\ UNCHANGED connVars
FlushAgain ==
  /\ phase = "flushing"
  /\ \E sent \in SentCounts : Send(sent)
  /\ phase' = IF keepListening THEN "reading" ELSE "closing"
  /\ UNCHANGED <<written, broken>> /\ UNCHANGED connVars

\* send returns an error: badbit, the rest of the answer is ignored, and the next read throws
SendFails ==
  /\ phase \in {"answering", "flushing"} /\ ~broken
  /\ phase = "answering" => AllWritten \/ Len(buffer) = BufSize
  /\ broken' = TRUE
  /\ phase' = "closing"
  /\ UNCHANGED <<written, buffer, wire, shortened>> /\ UNCHANGED connVars

\* close() sends what is left, if the socket still takes it
Close ==
  /\ phase = "closing"
  /\ phase' = "closed"
  /\ \/ \E sent \in SentCounts : Send(sent)
     \/ broken /\ UNCHANGED <<buffer, wire, shortened>>
  /\ UNCHANGED <<written, broken>> /\ UNCHANGED connVars

HttpNext ==
  \/ \E r \in Requests : ClientSends(r)
  \/ \E kept \in 0 .. Len(input) : InputEnds(kept)
  \/ Receive \/ PutChar \/ PutFull \/ Flush \/ FlushAgain \/ SendFails \/ Close

HttpSpec == HttpInit /\ [][HttpNext]_httpVars

----------------------------------------------------------------------------
(* Properties.                                                             *)

\* The answers of a connection are the answers to its requests, in their order: the parser never
\* loses its place in the client's bytes.  When it waits for a request, what is left of the
\* input starts with one; a request it could not parse ends the connection, as does the one
\* answered with "Connection: close"; no connection answers more than requestLimit requests
\* (operator>> of HTTPRequest and HTTPConnection::execute).
HttpInStep ==
  /\ \A i \in DOMAIN answers : answers[i].to = i \/ (answers[i].to = 0 /\ i = Len(answers))
  /\ Len(answers) <= RequestLimit
  /\ phase = "reading" =>
       /\ Kind(input, 1) \in {"", "request"}
       /\ answers = <<>> \/ (Last(answers).to # 0 /\ Last(answers).connection # "close")

\* What the client receives is the output of the server from its first character on, with
\* nothing lost, repeated or moved, whatever the sizes of answers and buffer; all of it once an
\* answer is flushed, unless send failed.  It holds as long as send takes all it is given:
\* overflow forgets the rest of a short write, and sync sends the first characters again.
WireFaithful ==
  ~shortened =>
    /\ \A i \in DOMAIN wire : wire[i] = i
    /\ phase \in {"reading", "flushing", "closed"} /\ ~broken => Len(wire) = written /\ AllWritten

\* Each connection is answered request by request, and the client receives the answers whole:
\* HttpInStep and WireFaithful (HTTPConnection::execute over basic_socketbuf).
HttpFaithful == HttpInStep /\ WireFaithful
=============================================================================
