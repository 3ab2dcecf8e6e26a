---------------------------- MODULE HttpSession ----------------------------
(***************************************************************************)
(* A session of the HTTP server (http/server/session.cpp) with the parser  *)
(* of its requests (http/message_consumer.cpp), its transactions           *)
(* (http/server/session/transaction.cpp) and the handlers of the web       *)
(* interface as they answer: at once, with a streamed body, when a file    *)
(* has been received, or when somebody has been authenticated.             *)
(*                                                                         *)
(* All of it runs on one event loop.  The session is both the consumer of  *)
(* the channel's input, which is called once for each step of the parser,  *)
(* and the adder of its output; the channel is what Channel shows it to be.*)
(* The client sends MaxRequests requests one behind the other, in pieces:  *)
(* start lines, header lines, pieces of a body.                            *)
(***************************************************************************)
EXTENDS Integers, Sequences, FiniteSets

CONSTANTS
    Kinds,        \* of the requests the client sends, see Message
    MaxRequests,  \* bound on the requests of the client
    Faults,       \* the connection, a file or a stream may fail
    ShortWrites   \* of the kinds in it, a write of the body may be partial

Message ==
    [ get      |-> <<"start", "end">>,
      last     |-> <<"start", "end">>,      \* HTTP/1.0, or Connection: close
      put      |-> <<"start", "end", "data", "data">>,    \* Content-Length: 2
      chunked  |-> <<"start", "end", "data", "data", "zero", "end">>,
      badline  |-> <<"start", "bad", "end">>,
      badchunk |-> <<"start", "end", "bad", "zero", "end">>,
      junk     |-> <<"junk">> ]             \* a line too long, or with a NUL

ASSUME KindsAssumption    == Kinds \subseteq DOMAIN Message
ASSUME BoundsAssumption   == MaxRequests \in Nat \ {0}
ASSUME WritesAssumption   == Faults \in BOOLEAN /\ ShortWrites \subseteq {"put", "chunked"}

VARIABLES
    kinds,  \* the requests the client sends
    came,   \* the first of their pieces that is not in the channel's buffer yet
    used,   \* the first of them that the parser has not consumed
    z       \* the session and its current transaction, see Fresh

vars == <<kinds, came, used, z>>

Requests == 1..MaxRequests

\* response::status
Unsaid  == 0   \* waiting_for_code_and_reason
Headers == 1   \* waiting_for_headers
Body    == 2   \* waiting_for_body
Sending == 3   \* sending_body
Sent    == 4   \* sent_body
Ended   == 5   \* ended

NewTransaction ==
    [ num    |-> 1,         \* of the request it is for
      closes |-> FALSE,     \* request_.close_connection_
      got    |-> FALSE,     \* got_end_of_message_
      wants  |-> FALSE,     \* waiting_for_consumer_event_
      writer |-> "none",    \* body_writer_: "none", "file" or "string"
      resp   |-> Unsaid,    \* response_.status_
      code   |-> 0,         \* in headers_buffer_, until it is flushed
      close  |-> FALSE,     \* response_.close_connection_
      gone   |-> FALSE ]    \* detached

NewParser ==
    [ at     |-> "start",   \* status_
      rem    |-> 0,         \* remaining_chunk_size_, of a Content-Length
      left   |-> 0,         \* in body_buffer_
      eats   |-> FALSE ]    \* body_consumer_ is set

Fresh ==
    [ t      |-> NewTransaction,
      made   |-> 1,         \* transactions made
      must   |-> FALSE,     \* shared_transaction_must_be_made_
      p      |-> NewParser,
      keep   |-> FALSE,     \* keepalive_timer_id_ runs
      act    |-> TRUE,      \* activity_timer_id_ runs
      busy   |-> FALSE,     \* last_activity_ is less than a time-out ago
      nested |-> 0,         \* pieces left in the nested adder, counting its end
      \* the channel
      chan   |-> "open",    \* or "shut", "done"
      cons   |-> TRUE,      \* the session is its consumer
      waits  |-> FALSE,     \* waiting_for_consumer_event_ of the pipe
      wake   |-> FALSE,     \* a consumer event is on its way
      unsent |-> FALSE,     \* there is output in the buffer
      \* the handlers
      ops    |-> {},        \* authentications under way, by transaction
      \* history
      sent   |-> <<>>,      \* responses in the order of their first bytes
      stored |-> [r \in Requests |-> 0] ]   \* pieces of each body in its file

(* The pieces of the client's requests: <<request, number of the piece>>.  *)
Piece(p) == Message[kinds[p[1]]][p[2]]

Following(p) ==
    IF p[2] < Len(Message[kinds[p[1]]]) THEN <<p[1], p[2] + 1>> ELSE <<p[1] + 1, 1>>

End       == <<MaxRequests + 1, 1>>
Positions == {End} \cup {p \in Requests \X (1..6) : p[2] \in DOMAIN Message[kinds[p[1]]]}

Init ==
    /\ kinds \in [Requests -> Kinds]
    /\ came = <<1, 1>> /\ used = <<1, 1>>
    /\ z = Fresh

-----------------------------------------------------------------------------
(* The channel's end: shutdown lets it write what it has, and ends it.     *)

Shutdown(s) ==
    [s EXCEPT !.t.wants = FALSE, !.cons = FALSE, !.waits = FALSE, !.wake = FALSE,
              !.chan = IF @ = "open" THEN "shut" ELSE @]

ChannelDone(s) ==
    [s EXCEPT !.cons = FALSE, !.waits = FALSE, !.wake = FALSE, !.nested = 0,
              !.unsent = FALSE, !.chan = "done"]

-----------------------------------------------------------------------------
(* The responder.                                                          *)

Detached(s) == [s EXCEPT !.t.gone = TRUE]

(* maybe_accept_next_request *)
\* mutated form: the consumer is not told
AcceptSilently(s) ==
    IF ~(s.t.got /\ s.t.resp = Ended) THEN s
    ELSE [Detached(s) EXCEPT !.t.wants = FALSE, !.must = TRUE, !.keep = TRUE, !.act = FALSE]

\* mutated form: the timer for the next request is not started
AcceptUntimed(s) ==
    IF ~(s.t.got /\ s.t.resp = Ended) THEN s
    ELSE [Detached(s) EXCEPT !.wake = @ \/ (s.t.wants /\ s.cons), !.t.wants = FALSE,
                             !.must = TRUE, !.act = FALSE]

Accept(s) ==
    IF ~(s.t.got /\ s.t.resp = Ended) THEN s
    ELSE [Detached(s) EXCEPT !.wake = @ \/ (s.t.wants /\ s.cons), !.t.wants = FALSE,
                             !.must = TRUE, !.keep = TRUE, !.act = FALSE]

(* flush_headers: the head of the response to request r.  What is written  *)
(* when the head has been flushed already trails the response before.      *)
FlushHeaders(s, r) ==
    LET n    == Len(s.sent)
        head == [req |-> r, code |-> s.t.code, ended |-> FALSE, trails |-> FALSE]
    IN [s EXCEPT !.t.resp = Body, !.t.code = 0, !.t.close = @ \/ s.t.closes, !.unsent = TRUE,
                 !.sent = IF s.t.code = 0 \/ s.nested > 0
                          THEN [@ EXCEPT ![n].trails = TRUE]
                          ELSE Append(@, head)]

SendStatus(s, code) ==
    IF s.t.resp > Unsaid THEN Shutdown(s)
    ELSE [s EXCEPT !.t.resp = Headers, !.t.code = code]

SendEnd(s, r) ==
    LET f == IF s.t.resp = Headers THEN FlushHeaders(s, r) ELSE s
        e == [f EXCEPT !.t.resp = Ended, !.sent[Len(f.sent)].ended = TRUE]
    IN IF s.t.resp < Headers THEN Shutdown(s)
       ELSE IF f.t.close THEN Shutdown(e)
       ELSE Accept(e)

(* send_body of a string: it is not refused when the response has ended.   *)
SendBody(s, r) ==
    IF s.t.resp < Headers THEN Shutdown(s)
    ELSE SendEnd([FlushHeaders(s, r) EXCEPT !.t.resp = Sent], r)

(* send_body of a file or of the entries of a directory                    *)
SendStream(s, r) ==
    IF s.t.resp < Headers THEN Shutdown(s)
    ELSE [FlushHeaders(s, r) EXCEPT !.t.resp = Sending, !.nested = 2]

(* send_status && [Connection: close &&] send_end                          *)
Reply(s, r, code, close) ==
    IF s.t.resp > Unsaid THEN Shutdown(s)
    ELSE SendEnd([SendStatus(s, code) EXCEPT !.t.close = @ \/ close], r)

-----------------------------------------------------------------------------
(* The handlers.  A request for a file or a listing is answered at once or *)
(* with a stream (file_server), one with a body when it has been received  *)
(* (do_put), or when the user it names has been authenticated              *)
(* (authorizator); any may be refused, with or without closing.            *)

Handlers(kind) ==
    {"now", "close"} \cup (IF kind \in {"get", "last"} THEN {"stream"} ELSE {"file", "auth"})

Handle(s, h) ==
    LET r == s.t.num
    IN CASE h = "now"    -> Reply(s, r, 404, FALSE)
         [] h = "close"  -> Reply(s, r, 400, TRUE)
         [] h = "stream" -> SendStream(SendStatus(s, 200), r)
         [] h = "file"   -> [s EXCEPT !.t.writer = "file", !.p.eats = TRUE, !.p.left = 0]
         [] h = "auth"   -> [s EXCEPT !.t.writer = "string", !.p.eats = TRUE, !.p.left = 0]

(* on_end of the body's writer                                             *)
OnEnd(s, success) ==
    LET r == s.t.num
    IN CASE s.t.writer = "none"                 -> s
         [] s.t.writer # "none" /\ ~success     -> Reply(s, r, 500, TRUE)
         [] s.t.writer = "file" /\ success      -> Reply(s, r, 204, FALSE)
         [] s.t.writer = "string" /\ success    -> [s EXCEPT !.ops = @ \cup {s.made}]

(* The continuation of an authentication, by way of the transaction:       *)
(* send_auth_tokens goes on when the status has been refused.              *)
SendTokens(s) ==
    LET a == SendStatus(s, 200)
        b == IF a.t.resp = Headers THEN a ELSE Shutdown(a)
    IN SendBody(b, s.t.num)

Answer(i) ==
    /\ i \in z.ops
    /\ LET s == [z EXCEPT !.ops = @ \ {i}]
       IN \/ (i # z.made \/ z.t.gone) /\ z' = s
          \/ i = z.made /\ ~z.t.gone /\ \E ok \in BOOLEAN :
                z' = IF ok THEN SendTokens(s) ELSE Reply(s, s.t.num, 401, FALSE)
    /\ UNCHANGED <<kinds, came, used>>

-----------------------------------------------------------------------------
(* The parser.                                                             *)

(* process_error: the writer is told, and the client unless it has been    *)
(* told something already.  It never fails: the parser goes on.            *)
ProcessError(s, code) ==
    LET e == OnEnd(s, FALSE)
    IN IF e.t.resp = Unsaid THEN Reply(e, e.t.num, code, TRUE) ELSE e

(* message_consumer::reset, process_end_of_message *)
EndOfMessage(s) ==
    Accept(OnEnd([s EXCEPT !.p = NewParser, !.t.got = TRUE], TRUE))

StartLine(s, r, ok) ==
    LET t == [s EXCEPT !.keep = FALSE, !.act = TRUE, !.p.at = "headers", !.t.num = r,
                       !.t.closes = kinds[r] = "last"]
    IN IF ok THEN t ELSE ProcessError(t, 400)

EndOfHeaders(s, h) ==
    LET t == Handle(s, h)
        k == kinds[s.t.num]
    IN CASE k \in {"chunked", "badchunk"} -> [t EXCEPT !.p.at = "size"]
         [] k = "put"                     -> [t EXCEPT !.p.at = "body", !.p.rem = 2]
         [] OTHER                         -> EndOfMessage(t)

(* consume_body: n of the pieces in body_buffer_ go to the writer, or it   *)
(* fails.                                                                  *)
Wrote(s, n) ==
    [s EXCEPT !.p.left = @ - n, !.stored[s.t.num] = IF s.t.writer = "file" THEN @ + n ELSE @]

ConsumeBody(s, n, fails) == IF fails THEN ProcessError(s, 500) ELSE Wrote(s, n)

(* What a write of the body may come to: a string takes everything.        *)
Writes(s) ==
    LET all == [n |-> s.p.left, fails |-> FALSE]
    IN IF s.t.writer # "file" THEN {all}
       ELSE {all} \cup {[n |-> 0, fails |-> TRUE] : b \in {b \in {1} : Faults}}
                  \cup {[n |-> m, fails |-> FALSE] :
                           m \in {m \in 0..s.p.left : kinds[s.t.num] \in ShortWrites}}

BodyPiece(s, w) ==
    LET c == IF s.p.eats THEN ConsumeBody([s EXCEPT !.p.left = @ + 1], w.n, w.fails) ELSE s
        d == [c EXCEPT !.p.rem = @ - 1]
    IN IF s.p.at = "size" THEN c
       ELSE IF d.p.rem > 0 THEN d
       ELSE EndOfMessage(d)

\* mutated form: what is left of the body is not waited for
ZeroChunkTrails(s) == [s EXCEPT !.p.at = "trailer"]

ZeroChunk(s) == [s EXCEPT !.p.at = IF s.p.left = 0 THEN "trailer" ELSE "finish"]

FinishBody(s, w) ==
    LET c == ConsumeBody(s, w.n, w.fails)
    IN IF c.p.left = 0 THEN [c EXCEPT !.p.at = "trailer"] ELSE c

(* message_consumer::consume_buffer with piece x of request r before it    *)
Parse(s, r, x) ==
    \/ s.p.at = "finish" /\ used' = used
        /\ \E w \in Writes(s) : z' = FinishBody(s, w)
    \/ /\ s.p.at # "finish" /\ used' = Following(used)
       /\ \/ x = "junk" /\ z' = ChannelDone(s)
          \/ x \in {"start", "bad"} /\ s.p.at = "start" /\ z' = StartLine(s, r, x = "start")
          \/ x = "bad" /\ s.p.at # "start" /\ z' = ProcessError(s, 400)
          \/ x = "end" /\ s.p.at = "headers"
             /\ \E h \in Handlers(kinds[r]) : z' = EndOfHeaders(s, h)
          \/ x = "end" /\ s.p.at = "trailer" /\ z' = EndOfMessage(s)
          \/ x = "zero" /\ z' = ZeroChunk(s)
          \/ x = "data"
             /\ \E w \in Writes([s EXCEPT !.p.left = @ + 1]) : z' = BodyPiece(s, w)

(* session::consume_buffer: a new transaction, or none while the response  *)
(* to the last request has not ended.                                      *)
\* mutated form: the next request is taken up at once
MustWaitNot(s) == FALSE

MustWait(s) == s.t.got

Consume ==
    /\ z.cons /\ ~z.waits /\ used # came
    /\ LET r == used[1]
           x == Piece(used)
       IN \/ z.must
             /\ Parse([z EXCEPT !.must = FALSE, !.made = @ + 1,
                            !.t = [NewTransaction EXCEPT !.num = r]], r, x)
          \/ ~z.must /\ MustWait(z)
             /\ z' = [z EXCEPT !.t.wants = TRUE, !.waits = TRUE] /\ used' = used
          \/ ~z.must /\ ~MustWait(z) /\ Parse(z, r, x)
    /\ UNCHANGED <<kinds, came>>

-----------------------------------------------------------------------------
(* Timers, the channel and the client.                                     *)

Keepalive ==
    /\ z.keep /\ z' = Shutdown([z EXCEPT !.keep = FALSE])
    /\ UNCHANGED <<kinds, came, used>>

Activity ==
    /\ z.act
    /\ z' = IF z.busy THEN [z EXCEPT !.busy = FALSE]
            ELSE IF z.t.resp = Unsaid
                 THEN Reply([z EXCEPT !.act = FALSE], z.t.num, 408, TRUE)
            ELSE Shutdown([z EXCEPT !.act = FALSE])
    /\ UNCHANGED <<kinds, came, used>>

Timers == Keepalive \/ Activity

Session(s) == z' = s /\ UNCHANGED <<kinds, came, used>>

Wake == z.wake /\ Session([z EXCEPT !.wake = FALSE, !.waits = FALSE])

Flush == z.unsent /\ Session([z EXCEPT !.unsent = FALSE, !.busy = TRUE])

(* The nested adder adds a piece, ends or fails.                           *)
StreamPiece == z.nested > 1 /\ Session([z EXCEPT !.nested = @ - 1, !.unsent = TRUE])
StreamEnds  == z.nested = 1
               /\ Session(SendEnd([z EXCEPT !.nested = 0, !.t.resp = Sent], z.t.num))
StreamFails == Faults /\ z.nested > 0 /\ Session(ChannelDone(z))

ShutdownEnds == z.chan = "shut" /\ ~z.unsent /\ Session(ChannelDone(z))

(* The connection breaks, or the client closes it.                         *)
Break == Faults /\ z.chan # "done" /\ Session(ChannelDone(z))

(* The server destroys the session that has ended.                         *)
Destroy ==
    /\ z.chan = "done" /\ (~z.t.gone \/ z.keep \/ z.act)
    /\ Session([Detached(z) EXCEPT !.keep = FALSE, !.act = FALSE])

Receive ==
    /\ z.chan = "open" /\ came # End
    /\ came' = Following(came) /\ z' = [z EXCEPT !.busy = TRUE]
    /\ UNCHANGED <<kinds, used>>

Next ==
    \/ \E i \in 1..z.made : Answer(i)
    \/ Consume \/ Wake \/ Timers
    \/ Flush \/ StreamPiece \/ StreamEnds \/ StreamFails
    \/ ShutdownEnds \/ Break \/ Destroy \/ Receive

Spec == Init /\ [][Next]_vars

(* The loop runs, the client reads, authentications are answered (which    *)
(* ThrottledAuthenticator shows) and streams end.  The client need not     *)
(* send anything, and nothing is asked of the timers here.                 *)
FairSpec ==
    /\ Spec
    /\ WF_vars(Consume \/ Wake)
    /\ WF_vars(\E i \in 1..z.made : Answer(i))
    /\ WF_vars(Flush) /\ WF_vars(StreamPiece \/ StreamEnds)
    /\ WF_vars(ShutdownEnds) /\ WF_vars(Destroy)

-----------------------------------------------------------------------------
(* Properties.                                                             *)

(* Every component of the session stays in its range; the channel waits    *)
(* for the consumer only while the transaction knows that it has to tell.  *)
TypeOK ==
    /\ used \in Positions /\ came \in Positions
    /\ used[1] < came[1] \/ (used[1] = came[1] /\ used[2] <= came[2])
    /\ z.t.resp \in Unsaid..Ended /\ z.t.writer \in {"none", "file", "string"}
    /\ z.p.at \in {"start", "headers", "size", "body", "finish", "trailer"}
    /\ z.p.left \in 0..2 /\ z.p.rem \in 0..2 /\ z.nested \in 0..2
    /\ z.chan \in {"open", "shut", "done"}
    /\ z.ops \subseteq 1..z.made /\ z.made <= MaxRequests
    /\ z.waits => z.t.wants \/ z.wake

(* The client gets one response for each request, in their order, each one *)
(* complete before the next begins, and no bytes follow the end of one     *)
(* unless the session is closing: whatever the pipelining, the time at     *)
(* which handlers answer, the errors of the parser and the timers.         *)
ResponsesInOrder ==
    \A i \in DOMAIN z.sent :
        /\ z.sent[i].req = i
        /\ i < Len(z.sent) => z.sent[i].ended
        /\ z.sent[i].trails => z.chan # "open"

(* A client that is told its upload has succeeded has all of it stored.    *)
UploadIsStored ==
    \A i \in DOMAIN z.sent : z.sent[i].code = 204 => z.stored[z.sent[i].req] = 2

(* A request behind well-formed ones that is on the server completely is   *)
(* answered, unless the session closes: the wake-up of a request that had  *)
(* to wait for the response before is never lost.                          *)
WellFormed(r) == \A s \in 1..r : kinds[s] \notin {"badline", "badchunk", "junk"}
Arrived(r)    == came[1] > r
AnsweredTo(r) == \E i \in DOMAIN z.sent : z.sent[i].req = r /\ z.sent[i].ended

RequestIsAnswered ==
    \A r \in Requests :
        (WellFormed(r) /\ Arrived(r)) ~> (AnsweredTo(r) \/ z.chan # "open")

(* If timers fire, a session whose client stops sending ends, wherever it  *)
(* stopped: one of the two timers runs at any time.                        *)
SessionEnds == WF_vars(Timers) => <>(z.chan = "done")

(* Refuted: a file whose last piece cannot be written is told that it has  *)
(* failed and then that it has been received; the second response that the *)
(* handler attempts closes the session.  And when a login takes longer     *)
(* than the activity time-out, the tokens are sent behind the 408.         *)
NothingTrails == \A i \in DOMAIN z.sent : ~z.sent[i].trails
=============================================================================
