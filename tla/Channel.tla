------------------------------ MODULE Channel ------------------------------
(***************************************************************************)
(* A channel moves bytes between a socket and the buffer operators of its  *)
(* owner (channel.cpp): its pipe "in" goes from the socket to a consumer,  *)
(* its pipe "out" from an adder to the socket (pipe.cpp), and the socket   *)
(* adapter is the socket's end of both (buffer_operator/socket_adapter.cpp).*)
(* The owner is the FTP session, which runs one transfer after the other   *)
(* on its data channel (ftp/session.cpp), or the commander, which talks on *)
(* the control channel until QUIT (ftp/commander.cpp).                     *)
(*                                                                         *)
(* Everything runs on one event loop: q is its queue, and a handler is an  *)
(* operator from state to state.  What is attached at a pipe's far end     *)
(* follows from the kind of transfer:                                      *)
(*   "send"  RETR: out.add is a file_reader                                *)
(*   "list"  LIST: out.add is a tvfs_entries_lister, which asks for one    *)
(*           entry at a time and gets it later                             *)
(*   "store" STOR: in.con is a file_writer                                 *)
(*   "talk"  the control channel: in.con is a line_consumer, out.add a     *)
(*           streamed_adder                                                *)
(* A byte is the number of the transfer it belongs to.                     *)
(***************************************************************************)
EXTENDS EventLoop

CONSTANTS
    Kinds,        \* the kinds of transfer of this instance
    MaxTransfers, \* bound on the transfers made on the channel
    Bytes,        \* bytes (entries, lines) a transfer has to move
    MaxBuffer,    \* max_buffer_size
    MaxLoops,     \* max_num_loops_
    SendRoom,     \* what the socket takes before write() returns EAGAIN
    Faults,       \* the connection may break and the file may fail
    LateEntries   \* an entry asked for may come when its listing is over

LineSize == 2     \* bytes of a command line

ASSUME KindsAssumption == Kinds \subseteq {"send", "list", "store", "talk"}
ASSUME BoundsAssumption ==
    {MaxTransfers, Bytes, MaxBuffer, MaxLoops, SendRoom} \subseteq Nat \ {0}
ASSUME TalkAssumption == "talk" \in Kinds => LineSize <= MaxBuffer
ASSUME FlagsAssumption == {Faults, LateEntries} \subseteq BOOLEAN

VARIABLE ch

Pipes == {"in", "out"}
Other(p) == IF p = "in" THEN "out" ELSE "in"
Both(v)  == [p \in Pipes |-> v]

Fresh ==
    [ \* the owner
      n      |-> 0,        \* number of the transfer
      kind   |-> "none",
      phase  |-> "idle",   \* "run" with a socket, "closing" in its shutdown
      result |-> "none",   \* what handle_data_transfer was told
      \* the pipes
      add    |-> Both(FALSE),   \* adder_ is set
      con    |-> Both(FALSE),   \* consumer_ is set
      buf    |-> Both(<<>>),    \* buffer_
      wa     |-> Both(FALSE),   \* waiting_for_adder_event_
      wc     |-> Both(FALSE),   \* waiting_for_consumer_event_
      ae     |-> Both("ok"),    \* adder_error_
      ce     |-> Both("ok"),    \* consumer_error_
      drain  |-> Both(TRUE),    \* wait_for_empty_buffer_on_eof_
      \* the socket adapter
      si     |-> FALSE,    \* si_ is set
      wr     |-> FALSE,    \* waiting_for_read_event_
      ww     |-> FALSE,    \* waiting_for_write_event_
      low    |-> FALSE,    \* adder_waiting_for_consumable_amount_to_be_low_enough_
      shut   |-> FALSE,    \* shutting_down_
      q      |-> <<>>,     \* the event loop's queue
      \* the far ends
      left   |-> 0,        \* bytes or entries the adder has not read yet
      asked  |-> <<>>,     \* the listings whose entries are awaited
      sent   |-> FALSE,    \* streamed_adder::event_sent_
      stored |-> <<>>,     \* the file the writer writes
      said   |-> 0,        \* replies put into the stream
      spoilt |-> FALSE,    \* the file fails
      \* the socket and its peer
      peer   |-> 0,        \* bytes the peer has still to send
      rx     |-> 0,        \* bytes that have arrived
      eof    |-> FALSE,    \* the peer sends no more
      wire   |-> <<>>,     \* bytes written and not yet received
      got    |-> <<>>,     \* bytes the peer received
      broken |-> FALSE,    \* the connection is lost
      armR   |-> FALSE,    \* a read event comes when there is something
      armW   |-> FALSE,    \* a write event comes when there is room
      half   |-> FALSE ]   \* the socket is in state shutting_down

Init == ch = Fresh

Lesser(a, b) == IF a < b THEN a ELSE b

-----------------------------------------------------------------------------
(* The queue, and the operators' event handlers (detail/base.hpp).         *)

Codes  == {"ok", "fail", "inval", "nobufs", "bye"}   \* what an event tells of
Events ==
    ({"add", "con", "pipe"} \X Pipes \X Codes) \cup ({"read", "write", "done"} \X Codes)
    \cup ({"start"} \X Kinds) \cup {<<"shut">>, <<"sock">>}

Send(s, e) == [s EXCEPT !.q = Append(@, e)]
Drop(s, gone) == [s EXCEPT !.q = Filtered(@, gone)]

SendAdder(s, p, err)    == IF s.add[p] THEN Send(s, <<"add", p, err>>) ELSE s
SendConsumer(s, p, err) == IF s.con[p] THEN Send(s, <<"con", p, err>>) ELSE s

(* set_event_handler(nullptr) takes the operator's events off the queue.   *)
DropAdderEvents(s, p)    == Drop(s, {"add"} \X {p} \X Codes)
DropConsumerEvents(s, p) == Drop(s, {"con"} \X {p} \X Codes)

-----------------------------------------------------------------------------
(* pipe: set_adder, set_consumer, clear, done.                             *)

SetAdder(s, p, wait) ==
    [s EXCEPT !.add[p] = TRUE, !.ae[p] = IF s.add[p] THEN @ ELSE "ok",
              !.drain[p] = wait]

UnsetAdder(s, p) ==
    LET t == [s EXCEPT !.add[p] = FALSE, !.wa[p] = FALSE, !.ae[p] = "ok"]
    IN [(IF s.add[p] THEN DropAdderEvents(t, p) ELSE s) EXCEPT !.drain[p] = TRUE]

SetConsumer(s, p) ==
    IF s.con[p] THEN s
    ELSE SendConsumer([s EXCEPT !.con[p] = TRUE, !.ce[p] = "ok", !.wc[p] = TRUE],
                      p, "ok")

UnsetConsumer(s, p) ==
    IF s.con[p]
    THEN DropConsumerEvents([s EXCEPT !.con[p] = FALSE, !.wc[p] = FALSE,
                                      !.ce[p] = "ok"], p)
    ELSE s

ClearPipe(s, p) == [UnsetAdder(UnsetConsumer(s, p), p) EXCEPT !.buf[p] = <<>>]

(* -ESHUTDOWN, "bye", is no error for who is told.                         *)
PipeDone(s, p, err) ==
    Send(ClearPipe(s, p), <<"pipe", p, IF err = "bye" THEN "ok" ELSE err>>)

-----------------------------------------------------------------------------
(* The socket: read, write, shutdown (libfilezilla).                       *)

Room(s) == SendRoom - Len(s.wire)

(* Result of a step that returns an error code: [s |-> state, err |-> code] *)
Ret(s, err) == [s |-> s, err |-> err]

Shutdown(s) ==
    IF ~s.broken /\ Room(s) = 0
    THEN Ret([s EXCEPT !.half = TRUE, !.armW = TRUE], "again")
    ELSE Ret([s EXCEPT !.half = FALSE], "ok")

-----------------------------------------------------------------------------
(* socket_adapter                                                          *)

SetSocket(s) ==
    [s EXCEPT !.si = TRUE, !.wr = TRUE, !.ww = TRUE, !.armR = TRUE, !.armW = TRUE]

UnsetSocket(s) ==
    Drop([s EXCEPT !.si = FALSE, !.armR = FALSE, !.armW = FALSE],
         {"read", "write"} \X Codes)

Finished(s) == [SendConsumer(s, "out", "bye") EXCEPT !.shut = FALSE]

(* on_shutdown_event *)
OnShutdown(s) ==
    LET r == Shutdown(s)
    IN IF ~s.si THEN Finished(s)
       ELSE IF s.buf["out"] # <<>> THEN s
       ELSE IF r.err = "again" THEN r.s ELSE Finished(r.s)

(* socket_adapter::add_to_buffer; the control channel reads no further     *)
(* while replies wait (max_writable_amount_left_before_reading_again_).    *)
Read(s) ==
    LET k == Lesser(s.rx, MaxBuffer - Len(s.buf["in"]))
    IN IF ~s.si \/ s.wr \/ s.low THEN Ret(s, "again")
       ELSE IF s.kind = "talk" /\ s.buf["out"] # <<>>
            THEN Ret([s EXCEPT !.low = TRUE], "again")
       ELSE IF Len(s.buf["in"]) = MaxBuffer THEN Ret(s, "nobufs")
       ELSE IF s.broken THEN Ret(s, "fail")
       ELSE IF s.rx > 0
            THEN Ret([s EXCEPT !.rx = @ - k, !.buf["in"] = @ \o [i \in 1..k |-> s.n]],
                     "ok")
       ELSE IF s.eof THEN Ret(s, "nodata")
       ELSE Ret([s EXCEPT !.wr = TRUE, !.armR = TRUE], "again")

(* socket_adapter::consume_buffer *)
\* mutated form: the adder that waits for the replies to be written is not told
WrittenSilently(s) == IF s.shut THEN OnShutdown(s) ELSE s

Written(s) ==
    IF s.shut THEN OnShutdown(s)
    ELSE IF s.low /\ s.buf["out"] = <<>>
         THEN SendAdder([s EXCEPT !.low = FALSE], "in", "ok")
    ELSE s

Write(s) ==
    LET k == Lesser(Room(s), Len(s.buf["out"]))
    IN IF ~s.si \/ s.ww THEN Ret(s, "again")
       ELSE IF s.broken THEN Ret(s, "fail")
       ELSE IF k = 0 THEN Ret([s EXCEPT !.ww = TRUE, !.armW = TRUE], "again")
       ELSE Ret(Written([s EXCEPT !.wire = @ \o SubSeq(s.buf["out"], 1, k),
                                  !.buf["out"] = SubSeq(@, k + 1, Len(@))]), "ok")

(* socket_adapter::on_socket_event *)
OnSocketRead(s, err) ==
    LET t == [s EXCEPT !.wr = FALSE]
    IN IF s.shut THEN t ELSE SendAdder(t, "in", err)

OnSocketWrite(s, err) ==
    LET t == [s EXCEPT !.ww = FALSE]
    IN IF s.half THEN OnShutdown(t) ELSE SendConsumer(t, "out", err)

-----------------------------------------------------------------------------
(* The operators of the owner.                                             *)

(* file_reader::add_to_buffer *)
ReadFile(s) ==
    LET k == Lesser(s.left, MaxBuffer - Len(s.buf["out"]))
    IN IF Len(s.buf["out"]) >= MaxBuffer THEN Ret(s, "nobufs")
       ELSE IF s.spoilt THEN Ret(s, "fail")
       ELSE IF s.left = 0 THEN Ret(s, "nodata")
       ELSE Ret([s EXCEPT !.left = @ - k, !.buf["out"] = @ \o [i \in 1..k |-> s.n]], "ok")

(* tvfs_entries_lister::add_to_buffer *)
NextEntry(s) ==
    IF s.left = 0 THEN Ret(s, "nodata")
    ELSE Ret([s EXCEPT !.left = @ - 1, !.asked = Append(@, s.n)], "again")

(* streamed_adder::add_to_buffer and buffer_stream, with no nested adder   *)
Streamed(s) == IF s.sent THEN Ret([s EXCEPT !.sent = FALSE], "ok") ELSE Ret(s, "again")

Say(s) ==
    LET t == [s EXCEPT !.buf["out"] = Append(@, s.n), !.said = @ + 1]
    IN IF s.sent THEN t ELSE SendAdder([t EXCEPT !.sent = t.add["out"]], "out", "ok")

(* file_writer::consume_buffer *)
WriteFile(s) ==
    IF s.spoilt THEN Ret(s, "fail")
    ELSE Ret([s EXCEPT !.stored = @ \o s.buf["in"], !.buf["in"] = <<>>], "ok")

(* commander::shutdown and channel::shutdown *)
ShutDownChannel(s) == Send([UnsetConsumer(s, "in") EXCEPT !.shut = TRUE], <<"shut">>)

(* line_consumer::consume_buffer: a line is answered, the last one is QUIT *)
ReadLine(s) ==
    LET t == [Say(s) EXCEPT !.left = @ - 1]
        u == IF t.left = 0 THEN ShutDownChannel(t) ELSE t
    IN IF Len(s.buf["in"]) < LineSize THEN Ret(s, "nodata")
       ELSE IF ~s.si THEN Ret([s EXCEPT !.buf["in"] = SubSeq(@, LineSize + 1, Len(@))], "ok")
       ELSE Ret([u EXCEPT !.buf["in"] = SubSeq(@, LineSize + 1, Len(@))], "ok")

AddFrom(s, p) ==
    CASE p = "in" -> Read(s)
      [] p = "out" /\ s.kind = "send" -> ReadFile(s)
      [] p = "out" /\ s.kind = "list" -> NextEntry(s)
      [] OTHER -> Streamed(s)

ConsumeBy(s, p) ==
    CASE p = "out" -> Write(s)
      [] p = "in" /\ s.kind = "store" -> WriteFile(s)
      [] OTHER -> ReadLine(s)

-----------------------------------------------------------------------------
(* pipe::add_to_buffer and pipe::consume_buffer: a loop's state is         *)
(* [s |-> state, go |-> it goes on, more |-> what it will return].         *)

Loop(s, go, more) == [s |-> s, go |-> go, more |-> more]

(* What follows from the adder's code, at the given turn of the loop.      *)
AddedWithoutConsumer(r, p) ==
    CASE r.err = "again" -> Loop([r.s EXCEPT !.wa[p] = TRUE], FALSE, TRUE)
      [] r.err = "nodata" -> Loop(r.s, FALSE, TRUE)
      [] OTHER -> Loop([r.s EXCEPT !.ae[p] = "inval"], FALSE, FALSE)

\* mutated form: the end of the data ends the pipe though bytes are buffered
AddedEndsAtOnce(r, p, turn) ==
    CASE r.err = "ok" -> Loop(r.s, TRUE, TRUE)
      [] r.err = "again" -> Loop([r.s EXCEPT !.wa[p] = TRUE], FALSE, TRUE)
      [] r.err = "nodata" -> Loop(r.s, FALSE, FALSE)
      [] r.err = "nobufs" -> Loop(r.s, FALSE, TRUE)
      [] OTHER -> Loop([r.s EXCEPT !.ae[p] = r.err], FALSE, turn > 0)

Added(r, p, turn) ==
    CASE r.err = "ok" -> Loop(r.s, TRUE, TRUE)
      [] r.err = "again" -> Loop([r.s EXCEPT !.wa[p] = TRUE], FALSE, TRUE)
      [] r.err = "nodata" ->
            Loop(r.s, FALSE, r.s.drain[p] /\ r.s.buf[p] # <<>> /\ r.s.ce[p] # "nodata")
      [] r.err = "nobufs" ->
            IF turn = 0 /\ r.s.ce[p] = "nodata"
            THEN Loop([r.s EXCEPT !.ae[p] = "nobufs"], FALSE, FALSE)
            ELSE Loop(r.s, FALSE, TRUE)
      [] OTHER -> Loop([r.s EXCEPT !.ae[p] = r.err], FALSE, turn > 0)

AddToBuffer(s, p) ==
    LET run[k \in Nat] ==
            IF k = 0 THEN Loop(s, s.ae[p] = "ok", s.ae[p] = "ok")
            ELSE LET l == run[k - 1]
                     r == AddFrom(l.s, p)
                 IN IF ~l.go \/ ~l.s.add[p] THEN l
                    ELSE IF ~l.s.con[p] THEN AddedWithoutConsumer(r, p)
                    ELSE Added(r, p, k - 1)
    IN run[MaxLoops]

Consumed(r, p) ==
    LET t == [r.s EXCEPT !.ce[p] = r.err]
    IN CASE r.err = "ok" -> Loop(t, TRUE, TRUE)
         [] r.err = "again" -> Loop([t EXCEPT !.wc[p] = TRUE], FALSE, TRUE)
         [] r.err = "nodata" -> Loop(t, FALSE, TRUE)
         [] OTHER -> Loop(t, FALSE, FALSE)

ConsumeBuffer(s, p) ==
    LET run[k \in Nat] ==
            IF k = 0 THEN Loop(s, TRUE, TRUE)
            ELSE LET l == run[k - 1]
                 IN IF ~l.go \/ ~l.s.con[p] \/ l.s.buf[p] = <<>> THEN l
                    ELSE Consumed(ConsumeBy(l.s, p), p)
    IN run[MaxLoops]

(* pipe::on_buffer_adder_event *)
OnAdder(s, p, err) ==
    LET l == AddToBuffer([s EXCEPT !.wa[p] = FALSE], p)
    IN IF err # "ok" THEN PipeDone(s, p, err)
       ELSE IF ~l.more THEN PipeDone(l.s, p, l.s.ae[p])
       ELSE IF ~l.s.wc[p] /\ l.s.buf[p] # <<>> /\ l.s.con[p]
            THEN SendConsumer([l.s EXCEPT !.wc[p] = TRUE], p, "ok")
       ELSE l.s

(* pipe::on_buffer_consumer_event *)
OnConsumer(s, p, err) ==
    LET l == ConsumeBuffer([s EXCEPT !.wc[p] = FALSE], p)
    IN IF err # "ok" THEN PipeDone(s, p, err)
       ELSE IF ~l.more THEN PipeDone(l.s, p, l.s.ce[p])
       ELSE IF ~l.s.con[p] THEN l.s
       ELSE IF l.s.ce[p] # "nodata" /\ l.s.buf[p] # <<>>
            THEN IF l.s.wc[p] THEN l.s
                 ELSE SendConsumer([l.s EXCEPT !.wc[p] = TRUE], p, "ok")
       ELSE IF ~l.s.wa[p] /\ l.s.add[p]
            THEN SendAdder([l.s EXCEPT !.wa[p] = TRUE], p, "ok")
       ELSE l.s

-----------------------------------------------------------------------------
(* channel                                                                 *)

(* channel::set_socket(si, wait): the socket's ends of both pipes          *)
AttachSocket(s, wait) == SetSocket(SetConsumer(SetAdder(s, "in", wait), "out"))

Detach(s) == LET t == UnsetConsumer(UnsetAdder(s, "in"), "in")
             IN UnsetSocket(UnsetConsumer(UnsetAdder(t, "out"), "out"))

(* channel::on_pipe_done_event and channel::done *)
OnPipeDone(s, p, err) ==
    LET t == ClearPipe(s, Other(p))
    IN IF t.si THEN Send(Detach(t), <<"done", err>>) ELSE t

(* channel::clear *)
ClearChannel(s) == UnsetSocket(ClearPipe(ClearPipe(s, "out"), "in"))

-----------------------------------------------------------------------------
(* The owner: session::setup_data_channel, close_data_connection,          *)
(* on_channel_done_event, data_socket_shutdown; commander::set_socket.     *)

(* The session gives its data socket up, and with it its events.           *)
\* mutated form: a done event that is queued stays
CloseKeepsDone(s) ==
    [ClearChannel(s) EXCEPT !.phase = "idle", !.armW = FALSE, !.half = FALSE,
        !.asked = IF LateEntries THEN @ ELSE <<>>]

Close(s) ==
    LET t == Drop(s, ({"done"} \X Codes) \cup {<<"sock">>})
    IN [ClearChannel(t) EXCEPT !.phase = "idle", !.armW = FALSE, !.half = FALSE,
           !.asked = IF LateEntries THEN @ ELSE <<>>]

Stopped(s, err) == Close([s EXCEPT !.result = err])

DataSocketShutdown(s, err) ==
    LET r == Shutdown(s)
    IN IF r.err = "again" THEN [r.s EXCEPT !.phase = "closing", !.result = err]
       ELSE Stopped(r.s, err)

OnChannelDone(s, err) ==
    IF s.kind = "talk" THEN Stopped(s, err) ELSE DataSocketShutdown(s, err)

Connected(s, kind) ==
    [s EXCEPT !.n = @ + 1, !.kind = kind, !.phase = "run", !.result = "none",
              !.left = IF kind = "store" THEN 0 ELSE Bytes,
              !.peer = CASE kind = "store" -> Bytes
                         [] kind = "talk"  -> Bytes * LineSize
                         [] OTHER          -> 0,
              !.rx = 0, !.eof = FALSE, !.wire = <<>>, !.got = <<>>, !.stored = <<>>,
              !.broken = FALSE, !.spoilt = FALSE]

Started(z, kind) ==
    LET s == Connected(z, kind)
        t == IF kind \in {"send", "list"} THEN SetAdder(s, "out", TRUE) ELSE s
        u == IF kind = "store" THEN SetConsumer(t, "in") ELSE t
    IN IF kind = "talk"
       THEN Say(SetConsumer(SetAdder(AttachSocket(s, FALSE), "out", TRUE), "in"))
       ELSE AttachSocket(u, TRUE)

(* The client connects: the event of the connection starts the transfer.   *)
Connect(kind) ==
    /\ ch.phase = "idle" /\ ch.n < MaxTransfers
    /\ ch.kind # "talk" /\ (kind = "talk" => ch.n = 0)
    /\ \A i \in DOMAIN ch.q : ch.q[i][1] # "start"
    /\ ch' = Send(ch, <<"start", kind>>)

(* PASV, PORT, a timeout or the end of the session closes the connection.  *)
Abandon ==
    /\ ch.phase # "idle" /\ ch.kind # "talk"
    /\ ch' = Close(ch)

-----------------------------------------------------------------------------
(* The event loop takes the oldest event.                                  *)

Handle(s, e) ==
    CASE e[1] = "start" -> Started(s, e[2])
      [] e[1] = "add"   -> OnAdder(s, e[2], e[3])
      [] e[1] = "con"   -> OnConsumer(s, e[2], e[3])
      [] e[1] = "read"  -> OnSocketRead(s, e[2])
      [] e[1] = "write" -> OnSocketWrite(s, e[2])
      [] e[1] = "shut"  -> OnShutdown(s)
      [] e[1] = "pipe"  -> OnPipeDone(s, e[2], e[3])
      [] e[1] = "done"  -> OnChannelDone(s, e[2])
      [] e[1] = "sock"  -> DataSocketShutdown(s, s.result)

HandleEvent ==
    /\ ch.q # <<>>
    /\ ch' = Handle([ch EXCEPT !.q = Tail(@)], Head(ch.q))

(* The entry asked for: it goes into the buffer the lister was given, and  *)
(* the pipe is told if the lister is still its adder.                      *)
Entry ==
    /\ ch.asked # <<>>
    /\ ch' = SendAdder([ch EXCEPT !.asked = Tail(@), !.buf["out"] = Append(@, Head(ch.asked))],
                      "out", "ok")

EntryFails ==
    /\ Faults /\ ch.asked # <<>>
    /\ ch' = SendAdder([ch EXCEPT !.asked = Tail(@)], "out", "inval")

-----------------------------------------------------------------------------
(* The socket's events, the peer and the faults.                           *)

ReadReady ==
    /\ ch.armR /\ ch.phase = "run" /\ (ch.rx > 0 \/ ch.eof \/ ch.broken)
    /\ ch' = Send([ch EXCEPT !.armR = FALSE],
                 <<"read", IF ch.broken THEN "fail" ELSE "ok">>)

WriteReady ==
    /\ ch.armW /\ (Room(ch) > 0 \/ ch.broken)
    /\ ch' = Send([ch EXCEPT !.armW = FALSE],
                 IF ch.phase = "closing" THEN <<"sock">>
                 ELSE <<"write", IF ch.broken THEN "fail" ELSE "ok">>)

PeerSends ==
    /\ ch.phase # "idle" /\ ch.peer > 0 /\ ~ch.broken
    /\ \E k \in 1..ch.peer : ch' = [ch EXCEPT !.peer = @ - k, !.rx = @ + k]

PeerEnds ==
    /\ ch.phase # "idle" /\ ch.peer = 0 /\ ~ch.eof /\ ~ch.broken
    /\ ch' = [ch EXCEPT !.eof = TRUE]

PeerReceives ==
    /\ ch.wire # <<>> /\ ~ch.broken
    /\ ch' = [ch EXCEPT !.got = Append(@, Head(ch.wire)), !.wire = Tail(@)]

Break ==
    /\ Faults /\ ch.phase # "idle" /\ ~ch.broken
    /\ ch' = [ch EXCEPT !.broken = TRUE]

Spoil ==
    /\ Faults /\ ch.phase = "run" /\ ~ch.spoilt /\ ch.kind \in {"send", "store"}
    /\ ch' = [ch EXCEPT !.spoilt = TRUE]

-----------------------------------------------------------------------------
Network == ReadReady \/ WriteReady \/ PeerSends \/ PeerEnds \/ PeerReceives

Next ==
    \/ \E kind \in Kinds : Connect(kind)
    \/ Abandon
    \/ HandleEvent
    \/ Entry \/ EntryFails
    \/ Network
    \/ Break \/ Spoil

Spec == Init /\ [][Next]_ch

(* The loop runs, listings are answered, the socket layer tells, and the   *)
(* peer reads what it is sent and sends what it has.                       *)
FairSpec ==
    /\ Spec
    /\ WF_ch(HandleEvent) /\ WF_ch(Entry)
    /\ WF_ch(ReadReady) /\ WF_ch(WriteReady)
    /\ WF_ch(PeerSends) /\ WF_ch(PeerEnds) /\ WF_ch(PeerReceives)

-----------------------------------------------------------------------------
(* Properties.                                                             *)

(* What a transfer moves, whole and in order: the bytes of this transfer   *)
(* and of no other.                                                        *)
Whole(n) == [i \in 1..n |-> ch.n]

(* A transfer that ended without an error has moved every byte, once, and  *)
(* nothing of an earlier transfer; a control connection that was shut down *)
(* without an error has sent every reply, the goodbye too.  The end of the *)
(* data, seen before the buffer is written, must not end the transfer      *)
(* (pipe::add_to_buffer), nor the shutdown overtake it (on_shutdown_event). *)
CompleteWhenOk ==
    ch.result = "ok" /\ ch.phase = "idle" =>
        /\ ch.kind \in {"send", "list"} => ch.got \o ch.wire = Whole(Bytes)
        /\ ch.kind = "store" => ch.stored = Whole(Bytes)
        /\ ch.kind = "talk" /\ ch.left = 0 => ch.got \o ch.wire = Whole(ch.said)

(* An event in the queue has still what its handler needs: the operator it *)
(* comes from is attached, a socket event finds the adapter's socket, and  *)
(* channel::done_event, told once, the session's data socket              *)
(* (on_channel_done_event logs a likely bug otherwise).                    *)
EventsHaveTargets ==
    /\ \A i \in DOMAIN ch.q :
        LET e == ch.q[i] IN
        /\ e[1] = "add" => ch.add[e[2]]
        /\ e[1] = "con" => ch.con[e[2]]
        /\ e[1] \in {"read", "write"} => ch.si
        /\ e[1] = "done" => ch.phase = "run" /\ ~ch.si
        /\ e[1] = "sock" => ch.phase = "closing"
    /\ \A i, j \in DOMAIN ch.q : ch.q[i][1] = "done" /\ ch.q[j][1] = "done" => i = j

(* While a listing runs, its lister has one entry asked for at the most:   *)
(* an event that calls it again before the entry came would skip one.      *)
OneEntryAsked == LateEntries \/ Len(ch.asked) <= 1

(* Every field of the record has its type; the buffer of the socket's side *)
(* never exceeds the size the channel was given, the events in the queue   *)
(* have their targets, and entries are asked for one by one.               *)
TypeOK ==
    /\ DOMAIN ch = DOMAIN Fresh
    /\ ch.n \in 0..MaxTransfers
    /\ ch.kind \in Kinds \cup {"none"}
    /\ ch.phase \in {"idle", "run", "closing"}
    /\ ch.result \in {"none"} \cup Codes
    /\ {ch.add, ch.con, ch.wa, ch.wc, ch.drain} \subseteq [Pipes -> BOOLEAN]
    /\ ch.ae \in [Pipes -> Codes]
    /\ ch.ce \in [Pipes -> Codes \cup {"again", "nodata"}]
    /\ \A p \in Pipes : \A i \in DOMAIN ch.buf[p] : ch.buf[p][i] \in 1..MaxTransfers
    /\ Len(ch.buf["in"]) <= MaxBuffer
    /\ {ch.si, ch.wr, ch.ww, ch.low, ch.shut, ch.sent, ch.spoilt, ch.eof, ch.broken,
        ch.armR, ch.armW, ch.half} \subseteq BOOLEAN
    /\ \A i \in DOMAIN ch.q : ch.q[i] \in Events
    /\ EventsHaveTargets /\ OneEntryAsked

(* A transfer the session does not abandon comes to its end, and a control *)
(* connection too, however slowly the peer reads and sends: no wake-up     *)
(* between adder, consumer and socket is lost.                             *)
TransferEnds == ch.phase = "run" ~> ch.phase = "idle"
=============================================================================
