---------------------------- MODULE Impersonator ----------------------------
(***************************************************************************)
(* File-system operations done as another user: the client keeps a pool of *)
(* callers (impersonator/client.cpp), each of which owns a process that    *)
(* runs as that user and talks to it over a socket pair                    *)
(* (impersonator/channel.cpp, process.cpp, server.cpp).                    *)
(*                                                                         *)
(* Sessions call on their own threads: get_caller under the client's       *)
(* mutex, caller::call under the caller's, ~get_caller under the client's. *)
(* The callers and their channels live on the client's event loop, whose   *)
(* handlers are steps; q is its queue.  A request is answered with the     *)
(* process's response, or with a default one when there will be none.      *)
(***************************************************************************)
EXTENDS EventLoop, FiniteSets, Functions

CONSTANTS
    MaxRequests, \* bound on the operations asked for, each by a thread
    PoolSize,    \* pool_size_
    MaxCallers,  \* bound on the callers made
    PairRoom,    \* messages the socket takes before a write is EAGAIN
    ProcessFaults       \* what may befall: "die", "hang" (a process), "gone" (a session)

ASSUME SizesAssumption ==
    {MaxRequests, PoolSize, MaxCallers, PairRoom} \subseteq Nat \ {0}
ASSUME FaultsAssumption == ProcessFaults \subseteq {"die", "hang", "gone"}

Requests == 1..MaxRequests   \* numbered as their threads come
None     == 0
Default  == -1               \* the response messages::default_for makes up

VARIABLES
    pc,         \* where the thread of a request is in client::call
    holds,      \* get_caller::caller_ of that thread
    available,  \* callers_available_
    signalled,  \* condition_ has been signalled
    caller,     \* the callers made so far, with their channels and processes
    q,          \* queue of the client's event loop
    answer,     \* what the receiver of a request was executed with
    lost,       \* history: requests whose receiver was destroyed unexecuted
    gone        \* requests whose session is no more

IMvars == <<pc, holds, available, signalled, caller, q, answer, lost, gone>>

CallerIds == 1..MaxCallers
Made      == 1..Len(caller)
InUse     == {holds[r] : r \in {s \in Requests : pc[s] \in {"got", "called"}}}

NewCaller ==
    [ \* caller
      sendQ |-> <<>>,    \* send_queue_
      recvQ |-> <<>>,    \* recv_queue_
      timer |-> None,    \* timer_id_: the request whose deadline it waits for
      \* channel
      open  |-> TRUE,    \* rw_ is set
      out   |-> None,    \* out_buf_
      msg   |-> None,    \* in_msg_, if has_in_msg_
      must  |-> {"send", "recv"},   \* must_send_ready_ops_
      wait  |-> FALSE,   \* waiting_for_read_event_
      armR  |-> TRUE,    \* the socket tells when there is something to read
      armW  |-> TRUE,    \* the socket tells when there is room
      \* the process
      asked |-> <<>>,    \* requests in the socket pair
      said  |-> <<>>,    \* responses in the socket pair
      state |-> "runs" ] \* or "hangs", "dead"

IMInit ==
    /\ pc = [r \in Requests |-> "new"]
    /\ holds = [r \in Requests |-> 0]
    /\ available = <<>> /\ signalled = FALSE
    /\ caller = <<>> /\ q = <<>>
    /\ answer = [r \in Requests |-> None]
    /\ lost = {} /\ gone = {}

(* Events of the loop.                                                     *)
EventKinds == {"can_send", "can_recv", "error", "write", "read"}

Pending(k)    == Range(caller[k].sendQ) \cup Range(caller[k].recvQ)

-----------------------------------------------------------------------------
(* receiver_handle: a receiver is executed once, if its context is there.  *)

Answered(rs, v) ==
    answer' = [r \in Requests |->
                 IF r \in rs \ gone /\ answer[r] = None THEN v ELSE answer[r]]

-----------------------------------------------------------------------------
(* client: get_caller::get, ~get_caller.                                   *)

(* The dead callers at the front are erased: ~caller takes the caller's    *)
(* events off the queue and its queues with it.                            *)
LiveFrom(s) ==
    LET live == {i \in DOMAIN s : caller[s[i]].open}
    IN IF live = {} THEN Len(s) + 1 ELSE CHOOSE i \in live : \A j \in live : i <= j

Erased == [sendQ |-> <<>>, recvQ |-> <<>>, timer |-> None, open |-> FALSE, out |-> None,
           msg |-> None, must |-> {}, wait |-> FALSE, armR |-> FALSE, armW |-> FALSE,
           asked |-> <<>>, said |-> <<>>, state |-> "dead"]

Without(ks) == [k \in Made |-> IF k \in ks THEN Erased ELSE caller[k]]

Erase(ks) ==
    /\ q' = Filtered(q, [to : ks, what : EventKinds])
    /\ lost' = lost \cup {r \in UNION {Pending(k) : k \in ks} : answer[r] = None}

MustWait == available = <<>> /\ Cardinality(InUse) = PoolSize

(* The caller at the front, or a new one.                                  *)
GetCaller(r) ==
    LET i    == LiveFrom(available)
        rest == SubSeq(available, i, Len(available))
        dead == {available[j] : j \in 1..(i - 1)}
    IN /\ Erase(dead)
       /\ \/ /\ rest # <<>>
             /\ holds' = [holds EXCEPT ![r] = Head(rest)]
             /\ available' = Tail(rest)
             /\ caller' = Without(dead)
          \/ /\ rest = <<>> /\ Len(caller) < MaxCallers
             /\ caller' = Append(Without(dead), NewCaller)
             /\ holds' = [holds EXCEPT ![r] = Len(caller) + 1]
             /\ available' = <<>>

Get(r) ==
    /\ pc[r] = "new" /\ \A s \in 1..(r - 1) : pc[s] # "new"
    /\ \/ /\ ~MustWait
          /\ GetCaller(r)
          /\ pc' = [pc EXCEPT ![r] = "got"]
       \/ /\ MustWait
          /\ pc' = [pc EXCEPT ![r] = "waits"]
          /\ UNCHANGED <<holds, available, caller, q, lost>>
    /\ UNCHANGED <<signalled, answer, gone>>

(* condition::wait takes the signal, and the loop looks again.             *)
Woken(r) ==
    /\ pc[r] = "waits" /\ signalled
    /\ signalled' = FALSE
    /\ \/ /\ ~MustWait
          /\ GetCaller(r)
          /\ pc' = [pc EXCEPT ![r] = "got"]
       \/ /\ MustWait
          /\ UNCHANGED <<pc, holds, available, caller, q, lost>>
    /\ UNCHANGED <<answer, gone>>

Release(r) ==
    /\ pc[r] = "called"
    /\ pc' = [pc EXCEPT ![r] = "done"]
    /\ available' = Append(available, holds[r])
    /\ signalled' = TRUE
    /\ UNCHANGED <<holds, caller, q, answer, lost, gone>>

-----------------------------------------------------------------------------
(* channel: send, recv, on_write, on_read, as operators on a caller's      *)
(* record z; err is "ok", "again" or "fail".                               *)

Outcome(z, err)   == [z |-> z, err |-> err]

(* ~process ends the process and takes the socket's events off the queue.  *)
Reset(z) ==
    [z EXCEPT !.open = FALSE, !.armR = FALSE, !.armW = FALSE, !.state = "dead",
              !.asked = <<>>, !.said = <<>>]
SocketEvents == {"read", "write"}

(* on_write: what is in the buffer goes to the process, or waits.          *)
OnWrite(z) ==
    IF z.state = "dead" THEN Outcome(Reset(z), "fail")
    ELSE IF Len(z.asked) < PairRoom
         THEN Outcome([z EXCEPT !.asked = Append(@, z.out), !.out = None], "ok")
    ELSE Outcome([z EXCEPT !.armW = TRUE], "ok")

ChannelSend(z, r) ==
    IF ~z.open THEN Outcome(z, "fail")
    ELSE IF z.out # None THEN Outcome([z EXCEPT !.must = @ \cup {"send"}], "again")
    ELSE OnWrite([z EXCEPT !.out = r])

OnRead(z) ==
    LET t == [z EXCEPT !.wait = FALSE]
    IN IF z.said # <<>> THEN Outcome([t EXCEPT !.msg = Head(z.said), !.said = Tail(@)], "ok")
       ELSE IF z.state = "dead" THEN Outcome(Reset(t), "fail")
       ELSE Outcome([t EXCEPT !.wait = TRUE, !.armR = TRUE], "ok")

(* recv, of which the caller makes two: one that takes the message and one *)
(* that finds none.  It asks for a read event unless one is awaited.       *)
Received(z) == [z EXCEPT !.msg = None, !.must = @ \cup {"recv"}, !.wait = TRUE]

-----------------------------------------------------------------------------
(* caller                                                                  *)

Event(k, what)     == [to |-> k, what |-> what]
Unsent(s, k, evs)  == Filtered(s, [to : {k}, what : evs])

(* on_error: everything that waits is answered with the default.  rest is  *)
(* the queue without the event that is being handled, if any.              *)
\* mutated form: the requests that have not been sent yet are left
OnErrorSentOnly(k, z, rest) ==
    /\ caller' = [caller EXCEPT ![k] = [Reset(z) EXCEPT !.recvQ = <<>>, !.timer = None]]
    /\ Answered(Range(z.recvQ), Default)
    /\ q' = Unsent(rest, k, SocketEvents)

OnError(k, z, rest) ==
    /\ caller' = [caller EXCEPT ![k] =
                    [Reset(z) EXCEPT !.sendQ = <<>>, !.recvQ = <<>>, !.timer = None]]
    /\ Answered(Range(z.sendQ) \cup Range(z.recvQ), Default)
    /\ q' = Unsent(rest, k, SocketEvents)

(* caller::call, on the thread of the session *)
Call(r) ==
    LET k == holds[r]
        z == [caller[k] EXCEPT !.sendQ = Append(@, r)]
    IN /\ pc[r] = "got"
       /\ pc' = [pc EXCEPT ![r] = "called"]
       /\ \/ /\ ~z.open
             /\ OnError(k, z, q)
          \/ /\ z.open
             /\ caller' = [caller EXCEPT ![k] = z]
             /\ q' = IF Len(z.sendQ) = 1 THEN Append(q, Event(k, "can_send")) ELSE q
             /\ UNCHANGED answer
       /\ UNCHANGED <<holds, available, signalled, lost, gone>>

(* on_can_send: the requests are sent one after the other, until one has   *)
(* to wait or fails.  A turn of its loop:                                  *)
SendNext(l) ==
    LET r == Head(l.z.sendQ)
        t == ChannelSend(l.z, r)
    IN IF l.err # "ok" \/ l.z.sendQ = <<>> THEN l
       ELSE IF r \in gone THEN Outcome([l.z EXCEPT !.sendQ = Tail(@)], "ok")
       ELSE IF t.err = "again" THEN t
       ELSE Outcome([t.z EXCEPT !.sendQ = Tail(@), !.recvQ = Append(@, r),
                            !.timer = IF @ = None THEN r ELSE @], t.err)

OnCanSend(k, z, rest) ==
    LET loop[i \in Nat] == IF i = 0 THEN Outcome(z, "ok") ELSE SendNext(loop[i - 1])
        end == loop[Len(z.sendQ)]
    IN IF end.err = "fail" THEN OnError(k, end.z, rest)
       ELSE /\ caller' = [caller EXCEPT ![k] = end.z]
            /\ q' = rest /\ UNCHANGED answer

(* on_can_recv: the response is for the oldest request; the timer goes on  *)
(* with the deadline of the next.                                          *)
\* mutated form: the timer goes on with the deadline of the one answered
NextDeadlineStale(z) == z.timer

NextDeadline(z) == IF Len(z.recvQ) > 1 THEN z.recvQ[2] ELSE None

\* mutated form: the response is for the request that was sent last
OnCanRecvLast(k, z, rest) ==
    LET n == Len(z.recvQ)
        t == [Received(z) EXCEPT !.recvQ = SubSeq(@, 1, n - 1), !.timer = NextDeadline(z)]
    IN IF ~z.open \/ (z.msg # None /\ z.recvQ = <<>>) THEN OnError(k, z, rest)
       ELSE /\ caller' = [caller EXCEPT ![k] = IF z.msg = None THEN Received(z) ELSE t]
            /\ q' = IF z.wait THEN rest ELSE Append(rest, Event(k, "read"))
            /\ IF z.msg = None THEN UNCHANGED answer
               ELSE Answered({z.recvQ[n]}, z.msg)

OnCanRecv(k, z, rest) ==
    LET t == [Received(z) EXCEPT !.recvQ = Tail(@), !.timer = NextDeadline(z)]
    IN IF ~z.open \/ (z.msg # None /\ z.recvQ = <<>>) THEN OnError(k, z, rest)
       ELSE /\ caller' = [caller EXCEPT ![k] = IF z.msg = None THEN Received(z) ELSE t]
            /\ q' = IF z.wait THEN rest ELSE Append(rest, Event(k, "read"))
            /\ IF z.msg = None THEN UNCHANGED answer
               ELSE Answered({Head(z.recvQ)}, z.msg)

(* channel::operator(): a socket event becomes ready or error for the      *)
(* caller; t is the channel after on_write or on_read.                     *)
Notify(k, t, op, ready, rest) ==
    /\ caller' = [caller EXCEPT ![k] =
                    IF ready /\ t.err = "ok" THEN [t.z EXCEPT !.must = @ \ {op}] ELSE t.z]
    /\ q' = IF t.err = "fail"
            THEN Append(Unsent(rest, k, SocketEvents), Event(k, "error"))
            ELSE IF ready THEN Append(rest, Event(k, IF op = "send" THEN "can_send" ELSE "can_recv"))
            ELSE rest
    /\ UNCHANGED answer

OnChannelWrite(k, z, rest) ==
    LET t == IF z.out = None THEN Outcome(z, "ok") ELSE OnWrite(z)
    IN Notify(k, t, "send", t.z.out = None /\ "send" \in z.must, rest)

OnChannelRead(k, z, rest) ==
    LET t == OnRead(z)
    IN Notify(k, t, "recv", t.z.msg # None /\ "recv" \in t.z.must, rest)

TakeEvent ==
    /\ q # <<>>
    /\ LET k == Head(q).to
           e == Head(q).what
           z == caller[k]
       IN \/ e = "can_send" /\ OnCanSend(k, z, Tail(q))
          \/ e = "can_recv" /\ OnCanRecv(k, z, Tail(q))
          \/ e = "error"    /\ OnError(k, z, Tail(q))
          \/ e = "write"    /\ OnChannelWrite(k, z, Tail(q))
          \/ e = "read"     /\ OnChannelRead(k, z, Tail(q))
    /\ UNCHANGED <<pc, holds, available, signalled, lost, gone>>

(* on_timer: the response has not come in time, for the process is stuck.  *)
TimeOut(k) ==
    /\ caller[k].timer # None /\ caller[k].state # "runs"
    /\ OnError(k, caller[k], q)
    /\ UNCHANGED <<pc, holds, available, signalled, lost, gone>>

-----------------------------------------------------------------------------
(* The socket's events, the process (server::run) and the faults.          *)

SetCaller(k, z, events) ==
    /\ caller' = [caller EXCEPT ![k] = z]
    /\ q' = q \o events
    /\ UNCHANGED <<pc, holds, available, signalled, answer, lost, gone>>

SocketReads(k) ==
    /\ caller[k].armR /\ (caller[k].said # <<>> \/ caller[k].state = "dead")
    /\ SetCaller(k, [caller[k] EXCEPT !.armR = FALSE], <<Event(k, "read")>>)

SocketWrites(k) ==
    /\ caller[k].armW /\ (Len(caller[k].asked) < PairRoom \/ caller[k].state = "dead")
    /\ SetCaller(k, [caller[k] EXCEPT !.armW = FALSE], <<Event(k, "write")>>)

(* The process works on one request at a time and responds to each.        *)
Serve(k) ==
    /\ caller[k].open /\ caller[k].state = "runs" /\ caller[k].asked # <<>>
    /\ SetCaller(k, [caller[k] EXCEPT !.asked = Tail(@), !.said = Append(@, Head(caller[k].asked))],
                 <<>>)

Hang(k) ==
    /\ "hang" \in ProcessFaults /\ caller[k].open /\ caller[k].state = "runs"
    /\ SetCaller(k, [caller[k] EXCEPT !.state = "hangs"], <<>>)

(* What the process has said may be read still, or not.                    *)
Die(k) ==
    /\ "die" \in ProcessFaults /\ caller[k].open /\ caller[k].state # "dead"
    /\ \E said \in {caller[k].said, <<>>} :
         SetCaller(k, [caller[k] EXCEPT !.state = "dead", !.asked = <<>>, !.said = said], <<>>)

(* The session that waits for the response is destroyed.                   *)
SessionEnds(r) ==
    /\ "gone" \in ProcessFaults /\ pc[r] = "done" /\ r \notin gone /\ answer[r] = None
    /\ gone' = gone \cup {r}
    /\ UNCHANGED <<pc, holds, available, signalled, caller, q, answer, lost>>

-----------------------------------------------------------------------------
Thread(r) == Get(r) \/ Woken(r) \/ Call(r) \/ Release(r)
Socket(k) == TimeOut(k) \/ SocketReads(k) \/ SocketWrites(k)

IMNext ==
    \/ \E r \in Requests : Thread(r) \/ SessionEnds(r)
    \/ TakeEvent
    \/ \E k \in Made : Socket(k) \/ Serve(k) \/ Hang(k) \/ Die(k)

IMSpec == IMInit /\ [][IMNext]_IMvars

(* Threads and the loop run, the socket tells, timers fire; each has only  *)
(* so much to do.  A process serves, is stuck or dies.                     *)
IMFairSpec ==
    /\ IMSpec
    /\ WF_IMvars(TakeEvent)
    /\ WF_IMvars(\E r \in Requests : Thread(r))
    /\ WF_IMvars(\E k \in Made : Socket(k))
    /\ WF_IMvars(\E k \in Made : Serve(k) \/ Hang(k) \/ Die(k))

-----------------------------------------------------------------------------
(* Properties.                                                             *)

(* The response that is awaited first has its deadline watched: the timer  *)
(* is started with the first request sent and moves on with each response. *)
OldestIsTimed ==
    \A k \in Made : caller[k].timer =
        IF caller[k].recvQ = <<>> THEN None ELSE Head(caller[k].recvQ)

(* The variables have their types; a caller is held by one thread or       *)
(* available, there are never more than the pool's size of them, and each   *)
(* watches over its oldest request.                                        *)
IMTypeOK ==
    /\ pc \in [Requests -> {"new", "waits", "got", "called", "done"}]
    /\ holds \in [Requests -> 0..Len(caller)]
    /\ signalled \in BOOLEAN
    /\ Len(caller) <= MaxCallers
    /\ \A k \in Made :
        /\ caller[k].timer \in Requests \cup {None}
        /\ Pending(k) \subseteq Requests
        /\ caller[k].state \in {"runs", "hangs", "dead"}
    /\ answer \in [Requests -> Requests \cup {None, Default}]
    /\ lost \subseteq Requests /\ gone \subseteq Requests
    /\ \A r, s \in Requests : {pc[r], pc[s]} \subseteq {"got", "called"} /\ holds[r] = holds[s]
                                => r = s
    /\ InUse \cap Range(available) = {}
    /\ Cardinality(InUse) + Len(available) <= PoolSize
    /\ OldestIsTimed

(* What a receiver is executed with is the response to its own request, or *)
(* the default: responses carry no number, and on_can_recv relies on their *)
(* order, across time-outs, requests that need not be sent and messages    *)
(* that wait for the one before to be written.                             *)
AnswerIsOwn == \A r \in Requests : answer[r] \in {None, Default, r}

(* Whatever the process does, every operation asked for is answered,       *)
(* unless its session is gone or its caller was found dead and erased with *)
(* it; no thread waits for ever for a caller.                              *)
CallIsAnswered ==
    \A r \in Requests : <>(answer[r] # None \/ r \in lost \/ r \in gone)

(* Refuted.  "We cannot satisfy the requests, hence respond with the       *)
(* default values" (caller::on_error): a channel that fails closes first   *)
(* and tells the caller later; a thread that looks for a caller meanwhile  *)
(* erases it, and the requests under way are not answered at all.          *)
NoRequestIsLost == lost = {}
=============================================================================
