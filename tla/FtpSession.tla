----------------------------- MODULE FtpSession -----------------------------
(***************************************************************************)
(* One FTP session: the commander that reads command lines and answers     *)
(* them (ftp/commander.cpp) and the session that owns the data connection  *)
(* and the login (ftp/session.cpp).  Both live on one event loop, so each  *)
(* event handler is one step; what interleaves is the order in which the   *)
(* events arrive: command lines, results of file-system operations, of the *)
(* authenticator and of the host lookup, socket and channel events, timers. *)
(*                                                                         *)
(* The state is one record, st, and a handler is written as the code runs: *)
(* operators from state to state, composed in the order of the calls.      *)
(***************************************************************************)
EXTENDS Integers, Sequences

Seqs == INSTANCE SequencesExt

CONSTANTS
    Cmds,           \* the commands the client of this instance uses
    None,           \* no command
    HostOverride,   \* pasv.host_override is set: PASV looks up a host name
    PortRange,      \* pasv.port_range is set: a port is leased from the pool
    TlsRequired,    \* needs_security_before_user_cmd_
    Preauthorized,  \* start from a session that is logged in
    MaxInbox,       \* bound on the lines the client has sent ahead
    MaxOps          \* bound on the file-system operations, and on the logins,
                    \* in flight

(* Commands by the flags and the shape of their handler. *)
Plain       == {"NOOP", "FEAT", "OPTS", "SYST", "HELP", "CLNT"}
PlainAuth   == {"TYPE", "STRU", "MODE", "PWD", "ALLO"}
PathOps     == {"CWD", "CDUP", "MLST", "SIZE", "MDTM", "MFMT", "DELE", "RMD", "MKD"}
FileCmds    == {"RETR", "STOR", "APPE"}
ListCmds    == {"LIST", "MLSD", "NLST"}
Transfers   == FileCmds \cup ListCmds
Passive     == {"PASV", "EPSV"}
Active      == {"PORT", "EPRT"}
Login       == {"USER", "PASS"}
Security    == {"PBSZ", "PROT"}
AsyncCmds   == PathOps \cup Transfers \cup {"RNFR", "RNTO", "STAT"}
NeedsAuth   == PlainAuth \cup AsyncCmds \cup Passive \cup Active \cup {"ABOR", "REST"}
Wrong       == {"WRONG", "ILLEGAL",   \* not in commands_
                "BLANK"}              \* a line that begins with a space
AllCmds     == Plain \cup NeedsAuth \cup Login \cup Security \cup {"AUTH", "QUIT"} \cup Wrong

ASSUME CmdsAssumption == Cmds \subseteq AllCmds /\ None \notin AllCmds
ASSUME FlagsAssumption ==
    {HostOverride, PortRange, TlsRequired, Preauthorized} \subseteq BOOLEAN
    /\ MaxInbox \in Nat \ {0} /\ MaxOps \in Nat \ {0}

VARIABLE st

Fresh ==
    [ \* commander
      inbox    |-> <<>>,     \* lines in the control channel's input buffer
      stalled  |-> FALSE,    \* the input pipe waits for a consumer event
      wake     |-> FALSE,    \* such an event is on its way
      open     |-> "open",   \* "shut" after shutdown(), "done" after done_event
      cur      |-> None,     \* current_cmd_
      queued   |-> FALSE,    \* a_cmd_has_been_queued_
      recv     |-> "idle",   \* async_receive_.state_
      ops      |-> <<>>,     \* file-system operations in flight
      nested   |-> FALSE,    \* STAT's nested adder is writing
      rename   |-> FALSE,    \* rename_from_ is set
      file     |-> FALSE,    \* buffer_operators_.file_ is open
      epsvOnly |-> FALSE,    \* only_allow_epsv_
      timer    |-> IF Preauthorized THEN "activity" ELSE "login",
      user     |-> Preauthorized,  \* user_ is not empty
      authOp   |-> FALSE,    \* auth_op_
      fails    |-> 0,        \* failure_count_
      owed     |-> 0,        \* history: commands begun minus final replies,
                             \* from -1 to 2, until shutdown()
      torn     |-> FALSE,    \* history: a reply was written into a nested listing
      overtaken |-> FALSE,   \* history: a line was answered before the command that
                             \* was being executed
      tls      |-> "clear",  \* securable_state_ of the control connection: then
                             \* "securing", in the handshake, and "secured"
      \* session
      authed   |-> Preauthorized,  \* session::user_
      protP    |-> FALSE,    \* data_protection_mode_ is P
      authing  |-> 0,        \* authenticator operations in flight
      lsn      |-> "none",   \* data_listen_socket_
      port     |-> "none",   \* data_port_lease_
      sock     |-> "none",   \* data_socket_
      lookup   |-> FALSE,    \* hostname_lookup_ is running
      info     |-> FALSE,    \* data_local_info_handler_
      xfer     |-> None,     \* data_transfer_handler_ and data_adder_/consumer_
      chan     |-> FALSE,    \* data_channel_ runs on data_socket_
      done     |-> "none",   \* channel::done_event in the queue
      shutting |-> FALSE,    \* data_shutting_down_
      shutErr  |-> FALSE,    \* data_socket_shutdown_error_
      prev     |-> FALSE,    \* previous_data_transfer_error_
      ended    |-> FALSE ]   \* ended_event has been sent

Init == st = Fresh

-----------------------------------------------------------------------------
(* Replies.                                                                *)

(* No line is consumed after this, so those in the buffer are gone.        *)
Shutdown(s) ==
    IF s.open = "open"
    THEN [s EXCEPT !.open = "shut", !.inbox = <<>>, !.stalled = FALSE,
                   !.wake = FALSE, !.queued = FALSE]
    ELSE s

Quit(s)     == [s EXCEPT !.ended = TRUE]

(* Five permanent failures in a row before login end the session. *)
CountFailure(s, class) ==
    IF class # 5 THEN [s EXCEPT !.fails = 0]
    ELSE IF s.authed THEN s
    ELSE LET n == IF s.fails < 6 THEN s.fails + 1 ELSE 6
             t == [s EXCEPT !.fails = n]
         IN IF n = 5 THEN Shutdown(t) ELSE t

\* mutated form: the line consumer is not told
DequeueSilently(s) == [s EXCEPT !.queued = FALSE]

Dequeue(s) ==
    IF s.queued THEN [s EXCEPT !.queued = FALSE, !.wake = TRUE] ELSE s

(* act_upon_command_reply; class is the first digit of the reply code.     *)
\* mutated form: a preliminary reply ends the command
RepliedEndsAlways(s, class) ==
    CountFailure([Dequeue(s) EXCEPT !.cur = None,
                    !.owed = IF s.open = "open" /\ @ > -1 THEN @ - 1 ELSE @], class)

Replied(s, class) ==
    LET ended   == [Dequeue(s) EXCEPT !.cur = None,
                      !.owed = IF s.open = "open" /\ @ > -1 THEN @ - 1 ELSE @]
        cleared == IF class = 3 THEN ended ELSE [ended EXCEPT !.file = FALSE]
    IN CountFailure(IF class = 1 THEN s ELSE cleared, class)

(* respond<class..>: the text goes through buffer_stream().                *)
Reply(s, class) == Replied([s EXCEPT !.torn = @ \/ s.nested], class)

-----------------------------------------------------------------------------
(* The data connection.                                                    *)

\* mutated form: data_transfer_handler_ is not reset
CloseKeepsHandler(s) ==
    [s EXCEPT !.done = "none", !.chan = FALSE, !.sock = "none", !.lsn = "none",
              !.port = "none", !.info = FALSE, !.shutting = FALSE]

CloseDataConnection(s) ==
    [s EXCEPT !.done = "none", !.chan = FALSE, !.sock = "none", !.lsn = "none",
              !.port = "none", !.info = FALSE, !.xfer = None, !.shutting = FALSE]

(* commander::handle_data_transfer *)
TransferReply(s, status, err) ==
    IF err THEN Reply(s, 4)
    ELSE IF status = "started" THEN Reply(s, 1)
    ELSE IF status = "stopped" THEN Reply(s, 2)
    ELSE s

\* mutated form: only the end of a transfer closes the data connection
HandleDataTransferOpen(s, status, err) ==
    LET failed == err \/ (s.xfer # None /\ s.prev)
        told   == IF s.xfer # None
                  THEN [TransferReply(s, status, failed) EXCEPT !.prev = FALSE]
                  ELSE [s EXCEPT !.prev = err]
    IN IF status = "stopped" THEN CloseDataConnection(told) ELSE told

(* session::handle_data_transfer: an error that finds no transfer to blame *)
(* is kept for the next one.                                               *)
HandleDataTransfer(s, status, err) ==
    LET failed == err \/ (s.xfer # None /\ s.prev)
        told   == IF s.xfer # None
                  THEN [TransferReply(s, status, failed) EXCEPT !.prev = FALSE]
                  ELSE [s EXCEPT !.prev = err]
    IN IF failed \/ status = "stopped" THEN CloseDataConnection(told) ELSE told

(* setup_data_channel, but for the synchronous failure of connect(). *)
SetupFails(s) == s.sock = "none" /\ s.lsn = "none"

\* A data connection in clear beside a control connection that is secure.
ProtCRefused(s) == s.tls = "secured" /\ ~s.protP /\ s.sock \notin {"none", "fresh"}

\* mutated form: the channel is set up before there is a transfer
SetupEarly(s) ==
    IF s.sock = "fresh" THEN [s EXCEPT !.sock = "connecting"]
    ELSE IF ProtCRefused(s) THEN HandleDataTransfer(s, "started", TRUE)
    ELSE IF s.sock = "connected" /\ s.protP THEN [s EXCEPT !.sock = "securing"]
    ELSE IF s.sock \in {"connected", "secured"} THEN [s EXCEPT !.chan = TRUE]
    ELSE IF SetupFails(s) THEN HandleDataTransfer(s, "connecting", TRUE)
    ELSE s

SetupDataChannel(s) ==
    IF s.sock = "fresh" THEN [s EXCEPT !.sock = "connecting"]
    ELSE IF ProtCRefused(s) THEN HandleDataTransfer(s, "started", TRUE)
    ELSE IF s.sock = "connected" /\ s.protP THEN [s EXCEPT !.sock = "securing"]
    ELSE IF s.sock = "secured" \/ (s.sock \in {"connecting", "connected"} /\ ~s.protP)
         THEN [s EXCEPT !.chan = (s.xfer # None)]
    ELSE IF SetupFails(s) THEN HandleDataTransfer(s, "connecting", TRUE)
    ELSE s

StartDataTransfer(s, c, connects) ==
    LET begun == [s EXCEPT !.xfer = c]
    IN IF s.sock = "fresh" /\ ~connects
       THEN HandleDataTransfer(begun, "connecting", TRUE)
       ELSE IF SetupFails(s) \/ ProtCRefused(s) THEN SetupDataChannel(begun)
       ELSE HandleDataTransfer(SetupDataChannel(begun), "started", FALSE)

(* get_data_local_info: what is left of an attempt that fails differs with *)
(* the point of failure.                                                   *)
Listened(s, leased) ==
    [s EXCEPT !.lsn = "listening", !.port = IF leased THEN "waiting" ELSE "none"]

GetDataLocalInfo(s, resolve, result) ==
    LET new == [s EXCEPT !.prev = FALSE, !.sock = "none", !.lsn = "created"]
        up  == Listened(new, PortRange)
    IN CASE result = "ticketFails" -> Quit(s)
         [] result = "bindFails"   -> Reply(new, 4)
         [] result = "listenFails" ->
              Reply([new EXCEPT !.port = IF PortRange THEN "none" ELSE @], 4)
         [] result = "lastTry"     -> Reply(up, 4)
         [] result = "listens" /\ ~resolve -> Reply(up, 2)
         [] result = "listens" /\ resolve  -> [up EXCEPT !.lookup = TRUE, !.info = TRUE]
         [] result = "lookupFails" -> Reply([up EXCEPT !.lookup = FALSE, !.info = FALSE], 4)

ListenResults(s, resolve) ==
    {"bindFails", "listenFails", "listens"}
      \cup (IF PortRange THEN {"lastTry"} ELSE {})
      \cup (IF s.tls = "secured" THEN {"ticketFails"} ELSE {})
      \cup (IF resolve THEN {"lookupFails"} ELSE {})

SetDataPeer(s, result) ==
    LET new == [s EXCEPT !.prev = FALSE, !.lsn = "none"]
    IN CASE result = "binds"       -> Reply([new EXCEPT !.sock = "fresh"], 2)
         [] result = "bindFails"   -> Reply([new EXCEPT !.sock = "none"], 4)
         [] result = "ticketFails" -> Reply(Quit(s), 4)

PeerResults(s) ==
    {"binds", "bindFails"} \cup (IF s.tls = "secured" THEN {"ticketFails"} ELSE {})

-----------------------------------------------------------------------------
(* The commands.  Each operator gives the set of states a handler can      *)
(* leave, over the arguments the client may have sent and over what the    *)
(* system calls it makes may return.                                       *)

Answers(s, classes) == {Reply(s, class) : class \in classes}

(* The file-system engine is asked; async_receive_ takes its answer.       *)
Ask(s, c) == [s EXCEPT !.recv = "pending", !.ops = Append(@, c)]

StopLoginTimer(s) == [s EXCEPT !.timer = "none"]

User(s) ==
    IF s.authed \/ (TlsRequired /\ s.tls # "secured") THEN Answers(s, {5})
    ELSE {[StopLoginTimer(s) EXCEPT !.user = TRUE, !.authOp = FALSE, !.authing = @ + 1],
          Reply(s, 5)}   \* no argument

(* handle_authenticate_user_response                                       *)
\* mutated form: the login timer is not started again
RefusedUntimed(s, class) == Reply([s EXCEPT !.user = FALSE], class)

Refused(s, class) ==
    [Reply([s EXCEPT !.user = FALSE], class) EXCEPT !.timer = "login"]

Pass(s) ==
    IF ~s.user \/ s.authed THEN Answers(s, {5})
    ELSE IF ~s.authOp THEN {Refused(s, 5)}
    ELSE {[StopLoginTimer(s) EXCEPT !.authOp = FALSE, !.authing = @ + 1],
          Refused([StopLoginTimer(s) EXCEPT !.authOp = FALSE], 5)}

(* The session's user_ becomes what the commander makes of the result,     *)
(* which is nobody unless the command is still PASS.                       *)
AuthAnswers(s) ==
    LET told == [s EXCEPT !.authing = @ - 1]
    IN IF s.cur # "PASS"
       THEN {[Reply([told EXCEPT !.timer = "login"], 3) EXCEPT !.authOp = TRUE, !.authed = FALSE]}
       ELSE {Reply([told EXCEPT !.timer = "activity", !.authed = TRUE, !.protP = p], 2) :
               p \in {s.protP, s.tls = "secured"}}   \* P if the ALPN is FileZilla's
            \cup {[Refused(told, class) EXCEPT !.authed = FALSE] : class \in {4, 5}}

(* Only STAT nests, and its end-of-file handler asks whether ABOR is what  *)
(* stops it.                                                               *)
Abor(s) ==
    IF s.nested
    THEN {Reply(Reply(CloseDataConnection(Replied([s EXCEPT !.nested = FALSE], 2)), 4), 2)}
    ELSE Answers(s, {2})

\* AUTH; the reply goes out before the handshake, as its preamble.
Secure(s) ==
    Answers(s, {5})   \* no such type, secured already, no certificate
      \cup (IF s.tls = "clear" THEN {[Replied(s, 2) EXCEPT !.tls = "securing"]} ELSE {})

Execute(s, c) ==
    CASE c \in Plain \cup PlainAuth -> Answers(s, {2, 5})
      [] c = "QUIT" -> {Shutdown(Reply(s, 2))}
      [] c = "REST" -> Answers(s, {3, 5})
      [] c = "AUTH" -> Secure(s)
      [] c = "PBSZ" -> Answers(s, {2, 5})
      [] c = "PROT" -> {Reply([s EXCEPT !.protP = TRUE], 2), Reply(s, 5)}
      [] c = "USER" -> User(s)
      [] c = "PASS" -> Pass(s)
      [] c = "ABOR" -> Abor(s)
      [] c = "RNTO" -> IF s.rename THEN {Ask(s, c)} ELSE Answers(s, {5})
      [] c = "STAT" -> {Ask(s, c)} \cup Answers(s, {2})
      [] c \in AsyncCmds \ {"RNTO", "STAT"} -> {Ask(s, c)} \cup Answers(s, {5})
      [] c \in Active ->
           Answers(s, {5})
             \cup (IF s.epsvOnly THEN {} ELSE {SetDataPeer(s, r) : r \in PeerResults(s)})
      [] c = "PASV" ->
           Answers(s, {5})
             \cup (IF s.epsvOnly THEN {}
                   ELSE {GetDataLocalInfo(s, HostOverride, r) :
                           r \in ListenResults(s, HostOverride)})
      [] c = "EPSV" ->
           Answers(s, {5}) \cup {Reply([s EXCEPT !.epsvOnly = TRUE], 2)}
             \cup {GetDataLocalInfo(s, FALSE, r) : r \in ListenResults(s, FALSE)}

Begin(s, c) ==
    [s EXCEPT !.cur = c, !.owed = IF @ < 2 THEN @ + 1 ELSE @,
              !.overtaken = @ \/ s.cur # None]

Accept(s, c) ==
    LET begun == Begin(s, c)
    IN IF c \in NeedsAuth /\ ~s.authed THEN Answers(begun, {5})
       ELSE IF c = "AUTH" /\ s.inbox # <<>>
            THEN {Reply(begun, 5), Shutdown(Reply(begun, 5))}   \* no argument, data behind it
       ELSE IF c \in Security /\ s.tls # "secured" THEN Answers(begun, {5})
       ELSE IF c \in Transfers /\ SetupFails(s) THEN Answers(begun, {4, 5})
       ELSE Execute(begun, c)

(* The line stays in the buffer until the consumer is woken.               *)
Stall(s)    == [s EXCEPT !.stalled = TRUE, !.wake = FALSE]
QueueNew(s) == [Stall(s) EXCEPT !.queued = TRUE]
Consumed(s) == [s EXCEPT !.inbox = Tail(@), !.stalled = FALSE, !.wake = FALSE]

Uninterruptible == {"ABOR", "USER", "PASS"}

(* commander::process_buffer_line.  A line that begins with a space is     *)
(* ignored if nothing follows, and refused if something does; neither asks *)
(* whether a command is being executed.                                    *)
LineOutcomes(s, c) ==
    CASE c = "BLANK" -> {Consumed(s), Reply(Begin(Consumed(s), s.cur), 5)}
      [] c = "ILLEGAL" -> {Shutdown(Reply(Begin(Consumed(s), s.cur), 5))}
      [] c \notin {"BLANK", "ILLEGAL", "ABOR"} /\ s.cur # None -> {QueueNew(s)}
      [] c = "WRONG" /\ s.cur = None -> Answers(Begin(Consumed(s), None), {5})
      [] c = "ABOR" /\ s.cur \in Uninterruptible -> {QueueNew(s)}
      [] c = "ABOR" /\ s.cur \notin Uninterruptible /\ s.recv = "pending" ->
           {[Stall(s) EXCEPT !.recv = "aborting"]}
      [] OTHER -> Accept(Consumed(s), c)

-----------------------------------------------------------------------------
(* The events.                                                             *)

ClientSends ==
    /\ st.open = "open" /\ ~st.ended /\ Len(st.inbox) < MaxInbox
    /\ st.tls # "securing"   \* what arrives then is the handshake
    /\ \E c \in Cmds : st' = [st EXCEPT !.inbox = Append(@, c)]

ProcessLine ==
    /\ st.open = "open" /\ st.inbox # <<>>
    /\ ~st.stalled \/ st.wake
    /\ st' \in LineOutcomes(st, Head(st.inbox))
    /\ Len(st'.ops) <= MaxOps /\ st'.authing <= MaxOps

(* async_abortable_receive: the answer of a file-system operation.  After  *)
(* an abort the answer is thrown away, the file it opened is not.          *)
OpOutcomes(s, c) ==
    CASE c \in PathOps -> Answers(s, {2, 5})
      [] c = "RNFR" -> {Reply([s EXCEPT !.rename = TRUE], 3), Reply(s, 5)}
      [] c = "RNTO" -> {[t EXCEPT !.rename = FALSE] : t \in Answers(s, {2, 5})}
      [] c = "STAT" -> {[s EXCEPT !.nested = TRUE], Reply(s, 5)}
      [] c \in Transfers ->
           {StartDataTransfer([s EXCEPT !.file = @ \/ c \in FileCmds], c, connects) :
              connects \in BOOLEAN} \cup Answers(s, {5})

Discarded(s, c) ==
    {[s EXCEPT !.wake = s.stalled, !.file = opened] :
        opened \in IF c \in FileCmds THEN BOOLEAN ELSE {s.file}}

OpResult ==
    \E i \in DOMAIN st.ops :
       LET c == st.ops[i]
           s == [st EXCEPT !.ops = Seqs!RemoveAt(@, i)]
       IN \E t \in IF st.recv = "aborting" THEN Discarded(s, c) ELSE OpOutcomes(s, c) :
            st' = [t EXCEPT !.recv = "idle"]

(* streamed_adder::add_to_buffer reaches the end of STAT's listing.        *)
NestedDone == st.nested /\ st' = Replied([st EXCEPT !.nested = FALSE], 2)

AuthResult == st.authing # 0 /\ st' \in AuthAnswers(st)

(* session::on_hostname_lookup_event; a null handler or socket is          *)
(* dereferenced, and the process ends.                                     *)
LookupEvent ==
    /\ st.lookup
    /\ LET s == [st EXCEPT !.lookup = FALSE, !.info = FALSE]
       IN IF st.info /\ st.lsn # "none" THEN st' \in Answers(s, {2, 4})
          ELSE st' = Fresh

(* session::on_socket_event, for the sockets of the data connection.       *)
PeerConnects ==
    /\ st.lsn = "listening"
    /\ \/ st' = SetupDataChannel([st EXCEPT
                  !.lsn = "none", !.sock = "connected",
                  !.port = IF @ = "waiting" THEN "connected" ELSE @])
       \/ st' = HandleDataTransfer(st, "connecting", TRUE)  \* accept or peer address

ConnectDone ==
    /\ st.sock = "connecting" /\ ~st.chan
    /\ \/ st' = SetupDataChannel([st EXCEPT !.sock = "connected", !.lsn = "none"])
       \/ st' = HandleDataTransfer(st, "connecting", TRUE)

HandshakeDone ==
    /\ st.sock = "securing"
    /\ \/ st' = SetupDataChannel([st EXCEPT !.sock = "secured", !.lsn = "none"])
       \/ st' = HandleDataTransfer(st, "connecting", TRUE)

DataSocketError ==
    /\ st.sock \in {"connected", "secured"} /\ ~st.chan
    /\ st.done = "none"
    /\ st' = HandleDataTransfer(st, "connecting", TRUE)

(* channel::done: the channel lets go of the socket and tells the session. *)
ChannelDone ==
    /\ st.chan /\ st.sock # "none"   \* a destroyed socket sends no event
    /\ \E how \in {"ok", "err"} : st' = [st EXCEPT !.chan = FALSE, !.done = how]

(* session::data_socket_shutdown                                           *)
StopDataTransfer(s, err) == HandleDataTransfer(s, "stopped", err)

DoneEvent ==
    /\ st.done # "none"
    /\ LET s == [st EXCEPT !.done = "none"]
           err == st.done = "err"
       IN IF st.sock = "none" THEN st' = s
          ELSE \/ st' = [s EXCEPT !.shutting = TRUE, !.shutErr = err]  \* EAGAIN
               \/ st' = StopDataTransfer([s EXCEPT !.shutting = TRUE], err)

ShutdownDone ==
    /\ st.shutting /\ st.sock # "none" /\ st.done = "none"
    /\ st' = StopDataTransfer(st, st.shutErr)

(* commander::on_timer_event: the client is told, unless that would be in  *)
(* the middle of the TLS handshake.                                        *)
Timeout(s) ==
    LET over == [s EXCEPT !.timer = "none"]
    IN IF s.tls = "securing" THEN Quit(over) ELSE Shutdown(Reply(over, 4))

LoginTimer ==
    /\ st.timer # "none" /\ ~st.authed
    /\ st' = Timeout([st EXCEPT !.authing = 0, !.authOp = FALSE])

ActivityTimer ==
    /\ st.timer # "none" /\ st.authed
    /\ st' = Timeout(st)

(* The administrator changes the timeouts (session::set_timeouts).         *)
SetTimeouts ==
    /\ st.open # "done"
    /\ st' = [st EXCEPT !.timer = IF st.authed THEN "activity" ELSE "login"]

(* The TLS layer of the control connection is connected; if that fails, so *)
(* does the channel.                                                       *)
ControlSecured ==
    /\ st.tls = "securing" /\ st.open # "done"
    /\ st' = [st EXCEPT !.tls = "secured"]

(* The control channel is done, by the client or after shutdown().         *)
ControlDone ==
    /\ st.open # "done"
    /\ st' = [Quit(Shutdown(st)) EXCEPT !.open = "done"]

(* The user is removed from the configuration.                             *)
UserRemoved == st.authed /\ ~st.ended /\ st' = Quit(st)

(* The server handles ended_event and destroys the session; another one    *)
(* begins in its place.                                                    *)
Destroy == st.ended /\ st' = Fresh

Next ==
    \/ ClientSends \/ ProcessLine \/ OpResult \/ NestedDone \/ AuthResult
    \/ LookupEvent \/ PeerConnects \/ ConnectDone \/ HandshakeDone
    \/ DataSocketError \/ ChannelDone \/ DoneEvent \/ ShutdownDone
    \/ LoginTimer \/ ActivityTimer \/ SetTimeouts \/ ControlDone
    \/ ControlSecured
    \/ UserRemoved \/ Destroy

Spec == Init /\ [][Next]_st

-----------------------------------------------------------------------------
(* Fairness: the system answers what it was asked (the file-system engine, *)
(* the authenticator, the resolver), the event loop delivers what is       *)
(* queued, and a client that was told to connect does.  Nothing makes a    *)
(* timer fire, and the client need not send anything.                      *)
Fairness ==
    /\ WF_st(ProcessLine) /\ WF_st(OpResult) /\ WF_st(NestedDone)
    /\ WF_st(AuthResult) /\ WF_st(LookupEvent) /\ WF_st(PeerConnects)
    /\ WF_st(ConnectDone) /\ WF_st(HandshakeDone) /\ WF_st(ChannelDone)
    /\ WF_st(DoneEvent) /\ WF_st(ShutdownDone)

FairSpec == Spec /\ Fairness

-----------------------------------------------------------------------------
(* Properties.                                                             *)

Live == st.open = "open" /\ ~st.ended

(* The login timer runs whenever the session waits for the client to log   *)
(* in, the activity timer once it has.                                     *)
SomeTimerRuns ==
    Live => /\ ~st.authed /\ st.authing = 0 => st.timer = "login"
            /\ st.authed => st.timer = "activity"

(* Every component of the session's state stays in its range, an event for *)
(* the line consumer is on its way only while a line is stalled, and the   *)
(* session never waits for the client without a timer.                     *)
TypeOK ==
    /\ st.inbox \in Seq(AllCmds) /\ Len(st.inbox) <= MaxInbox
    /\ st.open \in {"open", "shut", "done"}
    /\ st.cur \in AllCmds \cup {None} /\ st.xfer \in Transfers \cup {None}
    /\ st.tls \in {"clear", "securing", "secured"} /\ st.protP \in BOOLEAN
    /\ st.recv \in {"idle", "pending", "aborting"}
    /\ st.ops \in Seq(AsyncCmds) /\ Len(st.ops) <= MaxOps
    /\ st.timer \in {"none", "login", "activity"}
    /\ st.fails \in 0..6 /\ st.owed \in -1..2
    /\ st.lsn \in {"none", "created", "listening"}
    /\ st.port \in {"none", "waiting", "connected"}
    /\ st.sock \in {"none", "fresh", "connecting", "connected", "securing", "secured"}
    /\ st.done \in {"none", "ok", "err"}
    /\ st.authing \in 0..MaxOps
    /\ {st.stalled, st.wake, st.queued, st.nested, st.rename, st.file, st.epsvOnly,
        st.user, st.authOp, st.torn, st.overtaken, st.authed, st.lookup, st.info, st.chan,
        st.shutting, st.shutErr, st.prev, st.ended} \subseteq BOOLEAN
    /\ st.wake \/ st.queued => st.stalled
    /\ SomeTimerRuns

(* ABOR, and a line that begins with a space, are answered while another   *)
(* command is being executed, and its own answer, if it comes, comes       *)
(* later.  What a client may rely on, it may rely on until then.           *)
Promised == Live /\ ~st.overtaken

(* Between two commands nothing is owed, during one exactly one final      *)
(* reply is, however the results of earlier work arrive.                   *)
OneAnswerEach == Promised => st.owed = IF st.cur = None THEN 0 ELSE 1

(* The session keeps the promise of FtpDialogue: its command and its        *)
(* transfer are those of the dialogue as long as the control connection is *)
(* open, the session has not asked to end and no command was overtaken.    *)
Dialogue == INSTANCE FtpDialogue WITH
    Commands <- AllCmds, TransferCommands <- Transfers,
    command <- IF Promised THEN st.cur ELSE None,
    marked  <- Promised /\ st.xfer # None,
    closed  <- ~Promised
KeepsDialogue == Dialogue!Spec

(* Nothing that was sent in clear is left for the time after the TLS       *)
(* handshake, when it would be taken for something sent under TLS.         *)
ClearIsNotKept == st.tls = "securing" => st.inbox = <<>>

(* What the session still does for a client, it does for the command that  *)
(* is being executed: the operation in flight, the transfer, the file; and *)
(* no line is executed as if it had come under TLS that has not.           *)
WorkBelongsToCommand ==
    /\ Promised =>
         /\ st.ops # <<>> => st.ops = <<st.cur>>
         /\ st.xfer # None => st.cur = st.xfer
         /\ st.file => st.cur \in FileCmds
         /\ st.nested => st.cur = "STAT"
         /\ st.authing # 0 => st.authing = 1 /\ st.cur \in Login
    /\ ClearIsNotKept

(* The channel runs on a data socket that exists, for a transfer, and what *)
(* it reports is about that socket.                                        *)
ChannelHasSocket ==
    st.chan \/ st.done # "none" => st.sock # "none" /\ st.xfer # None

(* An error kept for the next transfer never meets a new data connection.  *)
NoStaleError == st.prev => st.sock = "none" /\ st.lsn = "none"

(* A socket that listens on a port of the range holds a lease that waits   *)
(* for a connection.  (The converse fails: PORT keeps the lease of PASV.)  *)
LeaseOfListener == PortRange /\ st.lsn = "listening" => st.port = "waiting"

(* Beside a control connection under TLS no data is moved in clear, even   *)
(* if the data connection is older than that.                              *)
DataIsProtected == st.chan => (st.tls = "secured") = (st.sock = "secured")

(* The parts of the data connection (listening socket, lease, socket,      *)
(* channel, error, protection) agree whichever of them is replaced, by     *)
(* whichever of PORT, PASV, AUTH, a transfer, its end and its failure.     *)
DataConnectionAgrees ==
    /\ ~st.overtaken => ChannelHasSocket /\ NoStaleError /\ DataIsProtected
    /\ LeaseOfListener

(* A line that was put off is taken up again.                              *)
StalledLineIsTaken == st.stalled ~> ~st.stalled

(* A command that needs an operation, a login or a transfer is answered,   *)
(* unless the session ends first.                                          *)
CommandIsAnswered == (st.cur # None) ~> (st.cur = None \/ ~Live)

(* Whatever the client sends, every line is taken and every command        *)
(* answered.                                                               *)
LinesAreAnswered == StalledLineIsTaken /\ CommandIsAnswered

-----------------------------------------------------------------------------
(* Statements of the repository that the code does not keep.               *)

(* commander.cpp, queue_new_cmd: "Queuing the new one until the current    *)
(* one is finished."  Between two commands nothing is under way.           *)
CommandIsFinished == Live /\ st.cur = None => st.ops = <<>> /\ st.xfer = None

(* streamed_adder.hpp: "You must not invoke buffer_stream() when           *)
(* processing a nested adder."                                             *)
NoReplyInsideListing == ~st.torn

(* session.cpp, on_hostname_lookup_event: assert(data_local_info_handler_  *)
(* != nullptr && data_listen_socket_ != nullptr).                          *)
LookupHasHandler == st.lookup => st.info /\ st.lsn # "none"

(* session.cpp, on_channel_done_event, when the socket is gone: "the       *)
(* done_event should have been removed. This is likely a bug."             *)
DoneEventFindsSocket == st.done # "none" => st.sock # "none"

(* commander.cpp, ABOR: "Data connection closed; transfer aborted."  After *)
(* ABOR is answered no transfer goes on.                                   *)
AbortedTransferIsClosed == Live /\ st.cur = None => st.xfer = None

(* session.cpp, setup_data_channel: "Are we actually passively waiting for *)
(* somebody to connect to us?"  A transfer waits only if so.               *)
WaitsForSomebody ==
    Live /\ st.xfer # None /\ st.sock = "none" => st.lsn = "listening"

(* NEWS: "Improved login timeout handling to exclude internal server       *)
(* processing time."                                                       *)
LoginTimeExcludesServer == st.authing # 0 => st.timer # "login"
=============================================================================
