----------------------------- MODULE TcpServer -----------------------------
(***************************************************************************)
(* The listeners and the session registry of a TCP server                   *)
(* (src/src/filezilla/tcp/listener.cpp, listener.hpp, server.cpp), with the *)
(* bans that keep peers out (tcp/session.cpp, authentication/autobanner.cpp,*)
(* ftp/server.cpp, server/administrator.cpp).                               *)
(*                                                                          *)
(* Three kinds of thread meet here.  The listeners' own event loop accepts  *)
(* sockets.  The server's event loop turns them into sessions, buries the   *)
(* sessions that ended and runs the administration commands.  The sessions  *)
(* run on the loops of the event loop pool.  A handler that runs entirely   *)
(* under one mutex is one step; one that lets go of it is several.          *)
(***************************************************************************)
EXTENDS Integers, Sequences, FiniteSets, SequencesExt

CONSTANTS
    Listeners,         \* the addresses the administrator may configure
    Conns,             \* the peers' connections
    Ips,               \* their addresses
    IpOf,              \* [Conns -> Ips]
    DrainMax,          \* sockets taken before the loop is given back (10 in the code)
    SizeMax,           \* the largest std::size_t
    MaxQuits,          \* bound: times some session is told that its user is gone
    RemovesListeners   \* whether the administrator removes listeners at run time

ASSUME TcpServerAssumption ==
    /\ IsFiniteSet(Conns)
    /\ IpOf \in [Conns -> Ips]
    /\ DrainMax \in Nat \ {0}
    /\ SizeMax \in Nat /\ SizeMax >= Cardinality(Conns)
    /\ MaxQuits \in Nat
    /\ RemovesListeners \in BOOLEAN

VARIABLES
    running,     \* listeners_manager::is_running_
    listeners,   \* the listener objects that exist
    open,        \* [Listeners -> BOOLEAN]: listen_socket_ is there
    status,      \* [Listeners -> status_]
    timer,       \* [Listeners -> BOOLEAN]: the retry timer is armed
    accepted,    \* [Listeners -> Seq(Conns)]: accepted_
    lpc,         \* what the listeners' event loop is doing
    spc,         \* what the server's event loop is doing
    queue,       \* the events waiting in the server's event loop
    conn,        \* [Conns -> where the connection is]
    via,         \* [Conns -> the listener it came through]
    num,         \* num_sessions_
    quits,       \* times a session was told that its user is gone
    banned,      \* the addresses is_peer_allowed() refuses
    early,       \* history: connections let in before their address was banned
    crashed      \* an object was used after its destruction

vars == <<running, listeners, open, status, timer, accepted, lpc, spc, queue,
          conn, via, num, quits, banned, early, crashed>>

listenVars == <<listeners, open, status, timer>>
banVars    == <<banned, early>>

ConnectedEvent(l) == [type |-> "connected", of |-> l]
EndedEvent(c)     == [type |-> "ended", of |-> c]
BannedEvent(ip)   == [type |-> "banned", of |-> ip]

Sessions == {c \in Conns : conn[c] \in {"live", "closing", "ended"}}

Idle == [at |-> "idle"]

Init ==
    /\ running = FALSE
    /\ listeners \in SUBSET Listeners
    /\ open = [l \in Listeners |-> FALSE]
    /\ status = [l \in Listeners |-> "stopped"]
    /\ timer = [l \in Listeners |-> FALSE]
    /\ accepted = [l \in Listeners |-> <<>>]
    /\ lpc = Idle
    /\ spc = Idle
    /\ queue = <<>>
    /\ conn = [c \in Conns |-> "away"]
    /\ via \in [Conns -> Listeners]
    /\ num = 0
    /\ quits = 0
    /\ banned = {}
    /\ early = {}
    /\ crashed = FALSE

----------------------------------------------------------------------------
(* The operating system                                                     *)

\* A peer connects: its connection waits in the kernel's backlog.
Knock(c, l) ==
    /\ conn[c] = "away" /\ open[l] /\ status[l] = "started"
    /\ conn' = [conn EXCEPT ![c] = "knocking"]
    /\ via' = [via EXCEPT ![c] = l]
    /\ UNCHANGED <<running, listenVars, accepted, lpc, spc, queue, num, quits,
                   banVars, crashed>>

\* An id is never used twice, so a peer comes back as somebody else.
Leave(c) ==
    /\ conn[c] = "gone" /\ ~ Contains(queue, EndedEvent(c))
    /\ conn' = [conn EXCEPT ![c] = "away"]
    /\ early' = early \ {c}
    /\ UNCHANGED <<running, listenVars, accepted, lpc, spc, queue, via, num, quits,
                   banned, crashed>>

----------------------------------------------------------------------------
(* The listeners' event loop                                                *)

\* listener::operator(): only the status is looked at under the mutex.
EnterAccept(l) ==
    /\ lpc = Idle
    /\ l \in listeners /\ open[l] /\ status[l] # "stopped"
    /\ \E c \in Conns :
        /\ conn[c] = "knocking" /\ via[c] = l
        /\ lpc' = [at |-> "accept", l |-> l, c |-> c]
    /\ UNCHANGED <<running, listenVars, accepted, spc, queue, conn, via, num,
                   quits, banVars, crashed>>

\* on_socket_event(): accept(), which may fail, and is_peer_allowed(), under no
\* mutex of the listener's: stop() may have taken the socket away meanwhile.
Accept ==
    /\ lpc.at = "accept"
    /\ IF ~ open[lpc.l]
       THEN crashed' = TRUE /\ UNCHANGED <<lpc, conn>>
       ELSE \/ /\ IpOf[lpc.c] \notin banned
               /\ conn' = [conn EXCEPT ![lpc.c] = "checked"]
               /\ lpc' = [lpc EXCEPT !.at = "push"]
               /\ UNCHANGED crashed
            \/ /\ conn' = [conn EXCEPT ![lpc.c] = "gone"]
               /\ lpc' = Idle
               /\ UNCHANGED crashed
    /\ UNCHANGED <<running, listenVars, accepted, spc, queue, via, num, quits, banVars>>

\* on_socket_event(): the socket is queued under the mutex.
Push ==
    /\ lpc.at = "push"
    /\ accepted' = [accepted EXCEPT ![lpc.l] = Append(@, lpc.c)]
    /\ conn' = [conn EXCEPT ![lpc.c] = "waiting"]
    /\ lpc' = IF Len(accepted'[lpc.l]) = 1
              THEN [at |-> "send", l |-> lpc.l]
              ELSE Idle
    /\ UNCHANGED <<running, listenVars, spc, queue, via, num, quits, banVars, crashed>>

\* on_socket_event(): the event is sent after the mutex was released.
Send ==
    /\ lpc.at = "send"
    /\ queue' = Append(queue, ConnectedEvent(lpc.l))
    /\ lpc' = Idle
    /\ UNCHANGED <<running, listenVars, accepted, spc, conn, via, num, quits,
                   banVars, crashed>>

EnterRetry(l) ==
    /\ lpc = Idle
    /\ l \in listeners /\ timer[l] /\ status[l] # "stopped"
    /\ timer' = [timer EXCEPT ![l] = FALSE]
    /\ lpc' = [at |-> "listen", l |-> l]
    /\ UNCHANGED <<running, listeners, open, status, accepted, spc, queue, conn,
                   via, num, quits, banVars, crashed>>

\* Mutated form: the timer is only armed when the status changes.
TryListenOnce(l, ok) ==
    /\ status' = [status EXCEPT ![l] = IF ok THEN "started" ELSE "retrying"]
    /\ timer' = [timer EXCEPT ![l] = ~ ok /\ status[l] # "retrying"]

\* try_listen(): bind() works or the retry timer is armed.
TryListen(l, ok) ==
    /\ status' = [status EXCEPT ![l] = IF ok THEN "started" ELSE "retrying"]
    /\ timer' = [timer EXCEPT ![l] = ~ ok]

Retry ==
    /\ lpc.at = "listen"
    /\ IF ~ open[lpc.l]
       THEN crashed' = TRUE /\ UNCHANGED <<lpc, status, timer>>
       ELSE /\ \E ok \in BOOLEAN : TryListen(lpc.l, ok)
            /\ lpc' = Idle
            /\ UNCHANGED crashed
    /\ UNCHANGED <<running, listeners, open, accepted, spc, queue, conn, via, num,
                   quits, banVars>>

----------------------------------------------------------------------------
(* The server's event loop: sessions                                        *)

\* server::on_connected_event() starts to empty the listener's queue.
OnConnected ==
    /\ spc = Idle /\ queue # <<>> /\ Head(queue).type = "connected"
    /\ queue' = Tail(queue)
    /\ LET l == Head(queue).of IN
        IF l \notin listeners
        THEN crashed' = TRUE /\ UNCHANGED spc
        ELSE spc' = [at |-> "drain", l |-> l, left |-> DrainMax] /\ UNCHANGED crashed
    /\ UNCHANGED <<running, listenVars, accepted, lpc, conn, via, num, quits, banVars>>

\* One round of its loop: get_socket(), make_session(), the registration.
\* loop_count wraps when it is decremented past zero: it is not tested again.
Drain ==
    /\ spc.at = "drain"
    /\ IF accepted[spc.l] = <<>>
       THEN /\ spc' = Idle
            /\ UNCHANGED <<accepted, conn, num>>
       ELSE /\ accepted' = [accepted EXCEPT ![spc.l] = Tail(@)]
            /\ conn' = [conn EXCEPT ![Head(accepted[spc.l])] = "live"]
            /\ num' = (num + 1) % (SizeMax + 1)
            /\ spc' = IF spc.left = 1
                      THEN [spc EXCEPT !.at = "look", !.left = 0]
                      ELSE [spc EXCEPT !.left = IF @ = 0 THEN 0 ELSE @ - 1]
    /\ UNCHANGED <<running, listenVars, lpc, queue, via, quits, banVars, crashed>>

\* Mutated form: the loop is given back without another event.
LookAndLeave ==
    /\ spc.at = "look"
    /\ spc' = IF accepted[spc.l] # <<>> THEN Idle ELSE [spc EXCEPT !.at = "drain"]
    /\ UNCHANGED <<running, listenVars, accepted, lpc, queue, conn, via, num, quits,
                   banVars, crashed>>

\* has_socket(), when it is time to give the loop back.
Look ==
    /\ spc.at = "look"
    /\ IF accepted[spc.l] # <<>>
       THEN queue' = Append(queue, ConnectedEvent(spc.l)) /\ spc' = Idle
       ELSE spc' = [spc EXCEPT !.at = "drain"] /\ UNCHANGED queue
    /\ UNCHANGED <<running, listenVars, accepted, lpc, conn, via, num, quits,
                   banVars, crashed>>

\* server::on_session_ended_event(): counts first, looks the session up next.
OnSessionEnded ==
    /\ spc = Idle /\ queue # <<>> /\ Head(queue).type = "ended"
    /\ queue' = Tail(queue)
    /\ num' = (num + SizeMax) % (SizeMax + 1)
    /\ conn' = [conn EXCEPT ![Head(queue).of] = "gone"]
    /\ UNCHANGED <<running, listenVars, accepted, lpc, spc, via, quits, banVars, crashed>>

\* The connections whose sessions run are shut down.
ShutDown(cs) ==
    conn' = [c \in Conns |-> IF c \in cs /\ conn[c] = "live" THEN "closing" ELSE conn[c]]

\* ftp::server::on_banned_event().
OnBanned ==
    /\ spc = Idle /\ queue # <<>> /\ Head(queue).type = "banned"
    /\ queue' = Tail(queue)
    /\ ShutDown({c \in Conns : IpOf[c] = Head(queue).of})
    /\ UNCHANGED <<running, listenVars, accepted, lpc, spc, via, num, quits, banVars, crashed>>

----------------------------------------------------------------------------
(* The sessions, on the event loops of the pool                             *)

\* The control channel is done, because of the peer or of a shutdown:
\* session::quit() announces the end.
SessionEnds(c) ==
    /\ conn[c] \in {"live", "closing"}
    /\ conn' = [conn EXCEPT ![c] = "ended"]
    /\ queue' = Append(queue, EndedEvent(c))
    /\ UNCHANGED <<running, listenVars, accepted, lpc, spc, via, num, quits,
                   banVars, crashed>>

\* session::on_shared_user_changed_event(): the user was removed or disabled;
\* quit() announces the end and leaves the channel as it is.
UserRemoved(c) ==
    /\ conn[c] \in {"live", "closing", "ended"} /\ quits < MaxQuits
    /\ quits' = quits + 1
    /\ queue' = Append(queue, EndedEvent(c))
    /\ UNCHANGED <<running, listenVars, accepted, lpc, spc, conn, via, num,
                   banVars, crashed>>

\* Connections that passed the check and are not sessions yet.
Passed(ip) == {c \in Conns : IpOf[c] = ip /\ conn[c] \in {"checked", "waiting"}}

\* Mutated form: the ban is made and nobody is told.
FailLoginSilently(c) ==
    /\ conn[c] \in {"live", "closing"} /\ IpOf[c] \notin banned
    /\ ~ Contains(queue, BannedEvent(IpOf[c]))
    /\ banned' = banned \union {IpOf[c]}
    /\ early' = early \union Passed(IpOf[c])
    /\ UNCHANGED <<running, listenVars, accepted, lpc, spc, queue, conn, via, num, quits, crashed>>

\* autobanner::set_failed_login(): the failure that makes a ban tells the
\* servers, later ones do not.
FailLogin(c) ==
    /\ conn[c] \in {"live", "closing"} /\ IpOf[c] \notin banned
    /\ ~ Contains(queue, BannedEvent(IpOf[c]))
    /\ banned' = banned \union {IpOf[c]}
    /\ early' = early \union Passed(IpOf[c])
    /\ queue' = Append(queue, BannedEvent(IpOf[c]))
    /\ UNCHANGED <<running, listenVars, accepted, lpc, spc, conn, via, num, quits, crashed>>

\* The ban's time is over, or the administrator lifts it.
Unban(ip) ==
    /\ ip \in banned
    /\ banned' = banned \ {ip}
    /\ early' = {c \in early : IpOf[c] # ip}
    /\ UNCHANGED <<running, listenVars, accepted, lpc, spc, queue, conn, via, num,
                   quits, crashed>>

----------------------------------------------------------------------------
(* The administrator, on the server's event loop                            *)

\* administration::ban_ip: the address is disallowed, its sessions are ended.
BanIp(ip) ==
    /\ spc = Idle /\ ip \notin banned
    /\ banned' = banned \union {ip}
    /\ early' = early \union Passed(ip)
    /\ ShutDown({c \in Conns : IpOf[c] = ip})
    /\ UNCHANGED <<running, listenVars, accepted, lpc, spc, queue, via, num, quits, crashed>>

\* administration::end_sessions.
EndSessions(cs) ==
    /\ spc = Idle /\ \E c \in cs : conn[c] = "live"
    /\ ShutDown(cs)
    /\ UNCHANGED <<running, listenVars, accepted, lpc, spc, queue, via, num, quits,
                   banVars, crashed>>

\* listener::start() on each of ls, in which bind() may work or not.
StartListeners(ls, ok) ==
    /\ open' = [l \in Listeners |-> open[l] \/ l \in ls]
    /\ status' = [l \in Listeners |->
                    IF l \in ls /\ ~ open[l]
                    THEN IF ok[l] THEN "started" ELSE "retrying"
                    ELSE status[l]]
    /\ timer' = [l \in Listeners |-> IF l \in ls /\ ~ open[l] THEN ~ ok[l] ELSE timer[l]]

\* listeners_manager::start().
Start ==
    /\ spc = Idle /\ ~ running
    /\ running' = TRUE
    /\ \E ok \in [listeners -> BOOLEAN] : StartListeners(listeners, ok)
    /\ UNCHANGED <<listeners, accepted, lpc, spc, queue, conn, via, num, quits,
                   banVars, crashed>>

\* listeners_manager::set_address_infos(): listeners that stay are kept, new
\* ones are started, the others are destroyed one after the other.  A listener
\* is not brought back while an event or a connection of the old object is about.
SetAddressInfos(new) ==
    LET added   == new \ listeners
        removed == listeners \ new
    IN  /\ spc = Idle /\ new # listeners
        /\ removed # {} => RemovesListeners
        /\ \A l \in added : ~ Contains(queue, ConnectedEvent(l))
        /\ listeners' = listeners \union new
        /\ IF running
           THEN \E ok \in [added -> BOOLEAN] : StartListeners(added, ok)
           ELSE UNCHANGED <<open, status, timer>>
        /\ spc' = IF removed = {} THEN Idle ELSE [at |-> "destroy", todo |-> removed]
        /\ UNCHANGED <<running, accepted, lpc, queue, conn, via, num, quits,
                       banVars, crashed>>

\* The connections the listener holds are closed with it.
Dropped(l) == {c \in Conns : conn[c] \in {"knocking", "waiting"} /\ via[c] = l}

\* remove_events(): the sequence s without the elements e.
Without(s, e) ==
    LET kept   == {i \in 1 .. Len(s) : s[i] # e}
        nth(j) == CHOOSE i \in kept : Cardinality({k \in kept : k <= i}) = j
    IN  [j \in 1 .. Cardinality(kept) |-> s[nth(j)]]

\* ~listener(): stop(), under the listener's mutex.
StopListener(l) ==
    /\ spc.at = "destroy" /\ l \in spc.todo
    /\ status' = [status EXCEPT ![l] = "stopped"]
    /\ timer' = [timer EXCEPT ![l] = FALSE]
    /\ open' = [open EXCEPT ![l] = FALSE]
    /\ accepted' = [accepted EXCEPT ![l] = IF open[l] THEN <<>> ELSE @]
    /\ queue' = IF open[l] THEN Without(queue, ConnectedEvent(l)) ELSE queue
    /\ conn' = [c \in Conns |-> IF open[l] /\ c \in Dropped(l) THEN "gone" ELSE conn[c]]
    /\ spc' = [at |-> "wait", l |-> l, todo |-> spc.todo \ {l}]
    /\ UNCHANGED <<running, listeners, lpc, via, num, quits, banVars, crashed>>

\* Whether the listeners' event loop runs a handler of l.
InHandlerOf(l) == lpc # Idle /\ lpc.l = l

\* ~listener(): remove_handler() waits for the handler that runs; what it has
\* queued meanwhile dies with the object.
DestroyListener ==
    /\ spc.at = "wait" /\ ~ InHandlerOf(spc.l)
    /\ listeners' = listeners \ {spc.l}
    /\ accepted' = [accepted EXCEPT ![spc.l] = <<>>]
    /\ conn' = [c \in Conns |-> IF c \in Dropped(spc.l) THEN "gone" ELSE conn[c]]
    /\ spc' = IF spc.todo = {} THEN Idle ELSE [at |-> "destroy", todo |-> spc.todo]
    /\ UNCHANGED <<running, open, status, timer, lpc, queue, via, num, quits,
                   banVars, crashed>>

----------------------------------------------------------------------------

OperatingSystem ==
    \/ \E c \in Conns, l \in Listeners : Knock(c, l)
    \/ \E c \in Conns : Leave(c)

ListenersLoop ==
    \/ \E l \in Listeners : EnterAccept(l) \/ EnterRetry(l)
    \/ Accept \/ Push \/ Send \/ Retry

ServerLoop == OnConnected \/ Drain \/ Look \/ OnSessionEnded \/ OnBanned

SessionLoops ==
    \/ \E c \in Conns : SessionEnds(c) \/ UserRemoved(c) \/ FailLogin(c)
    \/ \E ip \in Ips : Unban(ip)

Administrator ==
    \/ \E ip \in Ips : BanIp(ip)
    \/ \E cs \in (SUBSET Conns) \ {{}} : EndSessions(cs)
    \/ Start
    \/ \E new \in SUBSET Listeners : SetAddressInfos(new)
    \/ \E l \in Listeners : StopListener(l)
    \/ DestroyListener

Next ==
    /\ ~ crashed
    /\ \/ OperatingSystem
       \/ ListenersLoop
       \/ ServerLoop
       \/ SessionLoops
       \/ Administrator

\* The event loops run the handlers that are due, the server's loop also between
\* the administrator's commands, which are events in the same queue; a session
\* that was shut down ends.  Peers, bans and the administrator owe nothing.
Fairness ==
    /\ WF_vars(~ crashed /\ ListenersLoop)
    /\ SF_vars(~ crashed /\ ServerLoop)
    /\ WF_vars(~ crashed /\ (DestroyListener \/ \E l \in Listeners : StopListener(l)))
    /\ \A c \in Conns : WF_vars(~ crashed /\ conn[c] = "closing" /\ SessionEnds(c))

Spec == Init /\ [][Next]_vars
FairSpec == Spec /\ Fairness

----------------------------------------------------------------------------
(* Properties                                                               *)

\* A listener that could not bind its port is going to try again (try_listen()
\* arms the timer each time it fails).
RetryingTriesAgain ==
    \A l \in listeners :
        status[l] = "retrying" => timer[l] \/ (lpc.at = "listen" /\ lpc.l = l)

\* get_number_of_sessions() is the number of sessions that exist, as long as no
\* session ended twice: once because its user was removed, once with its channel.
CountsSessions == quits = 0 => num = Cardinality(Sessions)

\* Every variable keeps to its type: in particular num_sessions_ is a
\* std::size_t, whatever ended events arrive, and agrees with the sessions; the
\* status of a listener agrees with its timer.
TypeOK ==
    /\ running \in BOOLEAN
    /\ listeners \subseteq Listeners
    /\ open \in [Listeners -> BOOLEAN]
    /\ status \in [Listeners -> {"stopped", "retrying", "started"}]
    /\ timer \in [Listeners -> BOOLEAN]
    /\ \A l \in Listeners : accepted[l] \in Seq(Conns)
    /\ lpc.at \in {"idle", "accept", "push", "send", "listen"}
    /\ spc.at \in {"idle", "drain", "look", "destroy", "wait"}
    /\ \A i \in 1 .. Len(queue) : queue[i].type \in {"connected", "ended", "banned"}
    /\ conn \in [Conns -> {"away", "knocking", "checked", "waiting", "live",
                           "closing", "ended", "gone"}]
    /\ via \in [Conns -> Listeners]
    /\ num \in 0 .. SizeMax
    /\ quits \in 0 .. MaxQuits
    /\ banned \subseteq Ips
    /\ early \subseteq Conns
    /\ crashed \in BOOLEAN
    /\ RetryingTriesAgain
    /\ CountsSessions

\* An accepted socket never waits without somebody on the way to it: a
\* connected_event is queued or about to be, or the server empties the queue
\* right now (on_socket_event() announces only the first socket, and
\* on_connected_event() gives the loop back after loop_count sockets).
WaitingIsAnnounced ==
    \A l \in listeners :
        accepted[l] # <<>> =>
            \/ Contains(queue, ConnectedEvent(l))
            \/ lpc.at = "send" /\ lpc.l = l
            \/ spc.at \in {"drain", "look"} /\ spc.l = l
            \/ status[l] = "stopped"

\* A socket that was accepted becomes a session or is closed with its
\* listener, however many others arrive (the events of on_socket_event() and
\* on_connected_event() suffice), unless a destroyed listener was used.
AcceptedIsServed ==
    \A c \in Conns : conn[c] = "waiting" ~> conn[c] # "waiting" \/ crashed

\* A session whose address is banned while it runs gets ended and buried
\* (set_failed_login() to on_banned_event() to on_session_ended_event()), unless
\* a destroyed listener was used.
BannedAreBuried ==
    \A c \in Conns :
        conn[c] = "live" /\ IpOf[c] \in banned /\ c \notin early
            ~> conn[c] \in {"gone", "away"} \/ crashed

\* The server deals with every socket and every ban it hears of.
SocketsAreDealtWith == AcceptedIsServed /\ BannedAreBuried

----------------------------------------------------------------------------
(* Statements of the repository that the code does not keep.                *)

\* A ban ends every session of the address (NEWS: "Banning an IP now also
\* automatically kicks sessions with that IP").
BannedAreKicked ==
    \A c \in Conns :
        conn[c] = "live" /\ IpOf[c] \in banned => Contains(queue, BannedEvent(IpOf[c]))

\* A connected_event carries a listener that exists: its receiver calls
\* get_socket() and has_socket() on it.
EventsAreOfListeners ==
    \A i \in 1 .. Len(queue) :
        queue[i].type = "connected" => queue[i].of \in listeners

\* A listener that stopped does not listen: nothing is accepted and no port
\* is bound through it any more.
StoppedDoesNotListen ==
    lpc.at \in {"accept", "listen"} => status[lpc.l] # "stopped"

=============================================================================
