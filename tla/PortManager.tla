---------------------------- MODULE PortManager ----------------------------
(***************************************************************************)
(* The passive-mode port pool (port_randomizer.cpp) and the loop of        *)
(* session::get_data_local_info that leases a port from it                 *)
(* (ftp/session.cpp).                                                      *)
(*                                                                         *)
(* Every FTP session lives on some event-loop thread; the pool is static   *)
(* and shared by all of them.  entries_[p] is guarded by mutex_[p], while  *)
(* connecting_[p] is an atomic that release() and set_connected() write    *)
(* without the mutex.  A step of the model is one critical section or one  *)
(* unguarded access, so that sessions interleave where threads can.        *)
(***************************************************************************)
EXTENDS Integers, FiniteSets

CONSTANTS
    Session,    \* the FTP sessions
    Peer,       \* the IP addresses of control connections
    PeerOf,     \* [Session -> Peer]: peer_ip_
    OptMin,     \* options::pasv.port_range->min, as configured
    OptMax,     \* options::pasv.port_range->max, as configured
    TimeWait,   \* how long a released port stays reserved (4 minutes)
    MaxTries,   \* listen() attempts per PASV (15 in the code)
    MaxTime     \* bound on the clock, for model checking

(* The constructor orders the two ends of the range and clamps them to     *)
(* the valid port numbers.                                                 *)
Clamp(n) == IF n <= 0 THEN 1 ELSE IF n > 65535 THEN 65535 ELSE n
LowPort  == Clamp(IF OptMin > OptMax THEN OptMax ELSE OptMin)
HighPort == Clamp(IF OptMin > OptMax THEN OptMin ELSE OptMax)
Port     == LowPort .. HighPort

ASSUME PeerAssumption == PeerOf \in [Session -> Peer]
ASSUME SessionAssumption == IsFiniteSet(Session)
ASSUME RangeAssumption == OptMin \in Int /\ OptMax \in Int
ASSUME BoundAssumption ==
    TimeWait \in Nat /\ MaxTries \in Nat \ {0} /\ MaxTime \in Nat

VARIABLES
    now,         \* monotonic_clock
    connecting,  \* port_manager::connecting_
    entries,     \* port_manager::entries_, one possible entry per peer
    pc,          \* where the session's thread is
    rnd,         \* the session's port_randomizer
    got,         \* the port the last do_get_port returned
    lease,       \* session::data_port_lease_
    after,       \* what follows the release in progress
    tries,       \* num_tries_left
    listening,   \* data_listen_socket_ is in the listening state
    outcome,     \* what get_data_local_info told its handler
    tried        \* history: ports probed since the last relaxation

vars == <<now, connecting, entries, pc, rnd, got, lease, after, tries,
          listening, outcome, tried>>
pool == <<connecting, entries>>

NoLease == [port |-> 0, connected |-> FALSE]
NoEntry == [present |-> FALSE, leases |-> 0, expiry |-> 0]
NoRandomizer ==
    [first |-> LowPort, prev |-> 0, reuseOther |-> FALSE, reuseSame |-> FALSE,
     start |-> 0]

(* Someone else is inside the critical section of mutex_[p]. *)
MutexFree(s, p) ==
    \A t \in Session \ {s} : ~(pc[t] = "decide" /\ rnd[t].prev = p)

-----------------------------------------------------------------------------
(* The search order of do_get_port.                                        *)

NextPort(r) ==
    IF r.prev = 0 THEN r.first
    ELSE IF r.prev + 1 \in Port THEN r.prev + 1 ELSE LowPort

Wrapped(r)   == r.prev # 0 /\ NextPort(r) = r.first

(* Mutated forms: giving up before the last pass; a last pass that is      *)
(* never entered.                                                          *)
ExhaustedEarly(r) == Wrapped(r) /\ r.reuseOther
AdvanceForever(r) ==
    [r EXCEPT !.prev = NextPort(r), !.reuseOther = @ \/ Wrapped(r)]

Exhausted(r) == Wrapped(r) /\ r.reuseOther /\ r.reuseSame

Advance(r) ==
    [r EXCEPT !.prev       = NextPort(r),
              !.reuseOther = @ \/ Wrapped(r),
              !.reuseSame  = @ \/ (Wrapped(r) /\ r.reuseOther)]

(* port_manager::prune: a stale entry is one without leases whose          *)
(* TIME_WAIT ended before the search started.                              *)
Prune(es, t) ==
    [q \in Peer |->
        IF es[q].present /\ es[q].leases = 0 /\ es[q].expiry < t
        THEN NoEntry ELSE es[q]]

(* The entries of the probed port, pruned on the first pass only. *)
Seen(s) ==
    LET r == rnd[s] IN
    IF ~r.reuseOther /\ ~r.reuseSame
    THEN Prune(entries[r.prev], r.start) ELSE entries[r.prev]

-----------------------------------------------------------------------------
Init ==
    /\ now = 0
    /\ connecting = [p \in Port |-> FALSE]
    /\ entries = [p \in Port |-> [q \in Peer |-> NoEntry]]
    /\ pc = [s \in Session |-> "idle"]
    /\ rnd = [s \in Session |-> NoRandomizer]
    /\ got = [s \in Session |-> 0]
    /\ lease = [s \in Session |-> NoLease]
    /\ after = [s \in Session |-> "close"]
    /\ tries = [s \in Session |-> 0]
    /\ listening = [s \in Session |-> FALSE]
    /\ outcome = [s \in Session |-> "none"]
    /\ tried = [s \in Session |-> {}]

Tick ==
    /\ now < MaxTime
    /\ now' = now + 1
    /\ UNCHANGED <<pool, pc, rnd, got, lease, after, tries, listening, outcome,
                   tried>>

(* What get_data_local_info tells its handler. *)
Answer(s, result) == outcome' = [outcome EXCEPT ![s] = result]

(* PASV or EPSV: the old listen socket is replaced, the old lease is kept  *)
(* until the new one is assigned over it.                                  *)
StartPasv(s) ==
    /\ pc[s] = "idle"
    /\ \E f \in Port :
         rnd' = [rnd EXCEPT ![s] = [NoRandomizer EXCEPT !.first = f, !.start = now]]
    /\ listening' = [listening EXCEPT ![s] = FALSE]
    /\ Answer(s, "none")
    /\ tries' = [tries EXCEPT ![s] = MaxTries - 1]
    /\ tried' = [tried EXCEPT ![s] = {}]
    /\ pc' = [pc EXCEPT ![s] = "scan"]
    /\ UNCHANGED <<now, pool, got, lease, after>>

(* One turn of the loop of do_get_port up to the exchange on connecting_. *)
Probe(s) ==
    LET r == Advance(rnd[s])
        p == r.prev
    IN /\ pc[s] = "scan"
       /\ ~Exhausted(rnd[s])
       /\ MutexFree(s, p)
       /\ rnd' = [rnd EXCEPT ![s] = r]
       /\ connecting' = [connecting EXCEPT ![p] = TRUE]
       /\ pc' = [pc EXCEPT ![s] = IF connecting[p] THEN "scan" ELSE "decide"]
       /\ tried' = [tried EXCEPT ![s] =
                      IF Wrapped(rnd[s]) THEN {p} ELSE @ \cup {p}]
       /\ UNCHANGED <<now, entries, got, lease, after, tries, listening, outcome>>

(* do_get_port returns p: the new lease is about to be assigned over the   *)
(* old one, which releases the old one first.                              *)
Return(s, p) ==
    /\ got' = [got EXCEPT ![s] = p]
    /\ after' = [after EXCEPT ![s] = "install"]
    /\ pc' = [pc EXCEPT ![s] = "release"]

GiveUp(s) ==
    /\ pc[s] = "scan"
    /\ Exhausted(rnd[s])
    /\ Return(s, 0)
    /\ rnd' = [rnd EXCEPT ![s].prev = NextPort(rnd[s])]
    /\ UNCHANGED <<now, pool, lease, tries, listening, outcome, tried>>

SharedUncounted(es, q) == es  \* mutated: the lease is not counted
Shared(es, q) == [es EXCEPT ![q].leases = @ + 1]

(* The peer already has an entry: only the last pass may share it. *)
TakeSame(s) ==
    LET p == rnd[s].prev
        q == PeerOf[s]
    IN /\ pc[s] = "decide"
       /\ Seen(s)[q].present
       /\ rnd[s].reuseSame
       /\ entries' = [entries EXCEPT ![p] = Shared(Seen(s), q)]
       /\ Return(s, p)
       /\ UNCHANGED <<now, connecting, rnd, lease, tries, listening, outcome, tried>>

(* No entry of this peer: an empty port, or any port from the second pass. *)
TakeNew(s) ==
    LET p == rnd[s].prev
        q == PeerOf[s]
    IN /\ pc[s] = "decide"
       /\ ~Seen(s)[q].present
       /\ rnd[s].reuseOther \/ \A x \in Peer : ~Seen(s)[x].present
       /\ entries' = [entries EXCEPT ![p] =
            [Seen(s) EXCEPT ![q] = [present |-> TRUE, leases |-> 1, expiry |-> 0]]]
       /\ Return(s, p)
       /\ UNCHANGED <<now, connecting, rnd, lease, tries, listening, outcome, tried>>

(* The port does not qualify on this pass: connecting_ is put back. *)
PutBack(s) ==
    LET p == rnd[s].prev
        q == PeerOf[s]
    IN /\ pc[s] = "decide"
       /\ IF Seen(s)[q].present THEN ~rnd[s].reuseSame
          ELSE ~rnd[s].reuseOther /\ \E x \in Peer : Seen(s)[x].present
       /\ entries' = [entries EXCEPT ![p] = Seen(s)]
       /\ connecting' = [connecting EXCEPT ![p] = FALSE]
       /\ pc' = [pc EXCEPT ![s] = "scan"]
       /\ UNCHANGED <<now, rnd, got, lease, after, tries, listening, outcome, tried>>

-----------------------------------------------------------------------------
(* get_data_local_info returns: its locals are gone. *)
Leave(s) ==
    /\ pc' = [pc EXCEPT ![s] = "idle"]
    /\ rnd' = [rnd EXCEPT ![s] = NoRandomizer]
    /\ tries' = [tries EXCEPT ![s] = 0]
    /\ tried' = [tried EXCEPT ![s] = {}]

TriesLeftOrNone(s) == tries[s] >= 0  \* mutated: off by one
TriesLeft(s) == tries[s] > 0

(* The end of data_port_lease_'s assignment, and what the caller does next: *)
(* try to listen, turn the loop again, or nothing.                          *)
Settle(s) ==
    /\ got' = [got EXCEPT ![s] = 0]
    /\ after' = [after EXCEPT ![s] = "close"]
    /\ \/ /\ after[s] = "install"
          /\ lease' = [lease EXCEPT ![s] = [port |-> got[s], connected |-> FALSE]]
          /\ pc' = [pc EXCEPT ![s] = "opened"]
          /\ UNCHANGED <<rnd, tries, tried, outcome>>
       \/ /\ after[s] = "retry"
          /\ lease' = [lease EXCEPT ![s] = NoLease]
          /\ IF TriesLeft(s)
             THEN /\ pc' = [pc EXCEPT ![s] = "scan"]
                  /\ rnd' = [rnd EXCEPT ![s].start = now]
                  /\ tries' = [tries EXCEPT ![s] = @ - 1]
                  /\ UNCHANGED <<tried, outcome>>
             ELSE Leave(s) /\ Answer(s, "failed")
       \/ /\ after[s] = "close"
          /\ lease' = [lease EXCEPT ![s] = NoLease]
          /\ Leave(s)
          /\ UNCHANGED outcome

(* port_manager::release of an empty lease does nothing. *)
ReleaseNothing(s) ==
    /\ pc[s] = "release"
    /\ lease[s].port = 0
    /\ Settle(s)
    /\ UNCHANGED <<now, pool, listening>>

(* The half of port_manager::release under the mutex. *)
ReleaseEntry(s) ==
    LET p == lease[s].port
        e == entries[p][PeerOf[s]]
    IN /\ pc[s] = "release"
       /\ p # 0
       /\ MutexFree(s, p)
       /\ IF e.present /\ e.leases > 0
          THEN entries' = [entries EXCEPT ![p][PeerOf[s]] =
                 [present |-> TRUE, leases |-> e.leases - 1,
                  expiry |-> now + TimeWait]]
          ELSE UNCHANGED entries
       /\ pc' = [pc EXCEPT ![s] = "clear"]
       /\ UNCHANGED <<now, connecting, rnd, got, lease, after, tries, listening,
                      outcome, tried>>

(* Only the lease whose peer never connected still has the flag. *)
ClearedAlways(s) ==  \* mutated: connected leases clear it too
    [connecting EXCEPT ![lease[s].port] = FALSE]
Cleared(s) == [connecting EXCEPT ![lease[s].port] = @ /\ lease[s].connected]

(* The half of port_manager::release after the mutex is unlocked. *)
ReleaseFlag(s) ==
    /\ pc[s] = "clear"
    /\ connecting' = Cleared(s)
    /\ Settle(s)
    /\ UNCHANGED <<now, entries, listening>>

-----------------------------------------------------------------------------
(* get_data_local_info after a port was leased.                            *)

NoPortLeft(s) ==
    /\ pc[s] = "opened"
    /\ lease[s].port = 0
    /\ Leave(s)
    /\ Answer(s, "failed")
    /\ UNCHANGED <<now, pool, got, lease, after, listening>>

(* listen(2) refuses a port that another socket listens on, and may refuse *)
(* any port: the loop drops the lease and goes on with the same randomizer. *)
ListenFails(s) ==
    /\ pc[s] = "opened"
    /\ lease[s].port # 0
    /\ after' = [after EXCEPT ![s] = "retry"]
    /\ pc' = [pc EXCEPT ![s] = "release"]
    /\ UNCHANGED <<now, pool, rnd, got, lease, tries, listening, outcome, tried>>

ListensOn(t, p) == listening[t] /\ lease[t].port = p

(* The port is open; the check after the loop looks at num_tries_left only. *)
ListenSucceeds(s) ==
    /\ pc[s] = "opened"
    /\ lease[s].port # 0
    /\ \A t \in Session \ {s} : ~ListensOn(t, lease[s].port)
    /\ listening' = [listening EXCEPT ![s] = TRUE]
    /\ Leave(s)
    /\ Answer(s, IF tries[s] <= 0 THEN "failed" ELSE "ok")
    /\ UNCHANGED <<now, pool, got, lease, after>>

(* on_socket_event accepts the data connection and calls set_connected();  *)
(* the listen socket is destroyed only afterwards.                         *)
Accept(s) ==
    /\ pc[s] = "idle"
    /\ listening[s]
    /\ lease' = [lease EXCEPT ![s].connected = TRUE]
    /\ connecting' = Cleared(s)
    /\ pc' = [pc EXCEPT ![s] = "accepted"]
    /\ UNCHANGED <<now, entries, rnd, got, after, tries, listening, outcome, tried>>

CloseListener(s) ==
    /\ pc[s] = "accepted"
    /\ listening' = [listening EXCEPT ![s] = FALSE]
    /\ pc' = [pc EXCEPT ![s] = "idle"]
    /\ UNCHANGED <<now, pool, rnd, got, lease, after, tries, outcome, tried>>

(* close_data_connection: the sockets go first, then the lease. *)
CloseDataConnection(s) ==
    /\ pc[s] = "idle"
    /\ listening[s] \/ lease[s].port # 0
    /\ listening' = [listening EXCEPT ![s] = FALSE]
    /\ pc' = [pc EXCEPT ![s] = "release"]
    /\ UNCHANGED <<now, pool, rnd, got, lease, after, tries, outcome, tried>>

-----------------------------------------------------------------------------
(* Steps the session's thread takes on its own once PASV has begun. *)
Run(s) ==
    \/ Probe(s) \/ GiveUp(s) \/ TakeSame(s) \/ TakeNew(s) \/ PutBack(s)
    \/ ReleaseNothing(s) \/ ReleaseEntry(s) \/ ReleaseFlag(s)
    \/ NoPortLeft(s) \/ ListenFails(s) \/ ListenSucceeds(s) \/ CloseListener(s)

Next ==
    \/ Tick
    \/ \E s \in Session :
         StartPasv(s) \/ Run(s) \/ Accept(s) \/ CloseDataConnection(s)

(* A thread that can go on does; the mutexes of the pool are held for a    *)
(* few instructions at a time, so that one is free again and again.        *)
Fairness == \A s \in Session : SF_vars(Run(s))

Spec     == Init /\ [][Next]_vars
FairSpec == Spec /\ Fairness

-----------------------------------------------------------------------------
Randomizer ==
    [first : Port, prev : Port \cup {0}, reuseOther : BOOLEAN,
     reuseSame : BOOLEAN, start : Nat]
Entry == [present : BOOLEAN, leases : Nat, expiry : Nat]
Lease == [port : Port \cup {0}, connected : BOOLEAN]
PCs   == {"idle", "scan", "decide", "release", "clear", "opened", "accepted"}

(* Type invariant of the pool and of the sessions that use it. *)
TypeOK ==
    /\ now \in Nat
    /\ connecting \in [Port -> BOOLEAN]
    /\ entries \in [Port -> [Peer -> Entry]]
    /\ pc \in [Session -> PCs]
    /\ rnd \in [Session -> Randomizer]
    /\ got \in [Session -> Port \cup {0}]
    /\ lease \in [Session -> Lease]
    /\ after \in [Session -> {"install", "retry", "close"}]
    /\ tries \in [Session -> 0 .. MaxTries]
    /\ listening \in [Session -> BOOLEAN]
    /\ outcome \in [Session -> {"none", "ok", "failed"}]
    /\ tried \in [Session -> SUBSET Port]

(* The three ways a session can be responsible for connecting_[p]: it has  *)
(* just exchanged it, its new lease is being installed, or it holds a      *)
(* lease whose peer has not connected.                                     *)
Deciding(s, p)   == pc[s] = "decide" /\ rnd[s].prev = p
Installing(s, p) ==
    pc[s] \in {"release", "clear"} /\ after[s] = "install" /\ got[s] = p
Awaiting(s, p)   == lease[s].port = p /\ ~lease[s].connected
Owns(s, p)       == Deciding(s, p) \/ Installing(s, p) \/ Awaiting(s, p)

(* connecting_[p] is set exactly while one session, and in one way only,   *)
(* is responsible for it: the unguarded writes of release() and            *)
(* set_connected() never clear another session's flag, and never leak one. *)
ConnectingIsExclusive ==
    \A p \in Port :
      /\ connecting[p] <=> \E s \in Session : Owns(s, p)
      /\ \A s, t \in Session : Owns(s, p) /\ Owns(t, p) => s = t
      /\ \A s \in Session : /\ ~(Deciding(s, p) /\ Awaiting(s, p))
                            /\ ~(Installing(s, p) /\ Awaiting(s, p))

(* leases_ of an entry counts the leases that are alive: a port with a     *)
(* live lease is never pruned or handed out as free, and a count never     *)
(* stays above zero once its leases are gone.                              *)
Leases(p, q) ==
    {s \in Session : PeerOf[s] = q /\ lease[s].port = p /\ pc[s] # "clear"}
Pending(p, q) == {s \in Session : PeerOf[s] = q /\ Installing(s, p)}
LeasesAreCounted ==
    \A p \in Port, q \in Peer :
      /\ entries[p][q].leases = Cardinality(Leases(p, q)) + Cardinality(Pending(p, q))
      /\ ~entries[p][q].present => entries[p][q].leases = 0

(* do_get_port gives up only after its last, most permissive pass has      *)
(* probed every port of the range: with both relaxations in force.         *)
GivesUpAfterFullPass ==
    \A s \in Session :
      pc[s] = "opened" /\ lease[s].port = 0
        => rnd[s].reuseOther /\ rnd[s].reuseSame /\ tried[s] = Port

(* A used port is handed out only if nobody listens on it: what the        *)
(* header's description of the randomizer promises of a port in the        *)
(* listening stage.                                                        *)
LeasedPortIsNotListening ==
    \A s, t \in Session :
      s # t /\ pc[s] = "opened" /\ lease[s].port # 0
        => ~ListensOn(t, lease[s].port)

(* When PASV reports that no port could be opened, none is open. *)
FailureMeansNotListening ==
    \A s \in Session : outcome[s] = "failed" => ~listening[s]

(* Every PASV comes to an end, whatever the other sessions do. *)
PasvEnds == \A s \in Session : pc[s] = "scan" ~> pc[s] = "idle"
=============================================================================
