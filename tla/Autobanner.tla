----------------------------- MODULE Autobanner -----------------------------
(***************************************************************************)
(* The ban of addresses from which too many logins failed                   *)
(* (src/src/filezilla/authentication/autobanner.cpp, autobanner.hpp).       *)
(*                                                                          *)
(* Sessions report failed logins from their threads, the timers that forget *)
(* failures and end bans run on the server's event loop, and one mutex      *)
(* guards the tables.  The event loop takes a one-shot timer off its list   *)
(* before it calls the handler, which then waits for the mutex: between the *)
(* two, stop_timer() has nothing left to stop.  Time is relative: failures  *)
(* have an age, timers have a time to go.                                   *)
(***************************************************************************)
EXTENDS Integers, Sequences, FiniteSets, SequencesExt

CONSTANTS
    Ips,
    MaxChoices,    \* the values max_login_failures is given
    Window,        \* login_failures_time_window
    BanDuration,   \* ban_duration
    TimerIds,      \* bound: ids of the timers one behaviour may use
    NoTimer        \* the timer id of a handle without a timer

\* The number of failures comes from a bounded range.
ASSUME AutobannerAssumption ==
    /\ MaxChoices \subseteq Nat
    /\ \E m \in MaxChoices : \A n \in MaxChoices : n <= m
    /\ Window \in Nat \ {0}
    /\ BanDuration \in Nat \ {0}
    /\ NoTimer \notin TimerIds

VARIABLES
    shared,    \* sessions run on the server's loop: number_of_session_threads is 0
    max,       \* opts_.max_login_failures
    failed,    \* [Ips -> ages of failed_timepoints]; empty when there is no handle
    tid,       \* [Ips -> handle::timer_id]
    togo,      \* the armed timers: a function from their ids to the time to go
    owner,     \* the timer map: a function from timer ids to addresses
    firing,    \* the timer whose handler the event loop has called, or NoTimer
    last,      \* history: [Ips -> ages of the last failures]
    owed,      \* history: [Ips -> what is left of the ban that was announced]
    banning    \* history: [Ips -> whether the handle's timer is to end a ban]

ABvars == <<shared, max, failed, tid, togo, owner, firing, last, owed, banning>>

\* The largest age told apart from older ones.
Old == Window + 1

Without(f, x) == [y \in DOMAIN f \ {x} |-> f[y]]

With(f, x, v) == [y \in DOMAIN f \union {x} |-> IF y = x THEN v ELSE f[y]]

\* The last n elements of s.
LastOf(s, n) == IF Len(s) <= n THEN s ELSE SubSeq(s, Len(s) - n + 1, Len(s))

ABInit ==
    /\ shared \in BOOLEAN
    /\ max \in MaxChoices
    /\ failed = [ip \in Ips |-> <<>>]
    /\ tid = [ip \in Ips |-> NoTimer]
    /\ togo = <<>>
    /\ owner = <<>>
    /\ firing = NoTimer
    /\ last = [ip \in Ips |-> <<>>]
    /\ owed = [ip \in Ips |-> 0]
    /\ banning = [ip \in Ips |-> FALSE]

\* How many failures the history keeps.
Kept == CHOOSE m \in MaxChoices : \A n \in MaxChoices : n <= m

\* autobanner::is_banned().
IsBanned(ip) == max # 0 /\ Len(failed[ip]) >= max

\* Whether a session may be running: with a shared loop, not while the loop
\* is in the timer's handler.
SessionsRun == shared => firing = NoTimer

\* An id that nobody holds.
FreshIds == TimerIds \ (DOMAIN togo \union DOMAIN owner \union {firing})

\* Mutated form: the ban keeps the time of the window.
RearmForWindow(ip, id, d) ==
    /\ tid' = [tid EXCEPT ![ip] = id]
    /\ togo' = With(Without(togo, tid[ip]), id, Window)
    /\ owner' = With(owner, id, ip)

\* Mutated form: the new timer is not entered in the timer map.
RearmUnmapped(ip, id, d) ==
    /\ tid' = [tid EXCEPT ![ip] = id]
    /\ togo' = With(Without(togo, tid[ip]), id, d)
    /\ UNCHANGED owner

\* add_timer() of set_failed_login(), after stop_timer(handle.timer_id): the
\* entry of the stopped timer stays in the timer map.
Rearm(ip, id, d) ==
    /\ tid' = [tid EXCEPT ![ip] = id]
    /\ togo' = With(Without(togo, tid[ip]), id, d)
    /\ owner' = With(owner, id, ip)

\* The deque with the new failure, before anything is dropped from it.
Grown(ip) == Append(failed[ip], 0)

\* Mutated form: the span of the failures is not compared with the window.
BanningAlways(ip) == Len(Grown(ip)) >= max

\* Whether the failure makes a ban.
Banning(ip) == Len(Grown(ip)) >= max /\ Head(Grown(ip)) <= Window

\* autobanner::set_failed_login(), for an address that is not banned yet.
SetFailedLogin(ip) ==
    /\ SessionsRun /\ max # 0 /\ ~ IsBanned(ip)
    /\ failed' = [failed EXCEPT ![ip] =
                    IF Len(Grown(ip)) >= max /\ ~ Banning(ip)
                    THEN Tail(Grown(ip))
                    ELSE Grown(ip)]
    /\ \E id \in FreshIds : Rearm(ip, id, IF Banning(ip) THEN BanDuration ELSE Window)
    /\ last' = [last EXCEPT ![ip] = LastOf(Append(@, 0), Kept)]
    /\ owed' = [owed EXCEPT ![ip] = IF Banning(ip) THEN BanDuration ELSE @]
    /\ banning' = [banning EXCEPT ![ip] = Banning(ip)]
    /\ UNCHANGED <<shared, max, firing>>

\* The event loop takes a timer that is due and calls the handler.
TimerFires(id) ==
    /\ firing = NoTimer
    /\ id \in DOMAIN togo /\ togo[id] = 0
    /\ firing' = id
    /\ togo' = Without(togo, id)
    /\ UNCHANGED <<shared, max, failed, tid, owner, last, owed, banning>>

\* autobanner::operator(), once it has the mutex: the handle is erased.
OnTimer ==
    /\ firing # NoTimer
    /\ firing' = NoTimer
    /\ IF firing \in DOMAIN owner
       THEN LET ip == owner[firing] IN
            /\ failed' = [failed EXCEPT ![ip] = <<>>]
            /\ tid' = [tid EXCEPT ![ip] = NoTimer]
            /\ owner' = Without(owner, firing)
            /\ last' = [last EXCEPT ![ip] =
                           IF banning[ip] \/ (@ # <<>> /\ Last(@) >= Window) THEN <<>> ELSE @]
            /\ banning' = [banning EXCEPT ![ip] = FALSE]
       ELSE UNCHANGED <<failed, tid, owner, last, banning>>
    /\ UNCHANGED <<shared, max, togo, owed>>

\* autobanner::set_options(), with another number of failures: the bans made
\* under the old one are owed to nobody.
SetOptions(m) ==
    /\ m # max
    /\ max' = m
    /\ owed' = [ip \in Ips |-> 0]
    /\ UNCHANGED <<shared, failed, tid, togo, owner, firing, last, banning>>

Older(s) == [i \in DOMAIN s |-> IF s[i] < Old THEN s[i] + 1 ELSE Old]

\* A unit of time passes; timers may be late.
ABTick ==
    /\ togo # <<>> \/ \E ip \in Ips : owed[ip] > 0 \/ \E i \in DOMAIN last[ip] : last[ip][i] < Old
    /\ failed' = [ip \in Ips |-> Older(failed[ip])]
    /\ last' = [ip \in Ips |-> Older(last[ip])]
    /\ togo' = [id \in DOMAIN togo |-> IF togo[id] > 0 THEN togo[id] - 1 ELSE 0]
    /\ owed' = [ip \in Ips |-> IF owed[ip] > 0 THEN owed[ip] - 1 ELSE 0]
    /\ UNCHANGED <<shared, max, tid, owner, firing, banning>>

ABNext ==
    \/ \E ip \in Ips : SetFailedLogin(ip)
    \/ \E id \in TimerIds : TimerFires(id)
    \/ OnTimer
    \/ \E m \in MaxChoices : SetOptions(m)
    \/ ABTick

\* Time passes and the event loop runs its timers; nobody has to fail a login.
ABFairness ==
    /\ WF_ABvars(ABTick)
    /\ WF_ABvars(OnTimer)
    /\ \A id \in TimerIds : WF_ABvars(TimerFires(id))

ABSpec == ABInit /\ [][ABNext]_ABvars
ABFairSpec == ABSpec /\ ABFairness

-----------------------------------------------------------------------------
(* Properties                                                               *)

\* What is remembered of an address is forgotten one day: some timer that
\* runs, or whose handler was called, is going to erase it
\* (set_failed_login() never leaves a handle without a timer, whatever the
\* race with operator()).
HandlesExpire ==
    \A ip \in Ips : failed[ip] # <<>> =>
        \E id \in DOMAIN owner :
            owner[id] = ip /\ (id \in DOMAIN togo \/ id = firing)

\* The tables hold what they should, and every handle has a timer.
ABTypeOK ==
    /\ HandlesExpire
    /\ shared \in BOOLEAN
    /\ max \in MaxChoices
    /\ \A ip \in Ips : /\ failed[ip] \in Seq(0 .. Old)
                       /\ last[ip] \in Seq(0 .. Old)
                       /\ tid[ip] \in TimerIds \union {NoTimer}
                       /\ (failed[ip] = <<>>) = (tid[ip] = NoTimer)
                       /\ owed[ip] \in 0 .. BanDuration
                       /\ banning[ip] \in BOOLEAN
    /\ DOMAIN togo \subseteq TimerIds
    /\ DOMAIN owner \subseteq TimerIds
    /\ firing \in TimerIds \union {NoTimer}

\* Without session threads, failures that all happened within the window make a
\* ban, whichever timers ran meanwhile.
FailuresMakeABan ==
    shared /\ max # 0 => \A ip \in Ips :
        Len(last[ip]) >= max /\ LastOf(last[ip], max)[1] < Window => IsBanned(ip)

\* A ban that was announced lasts for ban_duration, unless a session thread
\* made it while the handler of an earlier timer waited for the mutex: without
\* session threads stop_timer() always comes in time.
BanLasts == shared => \A ip \in Ips : owed[ip] > 0 => IsBanned(ip)

\* Without session threads, a ban is made when it has to be, and stays.
BansAreKept == FailuresMakeABan /\ BanLasts

\* Who gets banned by a failed login had that many failures within the window.
BanIsDeserved ==
    [][\A ip \in Ips :
        ~ IsBanned(ip) /\ IsBanned(ip)' /\ max' = max =>
            Len(last'[ip]) >= max /\ LastOf(last'[ip], max)[1] <= Window]_ABvars

\* Nobody is banned for ever: each ban ends unless the options change.
BansEnd == \A ip \in Ips : IsBanned(ip) ~> ~ IsBanned(ip)

=============================================================================
