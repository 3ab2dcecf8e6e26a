----------------------- MODULE ThrottledAuthenticator -----------------------
(***************************************************************************)
(* The authenticator that delays logins after too many failures             *)
(* (src/src/filezilla/authentication/throttled_authenticator.cpp), between  *)
(* the FTP sessions that use it and the authenticator that it wraps.        *)
(*                                                                          *)
(* Each login has a worker, an event handler on the server's loop.  One     *)
(* mutex guards everything; a session's thread holds it while it destroys   *)
(* its worker, and destroying an event handler waits for its running        *)
(* handler.  So the result of the wrapped authenticator is handled in three *)
(* steps: the loop takes the event, the handler gets the mutex and does its *)
(* work, the handler returns.                                               *)
(*                                                                          *)
(* The maps of failures per user and per address are one function from      *)
(* keys.  Time is relative: failures have an age, delays a time to go.      *)
(***************************************************************************)
EXTENDS Integers, Sequences, FiniteSets, SequencesExt

CONSTANTS
    Sessions,
    Keys,         \* the user names and addresses of the sessions
    KeysOf,       \* [Sessions -> the user name and the address of each]
    MaxFailures,  \* options::max_failures
    Window,       \* options::failures_window
    Delay,        \* options::delay
    Cap,          \* options::cap
    SharedLoop,   \* the sessions run on the server's loop
    Reconfigured, \* the administrator may change the timeouts during a login
    NoSession

ASSUME ThrottledAssumption ==
    /\ KeysOf \in [Sessions -> SUBSET Keys]
    /\ MaxFailures \in Nat
    /\ Window \in Nat \ {0}
    /\ Delay \in Nat \ {0}
    /\ Cap \in Nat \ {0}
    /\ Delay <= Cap
    /\ {SharedLoop, Reconfigured} \subseteq BOOLEAN
    /\ NoSession \notin Sessions

VARIABLES
    phase,      \* [Sessions -> what its commander is at]
    workers,    \* the sessions that have a worker in workers_
    waiting,    \* waiting_workers_: a function from sessions to the time to go
    asked,      \* the sessions whose worker has asked the wrapped authenticator
    results,    \* results on their way to workers: a function from sessions
    handling,   \* the session whose worker's handler runs, or NoSession
    done,       \* that handler has done its work and left the mutex
    told,       \* results on their way to sessions: a function from sessions
    held,       \* the sessions whose commander holds an operation (auth_op_)
    failures,   \* [Keys -> failures_t]
    authTimer,  \* the time to go of auth_timer_id_, or Off
    purgeTimer, \* the time to go of purging_timer_id_, or Off
    holder,     \* the session that holds mutex_ while it waits, or NoSession
    unpaid      \* history: sessions that failed, which is not recorded yet

jobs == <<asked, results, told, held>>
throttle == <<failures, authTimer, purgeTimer>>
loop == <<handling, done>>
vars == <<phase, workers, waiting, jobs, loop, throttle, holder, unpaid>>

Off == -1
Outcomes == {"ok", "wrong", "internal"}

Smaller(a, b) == IF a < b THEN a ELSE b

\* The largest age told apart from older ones.
Old == IF Window < Delay THEN Delay ELSE Window

Without(f, x) == [y \in DOMAIN f \ {x} |-> f[y]]
With(f, x, v) == [y \in DOMAIN f \union {x} |-> IF y = x THEN v ELSE f[y]]

Init ==
    /\ phase = [s \in Sessions |-> "idle"]
    /\ workers = {} /\ waiting = <<>> /\ asked = {} /\ results = <<>>
    /\ handling = NoSession /\ done = FALSE /\ told = <<>> /\ held = {}
    /\ failures = [k \in Keys |-> [ages |-> <<>>, next |-> 0]]
    /\ authTimer = Off /\ purgeTimer = Off
    /\ holder = NoSession /\ unpaid = {}

-----------------------------------------------------------------------------
(* failures_t                                                               *)

\* purge_old(): failures are dropped from the front, the oldest first, until
\* one is within the window.
Recent(ages) ==
    LET past == {i \in DOMAIN ages : \A j \in 1 .. i : ages[j] >= Window}
    IN  SubSeq(ages, Cardinality(past) + 1, Len(ages))

\* set_next_try().
NextTry(ages, next) ==
    IF Len(ages) >= MaxFailures THEN Smaller(next + Delay, Cap) ELSE 0

\* add().
Failed(f) ==
    LET kept == Recent(f.ages)
        ages == IF MaxFailures = 0 THEN f.ages
                ELSE IF Len(kept) < MaxFailures THEN Append(kept, 0)
                ELSE [kept EXCEPT ![Len(kept)] = 0]
    IN  [ages |-> ages, next |-> NextTry(ages, f.next)]

\* record_failure(): what becomes of the throttle.
Recorded(s) ==
    /\ failures' = [k \in Keys |-> IF k \in KeysOf[s] THEN Failed(failures[k]) ELSE failures[k]]
    /\ purgeTimer' = IF purgeTimer = Off THEN Window ELSE purgeTimer
    /\ unpaid' = unpaid \ {s}

-----------------------------------------------------------------------------
(* What sessions do, on their threads                                       *)

\* Whether the thread of s runs: not while it waits in remove_handler(), and
\* not while the loop that it shares runs another handler.
Runs(s) == holder # s /\ (SharedLoop => handling = NoSession)

\* Nobody has the mutex.
Free == holder = NoSession

\* The worker of s can be destroyed at once: its handler does not run.  (One
\* that has done its work is waited for, which needs nothing but time.)
Removable(s) == handling # s

\* Mutated form: a waiter arms no timer.
ArmedNever(d) == authTimer

\* The timer of the authenticator once a login has to wait for d.
Armed(d) == IF authTimer = Off THEN d ELSE authTimer

\* try_to_authenticate() of the worker of s.
TryToAuthenticate(s) ==
    /\ failures' = [k \in Keys |->
                      IF k \in KeysOf[s] /\ failures[k].next > 0
                      THEN [failures[k] EXCEPT !.next = NextTry(failures[k].ages, @)]
                      ELSE failures[k]]
    /\ IF \A k \in KeysOf[s] : failures[k].next = 0
       THEN asked' = asked \union {s} /\ UNCHANGED <<waiting, authTimer>>
       ELSE /\ \E delay \in {failures[k].next : k \in KeysOf[s]} :
                 /\ \A k \in KeysOf[s] : failures[k].next <= delay
                 /\ waiting' = With(waiting, s, delay)
                 /\ authTimer' = Armed(delay)
            /\ UNCHANGED asked
    /\ UNCHANGED purgeTimer

\* USER: an operation of an earlier USER is stopped, which removes its worker,
\* and a new worker is made.
User(s) ==
    /\ Runs(s) /\ Free /\ phase[s] = "idle"
    /\ s \in held => Removable(s)
    /\ phase' = [phase EXCEPT ![s] = "USER"]
    /\ workers' = workers \union {s}
    /\ held' = held \ {s}
    /\ TryToAuthenticate(s)
    /\ UNCHANGED <<results, told, loop, holder, unpaid>>

\* PASS: the next step of the operation that USER left.
Pass(s) ==
    /\ Runs(s) /\ Free /\ phase[s] = "idle" /\ s \in held
    /\ phase' = [phase EXCEPT ![s] = "PASS"]
    /\ held' = held \ {s}
    /\ TryToAuthenticate(s)
    /\ UNCHANGED <<workers, results, told, loop, holder, unpaid>>

\* on_authenticator_operation_result() of the session.  After USER the
\* operation is kept whatever its error; after PASS it is stopped, which
\* removes the worker.
Deliver(s) ==
    /\ Runs(s) /\ Free /\ s \in DOMAIN told /\ phase[s] \in {"USER", "PASS"}
    /\ phase[s] = "PASS" => Removable(s)
    /\ told' = Without(told, s)
    /\ phase' = [phase EXCEPT ![s] = IF @ = "PASS" /\ told[s] = "ok" THEN "in" ELSE "idle"]
    /\ IF phase[s] = "USER"
       THEN held' = held \union {s} /\ UNCHANGED workers
       ELSE workers' = workers \ {s} /\ UNCHANGED held
    /\ UNCHANGED <<waiting, asked, results, loop, throttle, holder, unpaid>>

\* Mutated form: the waiting worker is left in waiting_workers_.
DestroyKeepsWaiting(s) ==
    /\ workers' = workers \ {s}
    /\ asked' = asked \ {s} /\ results' = Without(results, s)
    /\ told' = Without(told, s) /\ held' = held \ {s}
    /\ IF s \in asked \union DOMAIN results THEN Recorded(s)
       ELSE UNCHANGED <<failures, purgeTimer, unpaid>>
    /\ UNCHANGED <<waiting, authTimer>>

\* stop_ongoing_authentications() with ~worker(), once no handler of the worker
\* runs: its events and its waiting go with it, and a login that was under way
\* counts as failed.  The operation the commander holds goes too.
Destroy(s) ==
    /\ workers' = workers \ {s}
    /\ waiting' = Without(waiting, s)
    /\ asked' = asked \ {s} /\ results' = Without(results, s)
    /\ told' = Without(told, s) /\ held' = held \ {s}
    /\ IF s \in asked \union DOMAIN results THEN Recorded(s)
       ELSE UNCHANGED <<failures, purgeTimer, unpaid>>
    /\ UNCHANGED authTimer

\* The login timer: it is stopped during a login, unless set_timeouts() has
\* started it again.  If the worker's handler runs on the server's loop, the
\* thread waits for its end and keeps the mutex.
LoginTimeout(s) ==
    /\ Runs(s) /\ Free
    /\ phase[s] = "idle" \/ (Reconfigured /\ phase[s] \in {"USER", "PASS"})
    /\ phase' = [phase EXCEPT ![s] = "closing"]
    /\ IF handling = s
       THEN /\ holder' = s
            /\ UNCHANGED <<workers, waiting, jobs, throttle, unpaid>>
       ELSE Destroy(s) /\ UNCHANGED holder
    /\ UNCHANGED loop

\* remove_handler() returns: the handler has ended.
Unblocked(s) ==
    /\ holder = s /\ handling # s
    /\ holder' = NoSession
    /\ Destroy(s)
    /\ UNCHANGED <<phase, loop>>

-----------------------------------------------------------------------------
(* What runs on the server's loop                                           *)

\* ~session(): the client is gone, or the session was closed.
EndSession(s) ==
    /\ handling = NoSession /\ Free /\ phase[s] # "gone"
    /\ phase' = [phase EXCEPT ![s] = "gone"]
    /\ Destroy(s)
    /\ UNCHANGED <<loop, holder>>

\* The client connects again.
Connect(s) ==
    /\ handling = NoSession /\ phase[s] = "gone"
    /\ phase' = [phase EXCEPT ![s] = "idle"]
    /\ UNCHANGED <<workers, waiting, jobs, loop, throttle, holder, unpaid>>

\* The wrapped authenticator has come to a result.
Evaluate(s, outcome) ==
    /\ s \in asked
    /\ asked' = asked \ {s}
    /\ results' = With(results, s, outcome)
    /\ unpaid' = IF outcome = "wrong" THEN unpaid \union {s} ELSE unpaid
    /\ UNCHANGED <<phase, workers, waiting, told, held, loop, throttle, holder>>

\* The loop takes the result of the worker of s and calls its handler.
TakeResult(s) ==
    /\ handling = NoSession /\ s \in DOMAIN results
    /\ handling' = s /\ done' = FALSE
    /\ UNCHANGED <<phase, workers, waiting, jobs, throttle, holder, unpaid>>

\* Whether the result counts as a failed login: internal errors do not.
Charged(s) == results[s] = "wrong"

\* worker::on_operation_result(), once it has the mutex.
HandleResult(s) ==
    /\ handling = s /\ ~ done /\ Free
    /\ done' = TRUE
    /\ results' = Without(results, s)
    /\ told' = With(told, s, results[s])
    /\ IF Charged(s) THEN Recorded(s) ELSE UNCHANGED <<failures, purgeTimer, unpaid>>
    /\ UNCHANGED <<phase, workers, waiting, asked, held, handling, authTimer, holder>>

\* The handler returns to the loop.
Return ==
    /\ handling # NoSession /\ done
    /\ handling' = NoSession /\ done' = FALSE
    /\ UNCHANGED <<phase, workers, waiting, jobs, throttle, holder, unpaid>>

\* The workers whose time has come.
Due == {s \in DOMAIN waiting : waiting[s] = 0}

\* What the timer is set to after a cycle: the first of those who still wait.
Rearmed ==
    LET left == {waiting[s] : s \in DOMAIN waiting \ Due} IN
    IF left = {} THEN {Off} ELSE {d \in left : \A e \in left : d <= e}

\* operator() for auth_timer_id_.
AuthTimer ==
    /\ handling = NoSession /\ Free /\ authTimer = 0
    /\ authTimer' \in Rearmed
    /\ asked' = asked \union Due
    /\ waiting' = [s \in DOMAIN waiting \ Due |-> waiting[s]]
    /\ UNCHANGED <<phase, workers, results, told, held, loop, failures, purgeTimer, holder, unpaid>>

\* Mutated form: the timer is not armed again.
PurgeTimerOnce ==
    /\ handling = NoSession /\ Free /\ purgeTimer = 0
    /\ failures' = [k \in Keys |->
                      IF Recent(failures[k].ages) = <<>> THEN [ages |-> <<>>, next |-> 0]
                      ELSE [failures[k] EXCEPT !.ages = Recent(@)]]
    /\ purgeTimer' = Off
    /\ UNCHANGED <<phase, workers, waiting, jobs, loop, authTimer, holder, unpaid>>

\* operator() for purging_timer_id_: keys without recent failures are erased,
\* with the delay that they may have.
PurgeTimer ==
    /\ handling = NoSession /\ Free /\ purgeTimer = 0
    /\ failures' = [k \in Keys |->
                      IF Recent(failures[k].ages) = <<>> THEN [ages |-> <<>>, next |-> 0]
                      ELSE [failures[k] EXCEPT !.ages = Recent(@)]]
    /\ purgeTimer' = IF \E k \in Keys : failures'[k].ages # <<>> THEN Window ELSE Off
    /\ UNCHANGED <<phase, workers, waiting, jobs, loop, authTimer, holder, unpaid>>

Sooner(d) == IF d > 0 THEN d - 1 ELSE d

\* A unit of time passes; timers may be late.
Tick ==
    /\ authTimer > 0 \/ purgeTimer > 0
    /\ waiting' = [s \in DOMAIN waiting |-> Sooner(waiting[s])]
    /\ failures' = [k \in Keys |->
                      [ages |-> [i \in DOMAIN failures[k].ages |->
                                   Smaller(failures[k].ages[i] + 1, Old)],
                       next |-> Sooner(failures[k].next)]]
    /\ authTimer' = Sooner(authTimer)
    /\ purgeTimer' = Sooner(purgeTimer)
    /\ UNCHANGED <<phase, workers, jobs, loop, holder, unpaid>>

Next ==
    \/ \E s \in Sessions :
        \/ User(s) \/ Pass(s) \/ Deliver(s) \/ LoginTimeout(s) \/ Unblocked(s)
        \/ EndSession(s) \/ Connect(s)
        \/ TakeResult(s) \/ HandleResult(s)
        \/ \E outcome \in Outcomes : Evaluate(s, outcome)
    \/ Return
    \/ AuthTimer
    \/ PurgeTimer
    \/ Tick

\* The loops run what is due, in its turn, whatever else they run; the wrapped
\* authenticator answers; time passes.  No session has to log in, to end or to
\* time out.
Fairness ==
    /\ WF_vars(Tick) /\ SF_vars(AuthTimer) /\ SF_vars(PurgeTimer) /\ WF_vars(Return)
    /\ \A s \in Sessions :
        /\ SF_vars(Deliver(s)) /\ SF_vars(TakeResult(s)) /\ SF_vars(HandleResult(s))
        /\ WF_vars(Unblocked(s))
        /\ WF_vars(\E outcome \in Outcomes : Evaluate(s, outcome))

Spec == Init /\ [][Next]_vars
FairSpec == Spec /\ Fairness

-----------------------------------------------------------------------------
(* Properties                                                               *)

\* Failures are at most MaxFailures and delays at most Cap, and what is recorded
\* will be purged.
TypeOK ==
    /\ phase \in [Sessions -> {"idle", "USER", "PASS", "in", "closing", "gone"}]
    /\ \A d \in {workers, asked, held, unpaid, DOMAIN waiting, DOMAIN results, DOMAIN told} :
        d \subseteq Sessions
    /\ \A s \in DOMAIN waiting : waiting[s] \in 0 .. Cap
    /\ \A k \in Keys : /\ failures[k].ages \in Seq(0 .. Old)
                       /\ Len(failures[k].ages) <= MaxFailures
                       /\ failures[k].next \in 0 .. Cap
    /\ authTimer \in Off .. Cap
    /\ purgeTimer \in Off .. Window
    /\ handling \in Sessions \union {NoSession}
    /\ handling = NoSession => ~ done
    /\ holder \in Sessions \union {NoSession}
    /\ (\E k \in Keys : failures[k].ages # <<>>) => purgeTimer # Off

\* A worker lives as long as anything refers to it - its place among those who
\* wait, its events and the operations made by it - and is in one of these
\* places only; a session that waits for an answer has a worker that is about
\* to give it, and a failure is on its way to the worker until it is recorded,
\* even if the client hangs up.
WorkersOutliveTheirUse ==
    LET places == <<DOMAIN waiting, asked, DOMAIN results, DOMAIN told, held>> IN
    /\ \A i \in DOMAIN places : places[i] \subseteq workers
    /\ \A i, j \in DOMAIN places : i # j => places[i] \intersect places[j] = {}
    /\ \A s \in workers : \E i \in DOMAIN places : s \in places[i]
    /\ \A s \in Sessions : phase[s] \in {"USER", "PASS"} => s \in workers \ held
    /\ unpaid \subseteq DOMAIN results

\* A login goes to the wrapped authenticator at once only if neither the user
\* nor the address has too many recent failures, the last of them less than
\* Delay ago.
FailuresDelay ==
    [][\A s \in asked' \ (asked \union DOMAIN waiting) : \A k \in KeysOf[s] :
         LET ages == failures[k].ages IN
         ages # <<>> /\ Len(ages) >= MaxFailures => Last(ages) >= Delay]_vars

\* A login comes to an answer, or the session to its end.
LoginIsAnswered ==
    \A s \in Sessions : phase[s] \in {"USER", "PASS"} ~> phase[s] \notin {"USER", "PASS"}

\* A login waits where it has to, and is answered in the end.
LoginsTakeTheirTime == FailuresDelay /\ LoginIsAnswered

\* A login waits for its own delay, not for that of others: when its time has
\* come the timer is due (the log says "will be delayed %ds").
NobodyWaitsLonger == Due # {} => authTimer = 0

\* A session that ends its login does not wait, with the mutex, for a handler
\* that needs it (NEWS: "Fixed a deadlock if sessions destroyed during ongoing
\* authentication").
NoDeadlock == \A s \in Sessions : holder = s /\ handling = s => done

=============================================================================
