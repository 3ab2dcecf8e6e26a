--------------------- MODULE ThrottledAuthenticatorProofs ---------------------
(* Proofs about ThrottledAuthenticator, for any sessions, keys and limits.  *)
EXTENDS ThrottledAuthenticator, FiniteSetTheorems, TLAPS

Age == 0 .. Old

\* failures_t.
Failures == [ages : Seq(Age), next : 0 .. Cap]

LEMMA Constants ==
    /\ MaxFailures \in Nat /\ Old \in Nat
    /\ Window \in Nat \ {0} /\ Window <= Old
    /\ Delay \in Nat \ {0} /\ Delay <= Old /\ Delay <= Cap
    /\ Cap \in Nat \ {0}
    /\ KeysOf \in [Sessions -> SUBSET Keys]
    /\ NoSession \notin Sessions
  BY ThrottledAssumption DEF Old

-----------------------------------------------------------------------------
(* The operators on failures.                                               *)

\* Purging leaves the youngest failure, if it leaves any.
LEMMA RecentFacts ==
    ASSUME NEW ages \in Seq(Age)
    PROVE  /\ Recent(ages) \in Seq(Age)
           /\ Len(Recent(ages)) <= Len(ages)
           /\ Recent(ages) # <<>> => ages # <<>> /\ Last(Recent(ages)) = Last(ages)
  <1> PICK n \in Nat : n = Len(ages)
    OBVIOUS
  <1> DEFINE past == {i \in DOMAIN ages : \A j \in 1 .. i : ages[j] >= Window}
  <1>1. Cardinality(past) \in 0 .. n
    <2>1. past \subseteq 1 .. n
      OBVIOUS
    <2>2. IsFiniteSet(1 .. n) /\ Cardinality(1 .. n) = n
      <3>1. /\ IsFiniteSet(1 .. n)
            /\ Cardinality(1 .. n) = IF 1 > n THEN 0 ELSE n - 1 + 1
        <4>1. 1 \in Int /\ n \in Int
          OBVIOUS
        <4> QED
          BY <4>1, FS_Interval, Zenon
      <3> QED
        BY <3>1
    <2>3. IsFiniteSet(past) /\ Cardinality(past) <= n
      BY <2>1, <2>2, FS_Subset
    <2> QED
      BY <2>3, FS_CardinalityType
  <1> PICK c \in 0 .. n : c = Cardinality(past)
    BY <1>1
  <1>2. Recent(ages) = SubSeq(ages, c + 1, n)
    BY DEF Recent
  <1> HIDE DEF past
  <1>3. c + 1 \in 1 .. n + 1 /\ n - c \in Nat
    OBVIOUS
  <1>4. /\ SubSeq(ages, c + 1, n) \in Seq(Age)
        /\ Len(SubSeq(ages, c + 1, n)) = n - c
        /\ \A i \in 1 .. n - c : SubSeq(ages, c + 1, n)[i] = ages[c + i]
    BY <1>3
  <1> PICK r \in Seq(Age) : r = SubSeq(ages, c + 1, n)
    BY <1>4
  <1>5. Len(r) = n - c /\ \A i \in 1 .. n - c : r[i] = ages[c + i]
    BY <1>4
  <1>6. ASSUME r # <<>> PROVE ages # <<>> /\ r[n - c] = ages[n]
    <2>1. n - c \in 1 .. n - c
      BY <1>3, <1>5, <1>6
    <2>2. c + (n - c) = n /\ n > 0
      BY <2>1
    <2>3. r[n - c] = ages[c + (n - c)]
      BY ONLY <1>5, <2>1
    <2>4. ages # <<>>
      BY <2>2
    <2> QED
      BY ONLY <2>2, <2>3, <2>4
  <1>7. Len(r) <= Len(ages)
    BY <1>3, <1>5
  <1>8. r # <<>> => Last(r) = Last(ages)
    BY <1>5, <1>6 DEF Last
  <1> QED
    BY <1>2, <1>6, <1>7, <1>8

LEMMA NextTryType ==
    ASSUME NEW ages \in Seq(Age), NEW next \in 0 .. Cap
    PROVE  /\ NextTry(ages, next) \in 0 .. Cap
           /\ Len(ages) >= MaxFailures => NextTry(ages, next) >= Delay
  BY Constants DEF NextTry, Smaller

\* A key with too many failures delays logins until the last is old enough.
Delays(f) ==
    f.ages # <<>> /\ Len(f.ages) >= MaxFailures => f.next + Last(f.ages) >= Delay

LEMMA LastAge ==
    ASSUME NEW ages \in Seq(Age), ages # <<>>
    PROVE  Last(ages) \in Age /\ Last(ages) \in Nat
  <1>1. Len(ages) \in 1 .. Len(ages)
    OBVIOUS
  <1> QED
    BY <1>1, Constants DEF Last, Age

LEMMA FailedFacts ==
    ASSUME NEW f \in Failures, Len(f.ages) <= MaxFailures
    PROVE  /\ Failed(f) \in Failures
           /\ Len(Failed(f).ages) <= MaxFailures
           /\ Delays(Failed(f))
  <1> PICK kept \in Seq(Age) : kept = Recent(f.ages)
    BY RecentFacts DEF Failures
  <1>1. Len(kept) \in Nat /\ Len(kept) <= MaxFailures
    BY RecentFacts, Constants DEF Failures
  <1> PICK ages : ages = IF MaxFailures = 0 THEN f.ages
                         ELSE IF Len(kept) < MaxFailures THEN Append(kept, 0)
                         ELSE [kept EXCEPT ![Len(kept)] = 0]
    OBVIOUS
  <1>2. /\ ages \in Seq(Age) /\ Len(ages) <= MaxFailures
        /\ ages # <<>> => ages[Len(ages)] \in Nat
    <2>1. CASE MaxFailures = 0
      <3>1. ages = <<>> /\ ages \in Seq(Age)
        BY <2>1 DEF Failures
      <3> QED
        BY <2>1, <3>1
    <2>2. CASE MaxFailures # 0 /\ Len(kept) < MaxFailures
      <3>1. ages = Append(kept, 0) /\ 0 \in Age
        BY <2>2, Constants DEF Age
      <3> QED
        BY <1>1, <2>2, <3>1, Constants
    <2>3. CASE MaxFailures # 0 /\ ~ (Len(kept) < MaxFailures)
      <3>1. ages = [kept EXCEPT ![Len(kept)] = 0] /\ 0 \in Age
        BY <2>3, Constants DEF Age
      <3>2. Len(kept) = MaxFailures /\ Len(kept) \in 1 .. Len(kept)
        BY <1>1, <2>3, Constants
      <3>3. ages \in Seq(Age) /\ Len(ages) = Len(kept)
        <4> PICK m \in Nat : m = Len(kept)
          OBVIOUS
        <4>1. kept \in [1 .. m -> Age]
          OBVIOUS
        <4>2. ages \in [1 .. m -> Age]
          BY <3>1, <4>1
        <4> QED
          BY <4>2
      <3>4. ages[Len(ages)] = 0
        BY <3>1, <3>2, <3>3
      <3> QED
        BY <3>2, <3>3, <3>4
    <2> QED
      BY <2>1, <2>2, <2>3
  <1>3. Failed(f) = [ages |-> ages, next |-> NextTry(ages, f.next)]
    BY DEF Failed
  <1>4. f.next \in 0 .. Cap
    BY DEF Failures
  <1>5. Delays(Failed(f))
    <2> SUFFICES ASSUME ages # <<>>, Len(ages) >= MaxFailures
                 PROVE  NextTry(ages, f.next) + Last(ages) >= Delay
      BY <1>3 DEF Delays
    <2>1. NextTry(ages, f.next) \in Nat /\ NextTry(ages, f.next) >= Delay
      <3>1. NextTry(ages, f.next) \in 0 .. Cap /\ NextTry(ages, f.next) >= Delay
        BY <1>2, <1>4, NextTryType
      <3> QED
        BY <3>1, Constants
    <2>2. Last(ages) \in Nat
      BY <1>2 DEF Last
    <2> QED
      BY <2>1, <2>2, Constants
  <1>6. NextTry(ages, f.next) \in 0 .. Cap
    BY <1>2, <1>4, NextTryType
  <1> QED
    BY <1>2, <1>3, <1>5, <1>6 DEF Failures

-----------------------------------------------------------------------------
(* The invariant.                                                           *)

Types ==
    /\ phase \in [Sessions -> {"idle", "USER", "PASS", "in", "closing", "gone"}]
    /\ workers \subseteq Sessions /\ asked \subseteq Sessions
    /\ held \subseteq Sessions /\ unpaid \subseteq Sessions
    /\ DOMAIN waiting \subseteq Sessions /\ DOMAIN results \subseteq Sessions
    /\ DOMAIN told \subseteq Sessions
    /\ \A s \in DOMAIN waiting : waiting[s] \in 0 .. Cap
    /\ authTimer \in Off .. Cap /\ purgeTimer \in Off .. Window
    /\ handling \in Sessions \union {NoSession} /\ done \in BOOLEAN
    /\ handling = NoSession => ~ done
    /\ holder \in Sessions \union {NoSession}

\* The failures of each key.
FailuresOK ==
    /\ failures \in [Keys -> Failures]
    /\ \A k \in Keys : Len(failures[k].ages) <= MaxFailures /\ Delays(failures[k])
    /\ (\E k \in Keys : failures[k].ages # <<>>) => purgeTimer # Off

\* Where the worker of s is, and what its session is at meanwhile.
WorkerOK(s) ==
    /\ s \in DOMAIN waiting => s \notin asked \union DOMAIN results \union DOMAIN told \union held
    /\ s \in asked => s \notin DOMAIN results \union DOMAIN told \union held
    /\ s \in DOMAIN results => s \notin DOMAIN told \union held
    /\ s \in DOMAIN told => s \notin held
    /\ s \in workers <=>
         s \in DOMAIN waiting \union asked \union DOMAIN results \union DOMAIN told \union held
    /\ phase[s] \in {"USER", "PASS"} => s \in workers \ held
    /\ phase[s] = "idle" /\ s \in workers => s \in held
    /\ phase[s] = "gone" => s \notin workers
    /\ s \in unpaid => s \in DOMAIN results /\ results[s] = "wrong"
    /\ handling = s /\ ~ done => s \in DOMAIN results
    /\ holder = s => phase[s] = "closing"

WorkersOK == \A s \in Sessions : WorkerOK(s)

Inv == Types /\ FailuresOK /\ WorkersOK

-----------------------------------------------------------------------------
(* What actions are made of.                                                *)

\* Another session's step leaves the worker of t alone.
Same(t) ==
    /\ t \in workers' <=> t \in workers
    /\ t \in DOMAIN waiting' <=> t \in DOMAIN waiting
    /\ t \in asked' <=> t \in asked
    /\ t \in DOMAIN results' <=> t \in DOMAIN results
    /\ t \in DOMAIN results => results'[t] = results[t]
    /\ t \in DOMAIN told' <=> t \in DOMAIN told
    /\ t \in held' <=> t \in held
    /\ t \in unpaid' <=> t \in unpaid
    /\ phase'[t] = phase[t]

LEMMA SameWorker ==
    ASSUME NEW t \in Sessions, WorkerOK(t), Same(t),
           handling' = t /\ ~ done' => handling = t /\ ~ done,
           holder' = t => holder = t
    PROVE  WorkerOK(t)'
  BY DEF WorkerOK, Same

LEMMA RecordedFacts ==
    ASSUME Types, FailuresOK, NEW s \in Sessions, Recorded(s)
    PROVE  FailuresOK' /\ purgeTimer' \in Off .. Window
  <1>1. purgeTimer' # Off /\ purgeTimer' \in Off .. Window
    BY Constants DEF Recorded, Types, Off
  <1>2. ASSUME NEW k \in Keys
        PROVE  /\ failures'[k] = IF k \in KeysOf[s] THEN Failed(failures[k]) ELSE failures[k]
               /\ failures'[k] \in Failures /\ Len(failures'[k].ages) <= MaxFailures
               /\ Delays(failures'[k])
    <2>1. failures'[k] = IF k \in KeysOf[s] THEN Failed(failures[k]) ELSE failures[k]
      BY DEF Recorded
    <2>2. failures[k] \in Failures /\ Len(failures[k].ages) <= MaxFailures /\ Delays(failures[k])
      BY DEF FailuresOK
    <2>3. /\ Failed(failures[k]) \in Failures /\ Len(Failed(failures[k]).ages) <= MaxFailures
          /\ Delays(Failed(failures[k]))
      BY <2>2, FailedFacts
    <2> QED
      BY <2>1, <2>2, <2>3
  <1>3. failures' \in [Keys -> Failures]
    BY <1>2 DEF Recorded
  <1> QED
    BY <1>1, <1>2, <1>3 DEF FailuresOK

\* A login that does not have to wait finds no failure too many and too young.
LEMMA TryFacts ==
    ASSUME Types, FailuresOK, NEW s \in Sessions, TryToAuthenticate(s)
    PROVE  /\ FailuresOK' /\ purgeTimer' = purgeTimer /\ authTimer' \in Off .. Cap
           /\ \/ /\ asked' = asked \union {s} /\ waiting' = waiting
                 /\ \A k \in KeysOf[s] : failures[k].next = 0
              \/ /\ asked' = asked
                 /\ DOMAIN waiting' = DOMAIN waiting \union {s}
                 /\ \A t \in DOMAIN waiting' : waiting'[t] \in 0 .. Cap
  <1>1. purgeTimer' = purgeTimer
    BY DEF TryToAuthenticate
  <1>2. ASSUME NEW k \in Keys
        PROVE  /\ failures'[k] \in Failures /\ failures'[k].ages = failures[k].ages
               /\ Delays(failures'[k])
    <2> PICK f \in Failures : f = failures[k]
      BY DEF FailuresOK
    <2>1. /\ f.ages \in Seq(Age) /\ f.next \in 0 .. Cap /\ Delays(f)
          /\ f = [ages |-> f.ages, next |-> f.next]
      BY DEF Failures, FailuresOK
    <2>2. failures'[k] = f \/ failures'[k] = [f EXCEPT !.next = NextTry(f.ages, @)]
      BY DEF TryToAuthenticate
    <2>3. NextTry(f.ages, f.next) \in 0 .. Cap
      BY <2>1, NextTryType
    <2>4. CASE failures'[k] = [f EXCEPT !.next = NextTry(f.ages, @)]
      <3>1. /\ failures'[k] \in Failures /\ failures'[k].ages = f.ages
            /\ failures'[k].next = NextTry(f.ages, f.next)
        BY <2>1, <2>3, <2>4 DEF Failures
      <3>2. Len(f.ages) >= MaxFailures => NextTry(f.ages, f.next) >= Delay
        BY <2>1, NextTryType
      <3>3. f.ages # <<>> => Last(f.ages) \in Nat
        BY <2>1, LastAge
      <3> QED
        BY <2>3, <3>1, <3>2, <3>3, Constants DEF Delays
    <2> QED
      BY <2>1, <2>2, <2>4
  <1>3. FailuresOK'
    <2>1. failures' \in [Keys -> Failures]
      BY <1>2 DEF TryToAuthenticate
    <2> QED
      BY <1>1, <1>2, <2>1 DEF FailuresOK
  <1>4. CASE \A k \in KeysOf[s] : failures[k].next = 0
    BY <1>1, <1>3, <1>4 DEF TryToAuthenticate, Types
  <1>5. CASE ~ \A k \in KeysOf[s] : failures[k].next = 0
    <2> PICK d \in {failures[k].next : k \in KeysOf[s]} :
          waiting' = With(waiting, s, d) /\ authTimer' = Armed(d) /\ asked' = asked
      BY <1>5 DEF TryToAuthenticate
    <2>1. d \in 0 .. Cap
      BY Constants DEF FailuresOK, Failures
    <2>2. authTimer' \in Off .. Cap
      BY <2>1, Constants DEF Armed, Types, Off
    <2>3. /\ DOMAIN waiting' = DOMAIN waiting \union {s}
          /\ \A t \in DOMAIN waiting' : waiting'[t] \in 0 .. Cap
      BY <2>1 DEF With, Types
    <2> QED
      BY <1>1, <1>3, <2>2, <2>3
  <1> QED
    BY <1>4, <1>5

LEMMA DestroyFacts ==
    ASSUME NEW s \in Sessions, Types, FailuresOK, WorkerOK(s), Destroy(s)
    PROVE  /\ FailuresOK' /\ purgeTimer' \in Off .. Window
           /\ UNCHANGED authTimer
           /\ workers' = workers \ {s} /\ asked' = asked \ {s} /\ held' = held \ {s}
           /\ unpaid' = unpaid \ {s}
           /\ DOMAIN waiting' = DOMAIN waiting \ {s}
           /\ \A t \in DOMAIN waiting' : waiting'[t] = waiting[t]
           /\ DOMAIN results' = DOMAIN results \ {s}
           /\ \A t \in DOMAIN results' : results'[t] = results[t]
           /\ DOMAIN told' = DOMAIN told \ {s}
  <1>1. CASE s \in asked \union DOMAIN results
    <2>1. Recorded(s)
      BY <1>1 DEF Destroy
    <2> QED
      BY <2>1, RecordedFacts DEF Destroy, Without, Recorded
  <1>2. CASE s \notin asked \union DOMAIN results
    <2>1. UNCHANGED <<failures, purgeTimer, unpaid>> /\ s \notin unpaid
      BY <1>2 DEF Destroy, WorkerOK
    <2> QED
      BY <2>1 DEF Destroy, Without, Types, FailuresOK
  <1> QED
    BY <1>1, <1>2

-----------------------------------------------------------------------------
(* One step of each action.                                                 *)

LEMMA InvInit ==
    ASSUME Init
    PROVE  Inv
  <1>1. Types
    <2>1. waiting = <<>> /\ results = <<>> /\ told = <<>>
      BY DEF Init
    <2>2. DOMAIN waiting = {} /\ DOMAIN results = {} /\ DOMAIN told = {}
      BY <2>1
    <2>3. authTimer \in Off .. Cap /\ purgeTimer \in Off .. Window
      BY Constants DEF Init, Off
    <2> QED
      BY <2>2, <2>3 DEF Init, Types
  <1>2. FailuresOK
    <2>1. [ages |-> <<>>, next |-> 0] \in Failures
      BY Constants DEF Failures
    <2> QED
      BY <2>1, Constants DEF Init, FailuresOK, Delays
  <1>3. WorkersOK
    BY Constants DEF Init, WorkersOK, WorkerOK
  <1> QED
    BY <1>1, <1>2, <1>3 DEF Inv

LEMMA UserStep ==
    ASSUME Inv, NEW s \in Sessions, User(s)
    PROVE  Inv'
  <1>1. Types /\ FailuresOK /\ WorkersOK /\ WorkerOK(s) /\ TryToAuthenticate(s)
    BY DEF Inv, WorkersOK, User
  <1>2. /\ FailuresOK' /\ purgeTimer' = purgeTimer /\ authTimer' \in Off .. Cap
        /\ \/ /\ asked' = asked \union {s} /\ waiting' = waiting
              /\ \A k \in KeysOf[s] : failures[k].next = 0
           \/ /\ asked' = asked
              /\ DOMAIN waiting' = DOMAIN waiting \union {s}
              /\ \A t \in DOMAIN waiting' : waiting'[t] \in 0 .. Cap
    BY <1>1, TryFacts
  <1>3. Types'
    BY <1>1, <1>2 DEF Types, User, loop
  <1>4. ASSUME NEW t \in Sessions PROVE WorkerOK(t)'
    <2>1. CASE t = s
      BY <1>1, <1>2, <2>1 DEF WorkerOK, Types, User, loop, Free
    <2>2. CASE t # s
      <3>1. Same(t)
        BY <1>1, <1>2, <2>2 DEF Same, Types, User
      <3> QED
        BY <1>1, <3>1, SameWorker DEF WorkersOK, User, loop
    <2> QED
      BY <2>1, <2>2
  <1> QED
    BY <1>2, <1>3, <1>4 DEF Inv, WorkersOK

LEMMA PassStep ==
    ASSUME Inv, NEW s \in Sessions, Pass(s)
    PROVE  Inv'
  <1>1. Types /\ FailuresOK /\ WorkersOK /\ WorkerOK(s) /\ TryToAuthenticate(s)
    BY DEF Inv, WorkersOK, Pass
  <1>2. /\ FailuresOK' /\ purgeTimer' = purgeTimer /\ authTimer' \in Off .. Cap
        /\ \/ /\ asked' = asked \union {s} /\ waiting' = waiting
              /\ \A k \in KeysOf[s] : failures[k].next = 0
           \/ /\ asked' = asked
              /\ DOMAIN waiting' = DOMAIN waiting \union {s}
              /\ \A t \in DOMAIN waiting' : waiting'[t] \in 0 .. Cap
    BY <1>1, TryFacts
  <1>3. Types'
    BY <1>1, <1>2 DEF Types, Pass, loop
  <1>4. ASSUME NEW t \in Sessions PROVE WorkerOK(t)'
    <2>1. CASE t = s
      BY <1>1, <1>2, <2>1 DEF WorkerOK, Types, Pass, loop, Free
    <2>2. CASE t # s
      <3>1. Same(t)
        BY <1>1, <1>2, <2>2 DEF Same, Types, Pass
      <3> QED
        BY <1>1, <3>1, SameWorker DEF WorkersOK, Pass, loop
    <2> QED
      BY <2>1, <2>2
  <1> QED
    BY <1>2, <1>3, <1>4 DEF Inv, WorkersOK

LEMMA DeliverStep ==
    ASSUME Inv, NEW s \in Sessions, Deliver(s)
    PROVE  Inv'
  <1>1. Types /\ FailuresOK /\ WorkersOK /\ WorkerOK(s)
    BY DEF Inv, WorkersOK
  <1>2. /\ s \in DOMAIN told /\ DOMAIN told' = DOMAIN told \ {s}
        /\ phase[s] \in {"USER", "PASS"} /\ Free
        /\ phase' \in [Sessions -> {"idle", "USER", "PASS", "in", "closing", "gone"}]
        /\ phase'[s] = IF phase[s] = "PASS" /\ told[s] = "ok" THEN "in" ELSE "idle"
        /\ \A t \in Sessions \ {s} : phase'[t] = phase[t]
        /\ \/ phase[s] = "USER" /\ held' = held \union {s} /\ workers' = workers
           \/ phase[s] = "PASS" /\ workers' = workers \ {s} /\ held' = held
        /\ UNCHANGED <<waiting, asked, results, unpaid, handling, done, holder>>
        /\ UNCHANGED <<failures, authTimer, purgeTimer>>
        /\ phase[s] = "PASS" => handling # s
    BY <1>1 DEF Deliver, Types, Without, loop, throttle, Removable
  <1>3. Types'
    BY <1>1, <1>2 DEF Types
  <1>4. FailuresOK'
    BY <1>1, <1>2 DEF FailuresOK
  <1>5. ASSUME NEW t \in Sessions PROVE WorkerOK(t)'
    <2>1. CASE t = s
      BY <1>1, <1>2, <2>1 DEF WorkerOK, Types, Free
    <2>2. CASE t # s
      <3>1. Same(t)
        BY <1>1, <1>2, <2>2 DEF Same
      <3> QED
        BY <1>1, <1>2, <3>1, SameWorker DEF WorkersOK
    <2> QED
      BY <2>1, <2>2
  <1> QED
    BY <1>3, <1>4, <1>5 DEF Inv, WorkersOK

\* The login of s is stopped, by whatever ends it, and its worker destroyed.
LEMMA DestroyStep ==
    ASSUME Inv, NEW s \in Sessions, Destroy(s),
           phase' \in [Sessions -> {"idle", "USER", "PASS", "in", "closing", "gone"}],
           phase'[s] \in {"closing", "gone"},
           \A t \in Sessions \ {s} : phase'[t] = phase[t],
           UNCHANGED <<handling, done>>, handling # s,
           holder' \in {holder, NoSession}, holder' # s
    PROVE  Inv'
  <1>1. Types /\ FailuresOK /\ WorkersOK /\ WorkerOK(s)
    BY DEF Inv, WorkersOK
  <1>2. /\ FailuresOK' /\ purgeTimer' \in Off .. Window
        /\ UNCHANGED authTimer
        /\ workers' = workers \ {s} /\ asked' = asked \ {s} /\ held' = held \ {s}
        /\ unpaid' = unpaid \ {s}
        /\ DOMAIN waiting' = DOMAIN waiting \ {s}
        /\ \A t \in DOMAIN waiting' : waiting'[t] = waiting[t]
        /\ DOMAIN results' = DOMAIN results \ {s}
        /\ \A t \in DOMAIN results' : results'[t] = results[t]
        /\ DOMAIN told' = DOMAIN told \ {s}
    BY <1>1, DestroyFacts
  <1>3. Types'
    BY <1>1, <1>2 DEF Types
  <1>4. ASSUME NEW t \in Sessions PROVE WorkerOK(t)'
    <2>1. CASE t = s
      BY <1>1, <1>2, <2>1 DEF WorkerOK, Types
    <2>2. CASE t # s
      <3>1. Same(t)
        BY <1>1, <1>2, <2>2 DEF Same
      <3>2. holder' = t => holder = t
        BY Constants
      <3> QED
        BY <1>1, <3>1, <3>2, SameWorker DEF WorkersOK
    <2> QED
      BY <2>1, <2>2
  <1> QED
    BY <1>2, <1>3, <1>4 DEF Inv, WorkersOK

LEMMA LoginTimeoutStep ==
    ASSUME Inv, NEW s \in Sessions, LoginTimeout(s)
    PROVE  Inv'
  <1>1. Types /\ FailuresOK /\ WorkersOK /\ WorkerOK(s)
    BY DEF Inv, WorkersOK
  <1>2. /\ phase' \in [Sessions -> {"idle", "USER", "PASS", "in", "closing", "gone"}]
        /\ phase'[s] = "closing" /\ \A t \in Sessions \ {s} : phase'[t] = phase[t]
        /\ UNCHANGED <<handling, done>> /\ holder = NoSession
        /\ phase[s] # "gone"
    BY <1>1 DEF LoginTimeout, Types, loop, Free
  <1>3. CASE handling = s
    <2>1. /\ holder' = s
          /\ UNCHANGED <<workers, waiting, asked, results, told, held, unpaid>>
          /\ UNCHANGED <<failures, authTimer, purgeTimer>>
      BY <1>3 DEF LoginTimeout, jobs, throttle
    <2>2. Types'
      BY <1>1, <1>2, <2>1 DEF Types
    <2>3. FailuresOK'
      BY <1>1, <2>1 DEF FailuresOK
    <2>4. ASSUME NEW t \in Sessions PROVE WorkerOK(t)'
      <3>1. CASE t = s
        BY <1>1, <1>2, <2>1, <3>1 DEF WorkerOK
      <3>2. CASE t # s
        <4>1. Same(t)
          BY <1>2, <2>1, <3>2 DEF Same
        <4> QED
          BY <1>1, <1>2, <2>1, <3>2, <4>1, SameWorker DEF WorkersOK
      <3> QED
        BY <3>1, <3>2
    <2> QED
      BY <2>2, <2>3, <2>4 DEF Inv, WorkersOK
  <1>4. CASE handling # s
    <2>1. Destroy(s) /\ UNCHANGED holder
      BY <1>4 DEF LoginTimeout
    <2> QED
      BY <1>2, <1>4, <2>1, Constants, DestroyStep
  <1> QED
    BY <1>3, <1>4

LEMMA UnblockedStep ==
    ASSUME Inv, NEW s \in Sessions, Unblocked(s)
    PROVE  Inv'
  <1>1. Types /\ WorkerOK(s)
    BY DEF Inv, WorkersOK
  <1>2. phase[s] = "closing" /\ UNCHANGED <<phase, handling, done>> /\ Destroy(s)
    BY <1>1 DEF Unblocked, WorkerOK, loop
  <1> QED
    BY <1>1, <1>2, Constants, DestroyStep DEF Unblocked, Types

LEMMA EndSessionStep ==
    ASSUME Inv, NEW s \in Sessions, EndSession(s)
    PROVE  Inv'
  <1>1. Types /\ UNCHANGED <<handling, done>> /\ Destroy(s)
    BY DEF Inv, EndSession, loop
  <1>2. /\ phase' \in [Sessions -> {"idle", "USER", "PASS", "in", "closing", "gone"}]
        /\ phase'[s] = "gone" /\ \A t \in Sessions \ {s} : phase'[t] = phase[t]
    BY <1>1 DEF EndSession, Types
  <1>3. handling # s /\ holder' = holder /\ holder' # s
    BY Constants DEF EndSession, Free
  <1> QED
    BY <1>1, <1>2, <1>3, DestroyStep

LEMMA ConnectStep ==
    ASSUME Inv, NEW s \in Sessions, Connect(s)
    PROVE  Inv'
  <1>1. Types /\ FailuresOK /\ WorkersOK /\ WorkerOK(s)
    BY DEF Inv, WorkersOK
  <1>2. /\ phase' \in [Sessions -> {"idle", "USER", "PASS", "in", "closing", "gone"}]
        /\ phase[s] = "gone" /\ phase'[s] = "idle"
        /\ \A t \in Sessions \ {s} : phase'[t] = phase[t]
        /\ UNCHANGED <<workers, waiting, asked, results, told, held, unpaid>>
        /\ UNCHANGED <<handling, done, holder, failures, authTimer, purgeTimer>>
    BY <1>1 DEF Connect, Types, jobs, loop, throttle
  <1>3. Types'
    BY <1>1, <1>2 DEF Types
  <1>4. FailuresOK'
    BY <1>1, <1>2 DEF FailuresOK
  <1>5. ASSUME NEW t \in Sessions PROVE WorkerOK(t)'
    <2>1. CASE t = s
      BY <1>1, <1>2, <2>1 DEF WorkerOK
    <2>2. CASE t # s
      <3>1. Same(t)
        BY <1>2, <2>2 DEF Same
      <3> QED
        BY <1>1, <1>2, <3>1, SameWorker DEF WorkersOK
    <2> QED
      BY <2>1, <2>2
  <1> QED
    BY <1>3, <1>4, <1>5 DEF Inv, WorkersOK

LEMMA EvaluateStep ==
    ASSUME Inv, NEW s \in Sessions, NEW outcome \in Outcomes, Evaluate(s, outcome)
    PROVE  Inv'
  <1>1. Types /\ FailuresOK /\ WorkersOK /\ WorkerOK(s)
    BY DEF Inv, WorkersOK
  <1>2. /\ s \in asked /\ asked' = asked \ {s}
        /\ DOMAIN results' = DOMAIN results \union {s} /\ results'[s] = outcome
        /\ \A t \in DOMAIN results : t # s => results'[t] = results[t]
        /\ unpaid' = IF outcome = "wrong" THEN unpaid \union {s} ELSE unpaid
        /\ UNCHANGED <<phase, workers, waiting, told, held>>
        /\ UNCHANGED <<handling, done, holder, failures, authTimer, purgeTimer>>
    BY DEF Evaluate, With, loop, throttle
  <1>3. Types'
    BY <1>1, <1>2 DEF Types
  <1>4. FailuresOK'
    BY <1>1, <1>2 DEF FailuresOK
  <1>5. ASSUME NEW t \in Sessions PROVE WorkerOK(t)'
    <2>1. CASE t = s
      BY <1>1, <1>2, <2>1 DEF WorkerOK
    <2>2. CASE t # s
      <3>1. Same(t)
        BY <1>2, <2>2 DEF Same
      <3> QED
        BY <1>1, <1>2, <3>1, SameWorker DEF WorkersOK
    <2> QED
      BY <2>1, <2>2
  <1> QED
    BY <1>3, <1>4, <1>5 DEF Inv, WorkersOK

LEMMA TakeResultStep ==
    ASSUME Inv, NEW s \in Sessions, TakeResult(s)
    PROVE  Inv'
  <1>1. Types /\ FailuresOK /\ WorkersOK
    BY DEF Inv
  <1>2. /\ s \in DOMAIN results /\ handling' = s /\ done' = FALSE
        /\ UNCHANGED <<phase, workers, waiting, asked, results, told, held, unpaid>>
        /\ UNCHANGED <<holder, failures, authTimer, purgeTimer>>
    BY DEF TakeResult, jobs, throttle
  <1>3. Types'
    BY <1>1, <1>2, Constants DEF Types
  <1>4. FailuresOK'
    BY <1>1, <1>2 DEF FailuresOK
  <1>5. WorkersOK'
    BY <1>1, <1>2 DEF WorkersOK, WorkerOK
  <1> QED
    BY <1>3, <1>4, <1>5 DEF Inv

LEMMA HandleResultStep ==
    ASSUME Inv, NEW s \in Sessions, HandleResult(s)
    PROVE  Inv'
  <1>1. Types /\ FailuresOK /\ WorkersOK /\ WorkerOK(s)
    BY DEF Inv, WorkersOK
  <1>2. /\ handling = s /\ handling' = s /\ ~ done /\ done'
        /\ s \in DOMAIN results /\ DOMAIN results' = DOMAIN results \ {s}
        /\ \A t \in DOMAIN results' : results'[t] = results[t]
        /\ DOMAIN told' = DOMAIN told \union {s}
        /\ UNCHANGED <<phase, workers, waiting, asked, held, authTimer, holder>>
        /\ done' \in BOOLEAN
    BY <1>1 DEF HandleResult, WorkerOK, With, Without
  <1>3. FailuresOK' /\ purgeTimer' \in Off .. Window /\ unpaid' = unpaid \ {s}
    <2>1. CASE Charged(s)
      <3>1. Recorded(s)
        BY <2>1 DEF HandleResult
      <3> QED
        BY <1>1, <3>1, RecordedFacts DEF Recorded
    <2>2. CASE ~ Charged(s)
      <3>1. UNCHANGED <<failures, purgeTimer, unpaid>> /\ s \notin unpaid
        BY <1>1, <2>2 DEF HandleResult, Charged, WorkerOK
      <3> QED
        BY <1>1, <3>1 DEF FailuresOK, Types
    <2> QED
      BY <2>1, <2>2
  <1>4. Types'
    BY <1>1, <1>2, <1>3, Constants DEF Types
  <1>5. ASSUME NEW t \in Sessions PROVE WorkerOK(t)'
    <2>1. CASE t = s
      BY <1>1, <1>2, <1>3, <2>1 DEF WorkerOK
    <2>2. CASE t # s
      <3>1. Same(t)
        BY <1>2, <1>3, <2>2 DEF Same
      <3> QED
        BY <1>1, <1>2, <2>2, <3>1, SameWorker DEF WorkersOK
    <2> QED
      BY <2>1, <2>2
  <1> QED
    BY <1>3, <1>4, <1>5 DEF Inv, WorkersOK

LEMMA ReturnStep ==
    ASSUME Inv, Return
    PROVE  Inv'
  <1>1. Types /\ FailuresOK /\ WorkersOK
    BY DEF Inv
  <1>2. /\ handling' = NoSession /\ done' = FALSE
        /\ UNCHANGED <<phase, workers, waiting, asked, results, told, held, unpaid>>
        /\ UNCHANGED <<holder, failures, authTimer, purgeTimer>>
    BY DEF Return, jobs, throttle
  <1>3. Types'
    BY <1>1, <1>2 DEF Types
  <1>4. FailuresOK'
    BY <1>1, <1>2 DEF FailuresOK
  <1>5. WorkersOK'
    BY <1>1, <1>2, Constants DEF WorkersOK, WorkerOK
  <1> QED
    BY <1>3, <1>4, <1>5 DEF Inv

\* Those whose time has come go to the wrapped authenticator.
LEMMA AuthTimerStep ==
    ASSUME Inv, AuthTimer
    PROVE  Inv'
  <1>1. Types /\ FailuresOK /\ WorkersOK
    BY DEF Inv
  <1>2. /\ Due \subseteq DOMAIN waiting
        /\ asked' = asked \union Due /\ DOMAIN waiting' = DOMAIN waiting \ Due
        /\ \A t \in DOMAIN waiting' : waiting'[t] = waiting[t]
        /\ UNCHANGED <<phase, workers, results, told, held, unpaid>>
        /\ UNCHANGED <<handling, done, holder, failures, purgeTimer>>
    BY DEF AuthTimer, Due, loop
  <1>3. authTimer' \in Off .. Cap
    <2>1. Rearmed \subseteq {Off} \union {waiting[s] : s \in DOMAIN waiting}
      BY DEF Rearmed
    <2>2. Off .. Cap = {Off} \union 0 .. Cap
      BY Constants DEF Off
    <2> QED
      BY <1>1, <2>1, <2>2 DEF Types, AuthTimer
  <1>4. Types'
    BY <1>1, <1>2, <1>3 DEF Types
  <1>5. FailuresOK'
    BY <1>1, <1>2 DEF FailuresOK
  <1>6. WorkersOK'
    BY <1>1, <1>2 DEF WorkersOK, WorkerOK
  <1> QED
    BY <1>4, <1>5, <1>6 DEF Inv

LEMMA PurgeTimerStep ==
    ASSUME Inv, PurgeTimer
    PROVE  Inv'
  <1>1. Types /\ FailuresOK /\ WorkersOK
    BY DEF Inv
  <1>2. /\ UNCHANGED <<phase, workers, waiting, asked, results, told, held, unpaid>>
        /\ UNCHANGED <<handling, done, holder, authTimer>>
        /\ purgeTimer' = IF \E k \in Keys : failures'[k].ages # <<>> THEN Window ELSE Off
    BY DEF PurgeTimer, jobs, loop
  <1>3. Types'
    BY <1>1, <1>2, Constants DEF Types, Off
  <1>4. ASSUME NEW k \in Keys
        PROVE  /\ failures'[k] \in Failures /\ Len(failures'[k].ages) <= MaxFailures
               /\ Delays(failures'[k])
    <2> PICK f \in Failures : f = failures[k]
      BY <1>1 DEF FailuresOK
    <2>1. /\ f.ages \in Seq(Age) /\ f.next \in 0 .. Cap /\ Delays(f)
          /\ Len(f.ages) <= MaxFailures
      BY <1>1 DEF Failures, FailuresOK
    <2> PICK kept \in Seq(Age) : kept = Recent(f.ages)
      BY <2>1, RecentFacts
    <2>2. /\ Len(kept) <= Len(f.ages)
          /\ kept # <<>> => f.ages # <<>> /\ Last(kept) = Last(f.ages)
      BY <2>1, RecentFacts
    <2>3. failures'[k] = IF kept = <<>> THEN [ages |-> <<>>, next |-> 0]
                         ELSE [f EXCEPT !.ages = kept]
      BY DEF PurgeTimer
    <2>4. CASE kept = <<>>
      BY <2>3, <2>4, Constants DEF Failures, Delays
    <2>5. CASE kept # <<>>
      <3>1. /\ failures'[k] \in Failures /\ failures'[k].ages = kept
            /\ failures'[k].next = f.next
        BY <2>1, <2>3, <2>5 DEF Failures
      <3> QED
        BY <2>1, <2>2, <2>5, <3>1, Constants DEF Delays
    <2> QED
      BY <2>4, <2>5
  <1>5. failures' \in [Keys -> Failures]
    BY <1>4 DEF PurgeTimer
  <1>6. (\E k \in Keys : failures'[k].ages # <<>>) => purgeTimer' # Off
    BY <1>2, Constants DEF Off
  <1>7. FailuresOK'
    BY <1>4, <1>5, <1>6 DEF FailuresOK
  <1>8. WorkersOK'
    BY <1>1, <1>2 DEF WorkersOK, WorkerOK
  <1> QED
    BY <1>3, <1>7, <1>8 DEF Inv

\* What a delay loses to time, the age of the last failure gains.
LEMMA TickStep ==
    ASSUME Inv, Tick
    PROVE  Inv'
  <1>1. Types /\ FailuresOK /\ WorkersOK
    BY DEF Inv
  <1>2. /\ UNCHANGED <<phase, workers, asked, results, told, held, unpaid>>
        /\ UNCHANGED <<handling, done, holder>>
        /\ authTimer' = Sooner(authTimer) /\ purgeTimer' = Sooner(purgeTimer)
        /\ DOMAIN waiting' = DOMAIN waiting
        /\ \A s \in DOMAIN waiting : waiting'[s] = Sooner(waiting[s])
    BY DEF Tick, jobs, loop
  <1>3. Types'
    <2>1. \A s \in DOMAIN waiting' : waiting'[s] \in 0 .. Cap
      BY <1>1, <1>2, Constants DEF Types, Sooner
    <2>2. authTimer' \in Off .. Cap
      BY <1>1, <1>2, Constants DEF Types, Sooner, Off
    <2>3. purgeTimer' \in Off .. Window
      BY <1>1, <1>2, Constants DEF Types, Sooner, Off
    <2> QED
      BY <1>1, <1>2, <2>1, <2>2, <2>3 DEF Types
  <1>4. ASSUME NEW k \in Keys
        PROVE  /\ failures'[k] \in Failures /\ Len(failures'[k].ages) <= MaxFailures
               /\ failures'[k].ages # <<>> => failures[k].ages # <<>>
               /\ Delays(failures'[k])
    <2> PICK f \in Failures : f = failures[k]
      BY <1>1 DEF FailuresOK
    <2> PICK n \in Nat : n = Len(f.ages)
      BY DEF Failures
    <2>1. /\ f.ages \in [1 .. n -> Age] /\ f.next \in 0 .. Cap /\ Delays(f)
          /\ n <= MaxFailures /\ f.ages \in Seq(Age)
      BY <1>1 DEF Failures, FailuresOK
    <2> PICK older : older = [i \in 1 .. n |-> Smaller(f.ages[i] + 1, Old)]
      OBVIOUS
    <2> DEFINE Grown(a) == Smaller(a + 1, Old)
    <2>grown. \A a \in Age : Grown(a) \in Age
      BY Constants DEF Age, Smaller
    <2>2. older \in [1 .. n -> Age]
      <3> HIDE DEF Grown
      <3>1. older = [i \in 1 .. n |-> Grown(f.ages[i])]
        BY DEF Grown
      <3> QED
        BY ONLY <2>1, <2>grown, <3>1
    <2>3. older \in Seq(Age) /\ Len(older) = n
      BY <2>2
    <2>4. failures'[k] = [ages |-> older, next |-> Sooner(f.next)]
      <3>1. DOMAIN f.ages = 1 .. n
        BY <2>1
      <3> QED
        BY <3>1 DEF Tick
    <2>5. Sooner(f.next) \in 0 .. Cap /\ Sooner(f.next) + 1 >= f.next
      BY <2>1, Constants DEF Sooner
    <2>6. older # <<>> => f.ages # <<>>
      BY <2>1, <2>3
    <2>7. Delays(failures'[k])
      <3> SUFFICES ASSUME older # <<>>, n >= MaxFailures
                   PROVE  Sooner(f.next) + Last(older) >= Delay
        BY <2>3, <2>4 DEF Delays
      <3>1. n \in 1 .. n
        BY <2>3
      <3>2. Last(older) = Smaller(Last(f.ages) + 1, Old) /\ Last(f.ages) \in Age
        BY <2>1, <2>3, <3>1 DEF Last
      <3>3. f.next + Last(f.ages) >= Delay
        BY <2>1, <2>6 DEF Delays
      <3>4. ASSUME NEW a \in 0 .. Old, NEW x \in Int, NEW y \in Int, y + 1 >= x, y >= 0,
                   x + a >= Delay
            PROVE  y + Smaller(a + 1, Old) >= Delay
        BY ONLY <3>4, Constants DEF Smaller
      <3>5. f.next \in Int /\ Sooner(f.next) \in Int /\ Sooner(f.next) >= 0
        BY <2>1, <2>5, Constants
      <3> QED
        BY <2>5, <3>2, <3>3, <3>4, <3>5 DEF Age
    <2> QED
      BY <2>1, <2>3, <2>4, <2>5, <2>6, <2>7 DEF Failures
  <1>5. failures' \in [Keys -> Failures]
    BY <1>4 DEF Tick
  <1>6. (\E k \in Keys : failures'[k].ages # <<>>) => purgeTimer' # Off
    <2>1. purgeTimer # Off => purgeTimer' # Off
      BY <1>1, <1>2, Constants DEF Types, Sooner, Off
    <2> QED
      BY <1>1, <1>4, <2>1 DEF FailuresOK
  <1>7. FailuresOK'
    BY <1>4, <1>5, <1>6 DEF FailuresOK
  <1>8. WorkersOK'
    BY <1>1, <1>2 DEF WorkersOK, WorkerOK
  <1> QED
    BY <1>3, <1>7, <1>8 DEF Inv

LEMMA StutterStep ==
    ASSUME Inv, UNCHANGED vars
    PROVE  Inv'
  BY DEF Inv, Types, FailuresOK, WorkersOK, WorkerOK, vars, jobs, loop, throttle

-----------------------------------------------------------------------------
(* The theorems.                                                            *)

LEMMA InvHolds == Spec => []Inv
  <1>1. Init => Inv
    BY InvInit
  <1>2. Inv /\ [Next]_vars => Inv'
    <2> SUFFICES ASSUME Inv, [Next]_vars PROVE Inv'
      OBVIOUS
    <2>1. ASSUME NEW s \in Sessions,
                 \/ User(s) \/ Pass(s) \/ Deliver(s) \/ LoginTimeout(s) \/ Unblocked(s)
                 \/ EndSession(s) \/ Connect(s) \/ TakeResult(s) \/ HandleResult(s)
                 \/ \E outcome \in Outcomes : Evaluate(s, outcome)
          PROVE  Inv'
      BY <2>1, UserStep, PassStep, DeliverStep, LoginTimeoutStep, UnblockedStep,
         EndSessionStep, ConnectStep, TakeResultStep, HandleResultStep, EvaluateStep
    <2>2. CASE Return
      BY <2>2, ReturnStep
    <2>3. CASE AuthTimer
      BY <2>3, AuthTimerStep
    <2>4. CASE PurgeTimer
      BY <2>4, PurgeTimerStep
    <2>5. CASE Tick
      BY <2>5, TickStep
    <2>6. CASE UNCHANGED vars
      BY <2>6, StutterStep
    <2> QED
      BY <2>1, <2>2, <2>3, <2>4, <2>5, <2>6 DEF Next
  <1> QED
    BY <1>1, <1>2, PTL DEF Spec

\* However many sessions, users and addresses: a key never has more failures
\* than the limit nor a longer delay than the cap, and its failures are going
\* to be purged (failures_t, record_failure(), the purging timer).
THEOREM FailuresAreBounded == Spec => []TypeOK
  <1>1. Inv => TypeOK
    <2> SUFFICES ASSUME Inv PROVE TypeOK
      OBVIOUS
    <2>1. Types /\ FailuresOK
      BY DEF Inv
    <2>2. \A k \in Keys : /\ failures[k].ages \in Seq(0 .. Old)
                          /\ Len(failures[k].ages) <= MaxFailures
                          /\ failures[k].next \in 0 .. Cap
      BY <2>1 DEF FailuresOK, Failures, Age
    <2> QED
      BY <2>1, <2>2 DEF TypeOK, Types, FailuresOK
  <1> QED
    BY <1>1, InvHolds, PTL

\* A worker of the authenticator lives exactly as long as something refers to
\* it, whoever ends the login and when (try_to_authenticate(), ~worker()).
THEOREM WorkersLive == Spec => []WorkersOutliveTheirUse
  <1>1. Inv => WorkersOutliveTheirUse
    <2> SUFFICES ASSUME Inv PROVE WorkersOutliveTheirUse
      OBVIOUS
    <2>1. Types /\ \A s \in Sessions : WorkerOK(s)
      BY DEF Inv, WorkersOK
    <2> DEFINE places == <<DOMAIN waiting, asked, DOMAIN results, DOMAIN told, held>>
    <2>2. /\ DOMAIN places = 1 .. 5
          /\ places[1] = DOMAIN waiting /\ places[2] = asked
          /\ places[3] = DOMAIN results /\ places[4] = DOMAIN told /\ places[5] = held
      OBVIOUS
    <2> HIDE DEF places
    <2>3. \A i \in DOMAIN places : places[i] \subseteq Sessions
      BY <2>1, <2>2 DEF Types
    <2>4. \A i \in DOMAIN places : places[i] \subseteq workers
      BY <2>1, <2>2, <2>3 DEF WorkerOK
    <2>5. \A i, j \in DOMAIN places : i # j => places[i] \intersect places[j] = {}
      BY <2>1, <2>2, <2>3 DEF WorkerOK
    <2>6. \A s \in workers : \E i \in DOMAIN places : s \in places[i]
      BY <2>1, <2>2 DEF WorkerOK, Types
    <2>7. /\ \A s \in Sessions : phase[s] \in {"USER", "PASS"} => s \in workers \ held
          /\ unpaid \subseteq DOMAIN results
      BY <2>1 DEF WorkerOK, Types
    <2> QED
      BY <2>4, <2>5, <2>6, <2>7 DEF WorkersOutliveTheirUse, places
  <1> QED
    BY <1>1, InvHolds, PTL

\* No login reaches the wrapped authenticator without having waited while the
\* user or the address has too many failures, the last of them too young
\* (try_to_authenticate()).
THEOREM FailuresDelayLogins == Spec => FailuresDelay
  <1> DEFINE Waited ==
        \A s \in asked' \ (asked \union DOMAIN waiting) : \A k \in KeysOf[s] :
           LET ages == failures[k].ages IN
           ages # <<>> /\ Len(ages) >= MaxFailures => Last(ages) >= Delay
  <1>1. Inv /\ [Next]_vars => [Waited]_vars
    <2> SUFFICES ASSUME Inv, Next PROVE Waited
      OBVIOUS
    <2>1. Types /\ FailuresOK
      BY DEF Inv
    <2>2. ASSUME NEW s \in Sessions, TryToAuthenticate(s) PROVE Waited
      <3>1. \/ asked' = asked \union {s} /\ \A k \in KeysOf[s] : failures[k].next = 0
            \/ asked' = asked
        BY <2>1, <2>2, TryFacts
      <3>2. ASSUME NEW k \in KeysOf[s], failures[k].next = 0, failures[k].ages # <<>>,
                   Len(failures[k].ages) >= MaxFailures
            PROVE  Last(failures[k].ages) >= Delay
        <4>1. k \in Keys
          BY Constants
        <4>2. Delays(failures[k]) /\ failures[k].ages \in Seq(Age)
          BY <2>1, <4>1 DEF FailuresOK, Failures
        <4>3. Last(failures[k].ages) \in Nat
          BY <3>2, <4>2, LastAge
        <4> QED
          BY <3>2, <4>2, <4>3 DEF Delays
      <3> QED
        BY <3>1, <3>2
    <2>3. ASSUME NEW s \in Sessions, User(s) \/ Pass(s) PROVE Waited
      BY <2>2, <2>3 DEF User, Pass
    <2>4. ASSUME asked' \subseteq asked \union DOMAIN waiting PROVE Waited
      BY <2>4
    <2>5. ASSUME NEW s \in Sessions,
                 \/ Deliver(s) \/ LoginTimeout(s) \/ Unblocked(s)
                 \/ EndSession(s) \/ Connect(s) \/ TakeResult(s) \/ HandleResult(s)
                 \/ \E outcome \in Outcomes : Evaluate(s, outcome)
          PROVE  asked' \subseteq asked
      BY <2>5 DEF Deliver, LoginTimeout, Unblocked, EndSession, Connect, TakeResult,
         HandleResult, Evaluate, Destroy, jobs
    <2>6. ASSUME Return \/ AuthTimer \/ PurgeTimer \/ Tick
          PROVE  asked' \subseteq asked \union DOMAIN waiting
      BY <2>6 DEF Return, AuthTimer, PurgeTimer, Tick, Due, jobs
    <2> QED
      BY <2>3, <2>4, <2>5, <2>6 DEF Next
  <1> QED
    BY <1>1, InvHolds, PTL DEF Spec, FailuresDelay

=============================================================================
