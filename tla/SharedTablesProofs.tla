------------------------- MODULE SharedTablesProofs ------------------------
(* Proofs about the two tables that all sessions of a server share under a *)
(* mutex of its own: the passive ports (PortManager), for any sessions,    *)
(* peers and port range, and the addresses whose logins failed             *)
(* (Autobanner), for any addresses, options and durations.                 *)
EXTENDS PortManager, Autobanner, FiniteSetTheorems, TLAPS

(* The range is never empty and holds valid port numbers only. *)
LEMMA PortRange ==
    /\ LowPort \in Port
    /\ Port \subseteq Nat \ {0}
  <1>1. LowPort \in Nat \ {0} /\ HighPort \in Nat \ {0} /\ LowPort <= HighPort
    BY RangeAssumption DEF LowPort, HighPort, Clamp
  <1> QED
    BY <1>1 DEF Port

(* The search stays inside the range. *)
LEMMA AdvanceType ==
    ASSUME NEW r \in Randomizer
    PROVE  /\ NextPort(r) \in Port
           /\ Advance(r) \in Randomizer
           /\ Advance(r).prev \in Port
  <1>1. NextPort(r) \in Port
    BY PortRange DEF NextPort, Randomizer
  <1>2. Wrapped(r) \in BOOLEAN
    BY DEF Wrapped
  <1>3. Advance(r) \in Randomizer /\ Advance(r).prev = NextPort(r)
    BY <1>1, <1>2 DEF Advance, Randomizer
  <1> QED
    BY <1>1, <1>3

LEMMA EmptyTypes == NoLease \in Lease /\ NoEntry \in Entry /\ NoRandomizer \in Randomizer
  BY PortRange DEF NoLease, NoEntry, NoRandomizer, Lease, Entry, Randomizer

(* What a probe sees of the entries of a port has their type. *)
LEMMA SeenType ==
    ASSUME TypeOK, NEW s \in Session, rnd[s].prev \in Port
    PROVE  Seen(s) \in [Peer -> Entry]
  BY EmptyTypes DEF TypeOK, Seen, Prune

-----------------------------------------------------------------------------
(* What the position of a session's thread says about the session.         *)
WhereOK(s) ==
    /\ pc[s] = "decide" => rnd[s].prev \in Port
    /\ pc[s] = "clear" => lease[s].port \in Port
    /\ pc[s] \notin {"release", "clear"} => after[s] = "close"
    /\ pc[s] = "opened" => ~lease[s].connected
    /\ listening[s] => pc[s] \in {"idle", "accepted"}
    /\ listening[s] /\ pc[s] = "idle" =>
         lease[s].port \in Port /\ ~lease[s].connected

TypeInv == TypeOK /\ \A s \in Session : WhereOK(s)

LEMMA TypeInit == Init => TypeInv
  <1> SUFFICES ASSUME Init PROVE TypeInv
    OBVIOUS
  <1>1. TypeOK
    BY EmptyTypes, BoundAssumption DEF Init, TypeOK, PCs
  <1>2. \A s \in Session : WhereOK(s)
    BY DEF Init, WhereOK
  <1> QED
    BY <1>1, <1>2 DEF TypeInv

LEMMA StartPasvType ==
    ASSUME TypeInv, NEW s \in Session, StartPasv(s) PROVE TypeInv'
  <1>1. PICK f \in Port : rnd' = [rnd EXCEPT ![s] =
                   [NoRandomizer EXCEPT !.first = f, !.start = now]]
    BY DEF StartPasv
  <1>2. [NoRandomizer EXCEPT !.first = f, !.start = now] \in Randomizer
    BY EmptyTypes DEF TypeInv, TypeOK, Randomizer
  <1>3. MaxTries - 1 \in 0 .. MaxTries
    BY BoundAssumption
  <1>4. TypeOK'
    BY <1>1, <1>2, <1>3 DEF TypeInv, TypeOK, StartPasv, Answer, PCs, pool
  <1>5. \A t \in Session : WhereOK(t)'
    BY <1>1 DEF TypeInv, TypeOK, WhereOK, StartPasv, pool
  <1> QED
    BY <1>4, <1>5 DEF TypeInv

LEMMA ProbeType ==
    ASSUME TypeInv, NEW s \in Session, Probe(s) PROVE TypeInv'
  <1>1. Advance(rnd[s]) \in Randomizer /\ Advance(rnd[s]).prev \in Port
    BY AdvanceType DEF TypeInv, TypeOK
  <1>2. TypeOK'
    BY <1>1 DEF TypeInv, TypeOK, Probe, PCs
  <1>3. \A t \in Session : WhereOK(t)'
    BY <1>1 DEF TypeInv, TypeOK, WhereOK, Probe
  <1> QED
    BY <1>2, <1>3 DEF TypeInv

LEMMA GiveUpType ==
    ASSUME TypeInv, NEW s \in Session, GiveUp(s) PROVE TypeInv'
  <1>1. NextPort(rnd[s]) \in Port
    BY AdvanceType DEF TypeInv, TypeOK
  <1>a. rnd[s] \in Randomizer
    BY DEF TypeInv, TypeOK
  <1>b. [rnd[s] EXCEPT !.prev = NextPort(rnd[s])] \in Randomizer
    BY <1>1, <1>a DEF Randomizer
  <1>2. rnd' \in [Session -> Randomizer]
    BY <1>b DEF TypeInv, TypeOK, GiveUp
  <1>3. TypeOK'
    BY <1>2 DEF TypeInv, TypeOK, GiveUp, Return, PCs, pool
  <1>4. \A t \in Session : WhereOK(t)'
    BY DEF TypeInv, TypeOK, WhereOK, GiveUp, Return, pool
  <1> QED
    BY <1>3, <1>4 DEF TypeInv

LEMMA TakeType ==
    ASSUME TypeInv, NEW s \in Session, TakeSame(s) \/ TakeNew(s) PROVE TypeInv'
  <1> DEFINE new == [present |-> TRUE, leases |-> 1, expiry |-> 0]
  <1>1. rnd[s].prev \in Port /\ Seen(s) \in [Peer -> Entry]
    BY SeenType DEF TypeInv, WhereOK, TakeSame, TakeNew
  <1>2. Shared(Seen(s), PeerOf[s]) \in [Peer -> Entry]
    <2>1. Seen(s)[PeerOf[s]] \in Entry
      BY <1>1, PeerAssumption
    <2>2. [Seen(s)[PeerOf[s]] EXCEPT !.leases = @ + 1] \in Entry
      BY <2>1 DEF Entry
    <2> QED
      BY <1>1, <2>2 DEF Shared
  <1>a. [Seen(s) EXCEPT ![PeerOf[s]] = new] \in [Peer -> Entry]
    <2>1. new \in Entry
      BY DEF Entry
    <2> QED
      BY <1>1, <2>1
  <1>3. TypeOK'
    <2>1. entries' \in [Port -> [Peer -> Entry]]
      BY <1>1, <1>2, <1>a DEF TypeInv, TypeOK, TakeSame, TakeNew
    <2>2. got' \in [Session -> Port \cup {0}]
      BY <1>1 DEF TypeInv, TypeOK, TakeSame, TakeNew, Return
    <2> QED
      BY <2>1, <2>2 DEF TypeInv, TypeOK, TakeSame, TakeNew, Return, PCs
  <1>4. \A t \in Session : WhereOK(t)'
    BY DEF TypeInv, TypeOK, WhereOK, TakeSame, TakeNew, Return
  <1> QED
    BY <1>3, <1>4 DEF TypeInv

LEMMA PutBackType ==
    ASSUME TypeInv, NEW s \in Session, PutBack(s) PROVE TypeInv'
  <1>1. Seen(s) \in [Peer -> Entry]
    BY SeenType DEF TypeInv, WhereOK, PutBack
  <1> QED
    BY <1>1 DEF TypeInv, TypeOK, WhereOK, PutBack, PCs

(* The two releasing actions that settle the lease. *)
LEMMA SettleType ==
    ASSUME TypeInv, NEW s \in Session, Settle(s), pc[s] \in {"release", "clear"},
           connecting' \in [Port -> BOOLEAN], UNCHANGED <<now, entries, listening>>
    PROVE  TypeInv'
  <1>1. /\ got' \in [Session -> Port \cup {0}]
        /\ after' \in [Session -> {"install", "retry", "close"}]
    BY DEF TypeInv, TypeOK, Settle
  <1>a. rnd[s] \in Randomizer /\ now \in Nat /\ got[s] \in Port \cup {0}
    BY DEF TypeInv, TypeOK
  <1>2. /\ [port |-> got[s], connected |-> FALSE] \in Lease
        /\ [rnd[s] EXCEPT !.start = now] \in Randomizer
    BY <1>a DEF Lease, Randomizer
  <1>b. ASSUME Leave(s)
        PROVE  /\ pc' \in [Session -> PCs]
               /\ rnd' \in [Session -> Randomizer]
               /\ tries' \in [Session -> 0 .. MaxTries]
               /\ tried' \in [Session -> SUBSET Port]
    <2>1. 0 \in 0 .. MaxTries
      BY BoundAssumption
    <2> QED
      BY <1>b, <2>1, EmptyTypes DEF TypeInv, TypeOK, Leave, PCs
  <1>3. lease' \in [Session -> Lease]
    BY <1>2, EmptyTypes DEF TypeInv, TypeOK, Settle
  <1>4. /\ pc' \in [Session -> PCs]
        /\ rnd' \in [Session -> Randomizer]
        /\ tries' \in [Session -> 0 .. MaxTries]
        /\ outcome' \in [Session -> {"none", "ok", "failed"}]
        /\ tried' \in [Session -> SUBSET Port]
    <2>1. CASE after[s] = "install"
      BY <2>1 DEF TypeInv, TypeOK, Settle, PCs
    <2>2. CASE after[s] = "close"
      BY <1>b, <2>2 DEF TypeInv, TypeOK, Settle
    <2>3. CASE after[s] = "retry" /\ TriesLeft(s)
      <3>1. tries[s] - 1 \in 0 .. MaxTries
        BY <2>3, BoundAssumption DEF TypeInv, TypeOK, TriesLeft
      <3>2. /\ pc' = [pc EXCEPT ![s] = "scan"]
            /\ rnd' = [rnd EXCEPT ![s] = [rnd[s] EXCEPT !.start = now]]
            /\ tries' = [tries EXCEPT ![s] = tries[s] - 1]
            /\ UNCHANGED <<tried, outcome>>
        BY <2>3 DEF Settle
      <3> QED
        BY <1>2, <3>1, <3>2 DEF TypeInv, TypeOK, PCs
    <2>4. CASE after[s] = "retry" /\ ~TriesLeft(s)
      <3>1. Leave(s) /\ Answer(s, "failed")
        BY <2>4 DEF Settle
      <3> QED
        BY <1>b, <3>1 DEF TypeInv, TypeOK, Answer
    <2> QED
      BY <2>1, <2>2, <2>3, <2>4 DEF TypeInv, TypeOK
  <1>5. WhereOK(s)'
    <2>1. /\ pc'[s] \in {"opened", "scan", "idle"}
          /\ pc'[s] = "opened" => ~lease'[s].connected
      BY DEF TypeInv, TypeOK, Settle, Leave
    <2>2. after'[s] = "close" /\ ~listening'[s]
      BY DEF TypeInv, TypeOK, WhereOK, Settle
    <2> QED
      BY <2>1, <2>2 DEF WhereOK
  <1>6. ASSUME NEW t \in Session, t # s PROVE WhereOK(t)'
    BY <1>6 DEF TypeInv, TypeOK, WhereOK, Settle, Leave
  <1> QED
    BY <1>1, <1>3, <1>4, <1>5, <1>6 DEF TypeInv, TypeOK

LEMMA ReleaseNothingType ==
    ASSUME TypeInv, NEW s \in Session, ReleaseNothing(s) PROVE TypeInv'
  BY SettleType DEF ReleaseNothing, pool, TypeInv, TypeOK

LEMMA ReleaseEntryType ==
    ASSUME TypeInv, NEW s \in Session, ReleaseEntry(s) PROVE TypeInv'
  <1> DEFINE e == entries[lease[s].port][PeerOf[s]]
             new == [present |-> TRUE, leases |-> e.leases - 1,
                     expiry |-> now + TimeWait]
  <1>1. lease[s].port \in Port
    BY DEF ReleaseEntry, TypeInv, TypeOK, Lease
  <1>2. e \in Entry /\ now \in Nat
    BY <1>1, PeerAssumption DEF TypeInv, TypeOK
  <1>3. entries' \in [Port -> [Peer -> Entry]]
    <2>1. CASE e.present /\ e.leases > 0
      <3>1. e.leases - 1 \in Nat /\ now + TimeWait \in Nat
        BY <1>2, <2>1, BoundAssumption DEF Entry
      <3>2. new \in Entry
        BY <3>1 DEF Entry
      <3>3. entries' = [entries EXCEPT ![lease[s].port][PeerOf[s]] = new]
        BY <2>1 DEF ReleaseEntry
      <3> HIDE DEF new
      <3> QED
        BY <1>1, <3>2, <3>3 DEF TypeInv, TypeOK
    <2>2. CASE ~(e.present /\ e.leases > 0)
      BY <2>2 DEF ReleaseEntry, TypeInv, TypeOK
    <2> QED
      BY <2>1, <2>2
  <1>4. TypeOK'
    BY <1>3 DEF TypeInv, TypeOK, ReleaseEntry, PCs
  <1>5. \A t \in Session : WhereOK(t)'
    BY <1>1 DEF TypeInv, TypeOK, WhereOK, ReleaseEntry
  <1> QED
    BY <1>4, <1>5 DEF TypeInv

LEMMA ReleaseFlagType ==
    ASSUME TypeInv, NEW s \in Session, ReleaseFlag(s) PROVE TypeInv'
  <1>1. connecting' \in [Port -> BOOLEAN]
    BY DEF ReleaseFlag, Cleared, TypeInv, TypeOK, Lease
  <1> QED
    BY <1>1, SettleType DEF ReleaseFlag

LEMMA ListenType ==
    ASSUME TypeInv, NEW s \in Session,
           NoPortLeft(s) \/ ListenFails(s) \/ ListenSucceeds(s)
    PROVE  TypeInv'
  <1> USE EmptyTypes, BoundAssumption DEF TypeInv, TypeOK, WhereOK, PCs, pool
  <1>1. CASE NoPortLeft(s)
    BY <1>1 DEF NoPortLeft, Leave, Answer
  <1>2. CASE ListenFails(s)
    BY <1>2 DEF ListenFails
  <1>3. CASE ListenSucceeds(s)
    BY <1>3 DEF ListenSucceeds, Leave, Answer, Lease
  <1> QED
    BY <1>1, <1>2, <1>3

LEMMA AcceptType ==
    ASSUME TypeInv, NEW s \in Session, Accept(s) PROVE TypeInv'
  <1>1. connecting' \in [Port -> BOOLEAN]
    BY DEF Accept, Cleared, TypeInv, TypeOK, Lease
  <1>2. lease' \in [Session -> Lease]
    BY ZenonT(60) DEF Accept, TypeInv, TypeOK, Lease
  <1>3. TypeOK'
    BY <1>1, <1>2 DEF TypeInv, TypeOK, Accept, PCs
  <1>4. \A t \in Session : WhereOK(t)'
    BY DEF TypeInv, TypeOK, WhereOK, Accept
  <1> QED
    BY <1>3, <1>4 DEF TypeInv

LEMMA CloseType ==
    ASSUME TypeInv, NEW s \in Session,
           CloseListener(s) \/ CloseDataConnection(s)
    PROVE  TypeInv'
  BY ZenonT(60) DEF TypeInv, TypeOK, WhereOK, CloseListener, CloseDataConnection, PCs, pool

LEMMA TypeStep == TypeInv /\ [Next]_vars => TypeInv'
  <1> SUFFICES ASSUME TypeInv, [Next]_vars PROVE TypeInv'
    OBVIOUS
  <1>1. CASE UNCHANGED vars
    BY <1>1 DEF TypeInv, TypeOK, WhereOK, vars
  <1>2. CASE Tick
    BY <1>2 DEF TypeInv, TypeOK, WhereOK, Tick, pool
  <1>3. ASSUME NEW s \in Session, StartPasv(s) \/ Accept(s) \/ CloseDataConnection(s)
        PROVE  TypeInv'
    BY <1>3, StartPasvType, AcceptType, CloseType
  <1>4. ASSUME NEW s \in Session, Run(s) PROVE TypeInv'
    BY <1>4, ProbeType, GiveUpType, TakeType, PutBackType, ReleaseNothingType,
       ReleaseEntryType, ReleaseFlagType, ListenType, CloseType DEF Run
  <1> QED
    BY <1>1, <1>2, <1>3, <1>4 DEF Next

LEMMA TypeInvariant == Spec => []TypeInv
  BY TypeInit, TypeStep, PTL DEF Spec

(* The type invariant of PortManager. *)
THEOREM TypeCorrect == Spec => []TypeOK
  <1>1. TypeInv => TypeOK
    BY DEF TypeInv
  <1> QED
    BY <1>1, TypeInvariant, PTL

-----------------------------------------------------------------------------
(* The exclusiveness of connecting_ rests on one argument: a step changes   *)
(* what a single session owns, and takes or gives back one flag with it.    *)
OneWay(s, p) ==
    ~(Deciding(s, p) /\ Awaiting(s, p)) /\ ~(Installing(s, p) /\ Awaiting(s, p))

Exclusive ==
    \A p \in Port :
      /\ connecting[p] <=> \E s \in Session : Owns(s, p)
      /\ \A s, t \in Session : Owns(s, p) /\ Owns(t, p) => s = t
      /\ \A s \in Session : OneWay(s, p)

LEMMA ExclusiveIsInvariant == Exclusive <=> ConnectingIsExclusive
  BY DEF Exclusive, ConnectingIsExclusive, OneWay

LEMMA Keep ==
    ASSUME Exclusive, connecting' = connecting,
           \A t \in Session, p \in Port : (Owns(t, p)' <=> Owns(t, p)) /\ OneWay(t, p)'
    PROVE  Exclusive'
  BY DEF Exclusive

LEMMA Acquire ==
    ASSUME TypeInv, Exclusive, NEW s \in Session, NEW p0 \in Port, ~connecting[p0],
           connecting' = [connecting EXCEPT ![p0] = TRUE],
           \A p \in Port : Owns(s, p)' <=> Owns(s, p) \/ p = p0,
           \A t \in Session \ {s}, p \in Port : Owns(t, p)' <=> Owns(t, p),
           \A t \in Session, p \in Port : OneWay(t, p)'
    PROVE  Exclusive'
  <1>1. \A t \in Session : ~Owns(t, p0)
    BY DEF Exclusive
  <1>2. \A t \in Session, p \in Port :
          Owns(t, p)' <=> Owns(t, p) \/ (t = s /\ p = p0)
    OBVIOUS
  <1>3. \A p \in Port : connecting'[p] <=> connecting[p] \/ p = p0
    BY DEF TypeInv, TypeOK
  <1> QED
    BY <1>1, <1>2, <1>3 DEF Exclusive

LEMMA Drop ==
    ASSUME TypeInv, Exclusive, NEW s \in Session, NEW p0 \in Port, Owns(s, p0),
           connecting' = [connecting EXCEPT ![p0] = FALSE],
           \A p \in Port : Owns(s, p)' <=> Owns(s, p) /\ p # p0,
           \A t \in Session \ {s}, p \in Port : Owns(t, p)' <=> Owns(t, p),
           \A t \in Session, p \in Port : OneWay(t, p)'
    PROVE  Exclusive'
  <1>1. \A t \in Session : Owns(t, p0) => t = s
    BY DEF Exclusive
  <1>2. \A t \in Session, p \in Port :
          Owns(t, p)' <=> Owns(t, p) /\ ~(t = s /\ p = p0)
    OBVIOUS
  <1>3. \A p \in Port : connecting'[p] <=> connecting[p] /\ p # p0
    BY DEF TypeInv, TypeOK
  <1> QED
    BY <1>1, <1>2, <1>3 DEF Exclusive

(* Steps that change nothing any session owns. *)
LEMMA QuietExclusive ==
    ASSUME TypeInv, Exclusive, NEW s \in Session,
           \/ StartPasv(s) \/ GiveUp(s) \/ ReleaseEntry(s) \/ NoPortLeft(s)
           \/ ListenFails(s) \/ ListenSucceeds(s) \/ CloseListener(s)
           \/ CloseDataConnection(s)
    PROVE  Exclusive'
  <1> USE DEF TypeInv, TypeOK, WhereOK, Owns, Deciding, Installing, Awaiting, pool
  <1>1. connecting' = connecting /\ lease' = lease
    BY DEF StartPasv, GiveUp, Return, ReleaseEntry, NoPortLeft, ListenFails,
           ListenSucceeds, CloseListener, CloseDataConnection
  <1>2. \A p \in Port : Deciding(s, p)' = Deciding(s, p)
    BY DEF StartPasv, GiveUp, Return, ReleaseEntry, NoPortLeft, ListenFails,
           ListenSucceeds, CloseListener, CloseDataConnection, Leave
  <1>3. \A p \in Port : Installing(s, p)' = Installing(s, p)
    BY ZenonT(60), PortRange DEF StartPasv, GiveUp, Return, ReleaseEntry, NoPortLeft, ListenFails,
           ListenSucceeds, CloseListener, CloseDataConnection, Leave
  <1>4. \A t \in Session \ {s}, p \in Port :
          Deciding(t, p)' = Deciding(t, p) /\ Installing(t, p)' = Installing(t, p)
    BY ZenonT(60) DEF StartPasv, GiveUp, Return, ReleaseEntry, NoPortLeft, ListenFails,
           ListenSucceeds, CloseListener, CloseDataConnection, Leave
  <1> QED
    BY <1>1, <1>2, <1>3, <1>4, Keep DEF Exclusive, OneWay

LEMMA ProbeExclusive ==
    ASSUME TypeInv, Exclusive, NEW s \in Session, Probe(s) PROVE Exclusive'
  <1> DEFINE p0 == Advance(rnd[s]).prev
  <1>1. p0 \in Port
    BY AdvanceType DEF TypeInv, TypeOK
  <1>2. \A t \in Session \ {s}, p \in Port :
          (Owns(t, p)' <=> Owns(t, p)) /\ (OneWay(t, p)' <=> OneWay(t, p))
    BY DEF Probe, TypeInv, TypeOK, Owns, Deciding, Installing, Awaiting, OneWay
  <1>3. CASE connecting[p0]
    <2>1. connecting' = connecting
      BY <1>1, <1>3 DEF Probe, TypeInv, TypeOK
    <2>2. \A p \in Port : (Owns(s, p)' <=> Owns(s, p)) /\ OneWay(s, p)'
      BY <1>3 DEF Probe, TypeInv, TypeOK, Owns, Deciding, Installing, Awaiting, OneWay
    <2> QED
      BY <1>2, <2>1, <2>2, Keep DEF Exclusive
  <1>4. CASE ~connecting[p0]
    <2>1. connecting' = [connecting EXCEPT ![p0] = TRUE]
      BY DEF Probe
    <2>2. \A p \in Port : Owns(s, p)' <=> Owns(s, p) \/ p = p0
      BY <1>4 DEF Probe, TypeInv, TypeOK, Owns, Deciding, Installing, Awaiting
    <2>3. ~Awaiting(s, p0)
      BY <1>1, <1>4 DEF Exclusive, Owns
    <2>4. \A p \in Port : OneWay(s, p)'
      BY <1>4, <2>3 DEF Probe, TypeInv, TypeOK, Deciding, Installing, Awaiting, OneWay
    <2> HIDE DEF p0
    <2>5. \A t \in Session, p \in Port : OneWay(t, p)'
      BY <1>2, <2>4 DEF Exclusive
    <2> QED
      BY <1>1, <1>2, <1>4, <2>1, <2>2, <2>5, Acquire
  <1> QED
    BY <1>3, <1>4

LEMMA TakeExclusive ==
    ASSUME TypeInv, Exclusive, NEW s \in Session, TakeSame(s) \/ TakeNew(s)
    PROVE  Exclusive'
  <1>1. /\ pc[s] = "decide" /\ rnd[s].prev \in Port
        /\ pc' = [pc EXCEPT ![s] = "release"]
        /\ got' = [got EXCEPT ![s] = rnd[s].prev]
        /\ after' = [after EXCEPT ![s] = "install"]
        /\ UNCHANGED <<connecting, lease, rnd>>
    BY DEF TakeSame, TakeNew, Return, TypeInv, WhereOK
  <1>2. \A t \in Session \ {s}, p \in Port :
          (Owns(t, p)' <=> Owns(t, p)) /\ (OneWay(t, p)' <=> OneWay(t, p))
    BY <1>1 DEF TypeInv, TypeOK, Owns, Deciding, Installing, Awaiting, OneWay
  <1>3. \A p \in Port : (Owns(s, p)' <=> Owns(s, p)) /\ OneWay(s, p)'
    BY <1>1 DEF TypeInv, TypeOK, Owns, Deciding, Installing, Awaiting, OneWay, Exclusive
  <1> QED
    BY <1>1, <1>2, <1>3, Keep DEF Exclusive

LEMMA PutBackExclusive ==
    ASSUME TypeInv, Exclusive, NEW s \in Session, PutBack(s) PROVE Exclusive'
  <1> DEFINE p0 == rnd[s].prev
  <1>1. /\ pc[s] = "decide" /\ p0 \in Port
        /\ pc' = [pc EXCEPT ![s] = "scan"]
        /\ connecting' = [connecting EXCEPT ![p0] = FALSE]
        /\ UNCHANGED <<lease, rnd, got, after>>
    BY DEF PutBack, TypeInv, WhereOK
  <1>2. \A t \in Session \ {s}, p \in Port :
          (Owns(t, p)' <=> Owns(t, p)) /\ (OneWay(t, p)' <=> OneWay(t, p))
    BY <1>1 DEF TypeInv, TypeOK, Owns, Deciding, Installing, Awaiting, OneWay
  <1>3. Owns(s, p0)
    BY <1>1 DEF Owns, Deciding
  <1>4. \A p \in Port : (Owns(s, p)' <=> Owns(s, p) /\ p # p0) /\ OneWay(s, p)'
    BY <1>1 DEF TypeInv, TypeOK, Owns, Deciding, Installing, Awaiting, OneWay, Exclusive
  <1>5. \A t \in Session, p \in Port : OneWay(t, p)'
    BY <1>2, <1>4 DEF Exclusive
  <1> HIDE DEF p0
  <1> QED
    BY <1>1, <1>2, <1>3, <1>4, <1>5, Drop

(* The new lease replaces the old one, whose flag the session gives back    *)
(* only if its peer never connected.                                        *)
LEMMA ReleaseExclusive ==
    ASSUME TypeInv, Exclusive, NEW s \in Session, ReleaseNothing(s) \/ ReleaseFlag(s)
    PROVE  Exclusive'
  <1> DEFINE p0 == lease[s].port
  <1>1. /\ pc[s] \in {"release", "clear"} /\ Settle(s)
        /\ p0 = 0 \/ p0 \in Port
    BY DEF ReleaseNothing, ReleaseFlag, TypeInv, WhereOK
  <1>2. \A t \in Session \ {s}, p \in Port :
          (Owns(t, p)' <=> Owns(t, p)) /\ (OneWay(t, p)' <=> OneWay(t, p))
    BY <1>1 DEF TypeInv, TypeOK, Owns, Deciding, Installing, Awaiting, OneWay,
                Settle, Leave
  <1>3. /\ pc'[s] \in {"opened", "scan", "idle"}
        /\ lease'[s] = IF after[s] = "install"
                       THEN [port |-> got[s], connected |-> FALSE] ELSE NoLease
    BY <1>1 DEF Settle, Leave, TypeInv, TypeOK
  <1>4. \A p \in Port : Owns(s, p)' <=> Installing(s, p)
    BY <1>1, <1>3, PortRange DEF Owns, Deciding, Installing, Awaiting, NoLease
  <1>5. \A p \in Port : OneWay(s, p)'
    BY <1>3 DEF OneWay, Deciding, Installing
  <1>6. \A p \in Port : Owns(s, p) <=> Installing(s, p) \/ Awaiting(s, p)
    BY <1>1 DEF Owns, Deciding
  <1>7. \A p \in Port : ~(Installing(s, p) /\ Awaiting(s, p))
    BY DEF Exclusive, OneWay
  <1>8. CASE p0 = 0 \/ lease[s].connected
    <2>1. connecting' = connecting
      <3>1. CASE ReleaseNothing(s)
        BY <3>1 DEF ReleaseNothing, pool
      <3>2. CASE ReleaseFlag(s)
        <4>1. p0 \in Port /\ lease[s].connected
          BY <1>8, <3>2, PortRange DEF ReleaseFlag, TypeInv, WhereOK
        <4>2. connecting' = [connecting EXCEPT ![p0] = connecting[p0] /\ TRUE]
          BY <3>2, <4>1 DEF ReleaseFlag, Cleared
        <4>3. connecting \in [Port -> BOOLEAN]
          BY DEF TypeInv, TypeOK
        <4> QED
          BY <4>1, <4>2, <4>3
      <3> QED
        BY <3>1, <3>2
    <2>2. \A p \in Port : ~Awaiting(s, p)
      BY <1>8, PortRange DEF Awaiting
    <2> QED
      BY <1>2, <1>4, <1>5, <1>6, <2>1, <2>2, Keep DEF Exclusive
  <1>9. CASE p0 \in Port /\ ~lease[s].connected
    <2>1. connecting' = [connecting EXCEPT ![p0] = FALSE]
      BY <1>9, PortRange DEF ReleaseNothing, ReleaseFlag, Cleared
    <2>2. \A p \in Port : Awaiting(s, p) <=> p = p0
      BY <1>9 DEF Awaiting
    <2>3. \A p \in Port : Owns(s, p)' <=> Owns(s, p) /\ p # p0
      BY <1>4, <1>6, <1>7, <2>2
    <2>4. Owns(s, p0)
      BY <1>6, <1>9, <2>2
    <2>5. \A t \in Session, p \in Port : OneWay(t, p)'
      BY <1>2, <1>5 DEF Exclusive
    <2> HIDE DEF p0
    <2> QED
      BY <1>2, <1>9, <2>1, <2>3, <2>4, <2>5, Drop
  <1> QED
    BY <1>1, <1>8, <1>9

LEMMA AcceptExclusive ==
    ASSUME TypeInv, Exclusive, NEW s \in Session, Accept(s) PROVE Exclusive'
  <1> DEFINE p0 == lease[s].port
  <1>1. /\ pc[s] = "idle" /\ p0 \in Port /\ ~lease[s].connected
        /\ pc' = [pc EXCEPT ![s] = "accepted"]
        /\ lease' = [lease EXCEPT ![s].connected = TRUE]
        /\ UNCHANGED <<rnd, got, after>>
    BY DEF Accept, TypeInv, WhereOK
  <1>2. connecting' = [connecting EXCEPT ![p0] = FALSE]
    BY <1>1 DEF Accept, Cleared
  <1>3. \A t \in Session \ {s}, p \in Port :
          (Owns(t, p)' <=> Owns(t, p)) /\ (OneWay(t, p)' <=> OneWay(t, p))
    BY <1>1 DEF TypeInv, TypeOK, Owns, Deciding, Installing, Awaiting, OneWay
  <1>4. lease'[s].connected
    BY <1>1 DEF TypeInv, TypeOK, Lease
  <1>5. \A p \in Port : (Owns(s, p) <=> p = p0) /\ ~Owns(s, p)'
    BY <1>1, <1>4 DEF TypeInv, TypeOK, Owns, Deciding, Installing, Awaiting
  <1>6. \A p \in Port : OneWay(s, p)'
    BY <1>4 DEF OneWay, Awaiting
  <1>7. \A t \in Session, p \in Port : OneWay(t, p)'
    BY <1>3, <1>6 DEF Exclusive
  <1>8. Owns(s, p0) /\ \A p \in Port : Owns(s, p)' <=> Owns(s, p) /\ p # p0
    BY <1>1, <1>5
  <1> HIDE DEF p0
  <1> QED
    BY <1>1, <1>2, <1>3, <1>7, <1>8, Drop

LEMMA ExclusiveStep == TypeInv /\ Exclusive /\ [Next]_vars => Exclusive'
  <1> SUFFICES ASSUME TypeInv, Exclusive, [Next]_vars PROVE Exclusive'
    OBVIOUS
  <1>1. CASE UNCHANGED vars \/ Tick
    BY <1>1 DEF vars, Tick, pool, Exclusive, OneWay, Owns, Deciding, Installing, Awaiting
  <1>2. ASSUME NEW s \in Session, StartPasv(s) \/ Accept(s) \/ CloseDataConnection(s)
        PROVE  Exclusive'
    BY <1>2, QuietExclusive, AcceptExclusive
  <1>3. ASSUME NEW s \in Session, Run(s) PROVE Exclusive'
    BY <1>3, QuietExclusive, ProbeExclusive, TakeExclusive, PutBackExclusive,
       ReleaseExclusive DEF Run
  <1> QED
    BY <1>1, <1>2, <1>3 DEF Next

(* connecting_[p] is set exactly while one session, in one way, is          *)
(* responsible for it, whatever the number of sessions and ports and        *)
(* however the unguarded writes interleave.                                 *)
THEOREM ConnectingExclusive == Spec => []ConnectingIsExclusive
  <1>1. Init => Exclusive
    BY PortRange DEF Init, Exclusive, OneWay, Owns, Deciding, Installing, Awaiting, NoLease
  <1>2. Spec => []Exclusive
    BY <1>1, ExclusiveStep, TypeInvariant, PTL DEF Spec
  <1> QED
    BY <1>2, ExclusiveIsInvariant, PTL

-----------------------------------------------------------------------------
(* The counts of leases.  A session counts in an entry for the lease it     *)
(* holds, until it has been taken off (Held), and for the one it is about   *)
(* to install (Installing); it may be both, with two leases of one port.    *)
Held(s, p) == lease[s].port = p /\ pc[s] # "clear"

LEMMA OneLess ==
    ASSUME NEW S, IsFiniteSet(S), NEW x \in S
    PROVE  Cardinality(S \ {x}) = Cardinality(S) - 1
  BY FS_RemoveElement, Zenon

LEMMA LeasesAreFinite ==
    ASSUME NEW p, NEW q
    PROVE  /\ IsFiniteSet(Leases(p, q)) /\ Cardinality(Leases(p, q)) \in Nat
           /\ IsFiniteSet(Pending(p, q)) /\ Cardinality(Pending(p, q)) \in Nat
  <1>1. Leases(p, q) \in SUBSET Session /\ Pending(p, q) \in SUBSET Session
    BY DEF Leases, Pending
  <1> QED
    BY <1>1, SessionAssumption, FS_Subset, FS_CardinalityType

(* A step after which every session counts where it counted before.         *)
LEMMA KeepCounts ==
    ASSUME LeasesAreCounted,
           \A t \in Session, p \in Port :
               (Held(t, p)' <=> Held(t, p)) /\ (Installing(t, p)' <=> Installing(t, p)),
           \A p \in Port, q \in Peer :
               /\ entries'[p][q].leases = entries[p][q].leases
               /\ ~entries'[p][q].present => entries'[p][q].leases = 0
    PROVE  LeasesAreCounted'
  <1>1. \A p \in Port, q \in Peer :
          Leases(p, q)' = Leases(p, q) /\ Pending(p, q)' = Pending(p, q)
    BY DEF Leases, Pending, Held
  <1> QED
    BY <1>1 DEF LeasesAreCounted

(* What a step of s leaves alone of every other session.                    *)
LEMMA OthersCount ==
    ASSUME TypeInv, NEW s \in Session, StartPasv(s) \/ Run(s) \/ Accept(s) \/ CloseDataConnection(s)
    PROVE  \A t \in Session \ {s}, p \in Port :
               (Held(t, p)' <=> Held(t, p)) /\ (Installing(t, p)' <=> Installing(t, p))
  <1> USE DEF TypeInv, TypeOK, Held, Installing
  <1>1. CASE StartPasv(s) \/ Accept(s) \/ CloseDataConnection(s)
    BY <1>1 DEF StartPasv, Accept, CloseDataConnection
  <1>2. CASE Probe(s) \/ GiveUp(s) \/ TakeSame(s) \/ TakeNew(s) \/ PutBack(s)
    BY <1>2 DEF Probe, GiveUp, TakeSame, TakeNew, PutBack, Return
  <1>3. CASE ReleaseNothing(s) \/ ReleaseFlag(s)
    BY <1>3 DEF ReleaseNothing, ReleaseFlag, Settle, Leave
  <1>4. CASE ReleaseEntry(s) \/ NoPortLeft(s) \/ ListenFails(s) \/ ListenSucceeds(s) \/ CloseListener(s)
    BY <1>4 DEF ReleaseEntry, NoPortLeft, ListenFails, ListenSucceeds, CloseListener, Leave
  <1> QED
    BY <1>1, <1>2, <1>3, <1>4 DEF Run

(* What a probe sees has the counts of what is there.                       *)
LEMMA SeenCounts ==
    ASSUME TypeInv, LeasesAreCounted, NEW s \in Session, rnd[s].prev \in Port, NEW q \in Peer
    PROVE  /\ Seen(s)[q].leases = entries[rnd[s].prev][q].leases
           /\ ~Seen(s)[q].present => Seen(s)[q].leases = 0
  <1>1. entries[rnd[s].prev] \in [Peer -> Entry]
    BY DEF TypeInv, TypeOK
  <1> QED
    BY <1>1 DEF Seen, Prune, NoEntry, LeasesAreCounted

(* Steps that leave the entries, the leases and what is installed alone.    *)
LEMMA QuietCounts ==
    ASSUME TypeInv, LeasesAreCounted, NEW s \in Session,
           \/ StartPasv(s) \/ Probe(s) \/ GiveUp(s) \/ NoPortLeft(s) \/ ListenFails(s)
           \/ ListenSucceeds(s) \/ Accept(s) \/ CloseListener(s) \/ CloseDataConnection(s)
    PROVE  LeasesAreCounted'
  <1>1. entries' = entries
    BY DEF StartPasv, Probe, GiveUp, NoPortLeft, ListenFails, ListenSucceeds, Accept,
           CloseListener, CloseDataConnection, pool
  <1>2. \A p \in Port : Held(s, p)' <=> Held(s, p)
    <2>1. lease'[s].port = lease[s].port
      <3>1. CASE Accept(s)
        BY <3>1 DEF TypeInv, TypeOK, Lease, Accept
      <3>2. CASE ~Accept(s)
        BY <3>2 DEF StartPasv, Probe, GiveUp, NoPortLeft, ListenFails,
                    ListenSucceeds, CloseListener, CloseDataConnection
      <3> QED
        BY <3>1, <3>2
    <2>2. pc[s] # "clear" /\ pc'[s] # "clear"
      BY DEF TypeInv, TypeOK, StartPasv, Probe, GiveUp, NoPortLeft, ListenFails,
             ListenSucceeds, Accept, CloseListener, CloseDataConnection, Return, Leave
    <2> QED
      BY <2>1, <2>2 DEF Held
  <1>3. \A p \in Port : Installing(s, p)' <=> Installing(s, p)
    BY ZenonT(60), PortRange DEF TypeInv, TypeOK, WhereOK, Installing, StartPasv, Probe, GiveUp,
           NoPortLeft, ListenFails, ListenSucceeds, Accept, CloseListener,
           CloseDataConnection, Return, Leave
  <1>4. \A t \in Session, p \in Port :
            (Held(t, p)' <=> Held(t, p)) /\ (Installing(t, p)' <=> Installing(t, p))
    BY <1>2, <1>3, OthersCount DEF Run
  <1>5. \A p \in Port, q \in Peer : ~entries[p][q].present => entries[p][q].leases = 0
    BY DEF LeasesAreCounted
  <1> QED
    BY <1>1, <1>4, <1>5, KeepCounts

LEMMA PutBackCounts ==
    ASSUME TypeInv, LeasesAreCounted, NEW s \in Session, PutBack(s)
    PROVE  LeasesAreCounted'
  <1> DEFINE p0 == rnd[s].prev
  <1>1. p0 \in Port /\ entries' = [entries EXCEPT ![p0] = Seen(s)]
    BY DEF PutBack, TypeInv, WhereOK
  <1>2. \A q \in Peer : /\ Seen(s)[q].leases = entries[p0][q].leases
                        /\ ~Seen(s)[q].present => Seen(s)[q].leases = 0
    BY <1>1, SeenCounts
  <1>3. \A p \in Port, q \in Peer :
          /\ entries'[p][q].leases = entries[p][q].leases
          /\ ~entries'[p][q].present => entries'[p][q].leases = 0
    <2>1. DOMAIN entries = Port
      BY DEF TypeInv, TypeOK
    <2> QED
      BY <1>1, <1>2, <2>1 DEF LeasesAreCounted
  <1>4. \A p \in Port : (Held(s, p)' <=> Held(s, p)) /\ (Installing(s, p)' <=> Installing(s, p))
    BY DEF TypeInv, TypeOK, Held, Installing, PutBack
  <1>5. \A t \in Session, p \in Port :
            (Held(t, p)' <=> Held(t, p)) /\ (Installing(t, p)' <=> Installing(t, p))
    BY <1>4, OthersCount DEF Run
  <1> QED
    BY <1>3, <1>5, KeepCounts

(* The port is handed out: the session is counted as installing it.         *)
LEMMA TakeCounts ==
    ASSUME TypeInv, LeasesAreCounted, NEW s \in Session, TakeSame(s) \/ TakeNew(s)
    PROVE  LeasesAreCounted'
  <1> PICK p0 \in Port, q0 \in Peer : p0 = rnd[s].prev /\ q0 = PeerOf[s]
    BY PeerAssumption DEF TakeSame, TakeNew, TypeInv, WhereOK
  <1>1. /\ pc[s] = "decide"
        /\ pc' = [pc EXCEPT ![s] = "release"]
        /\ got' = [got EXCEPT ![s] = p0]
        /\ after' = [after EXCEPT ![s] = "install"]
        /\ lease' = lease
    BY DEF TakeSame, TakeNew, Return
  <1>2. \A q \in Peer : /\ Seen(s)[q].leases = entries[p0][q].leases
                        /\ ~Seen(s)[q].present => Seen(s)[q].leases = 0
    BY <1>1, SeenCounts
  <1>3. Seen(s) \in [Peer -> Entry] /\ entries \in [Port -> [Peer -> Entry]]
    BY <1>1, SeenType DEF TypeInv, TypeOK
  <1>4. /\ \A p \in Port, q \in Peer : p # p0 => entries'[p][q] = entries[p][q]
        /\ \A q \in Peer : q # q0 => entries'[p0][q] = Seen(s)[q]
        /\ entries'[p0][q0].leases = entries[p0][q0].leases + 1
        /\ entries'[p0][q0].present
    <2>1. CASE TakeSame(s)
      BY <1>1, <1>2, <1>3, <2>1 DEF TakeSame, Shared, Entry
    <2>2. CASE TakeNew(s)
      BY <1>1, <1>2, <1>3, <2>2 DEF TakeNew, Entry
    <2> QED
      BY <2>1, <2>2
  <1>5. \A p \in Port : /\ Held(s, p)' <=> Held(s, p)
                        /\ ~Installing(s, p)
                        /\ Installing(s, p)' <=> p = p0
    BY <1>1 DEF TypeInv, TypeOK, Held, Installing
  <1>6. \A p \in Port, q \in Peer :
          /\ Leases(p, q)' = Leases(p, q)
          /\ p # p0 \/ q # q0 => Pending(p, q)' = Pending(p, q)
    BY <1>5, OthersCount DEF Run, Leases, Pending, Held
  <1>7. Cardinality(Pending(p0, q0)') = Cardinality(Pending(p0, q0)) + 1
    <2>1. Pending(p0, q0)' = Pending(p0, q0) \cup {s} /\ s \notin Pending(p0, q0)
      BY <1>1, <1>5, OthersCount DEF Run, Pending
    <2> QED
      BY ZenonT(60), <2>1, LeasesAreFinite, FS_AddElement
  <1> QED
    BY <1>1, <1>2, <1>4, <1>6, <1>7, LeasesAreFinite DEF LeasesAreCounted

(* The lease has been counted, so that there is something to take off.      *)
LEMMA ReleaseEntryCounts ==
    ASSUME TypeInv, LeasesAreCounted, NEW s \in Session, ReleaseEntry(s)
    PROVE  LeasesAreCounted'
  <1> PICK p0 \in Port, q0 \in Peer : p0 = lease[s].port /\ q0 = PeerOf[s]
    BY PeerAssumption DEF ReleaseEntry, TypeInv, TypeOK, Lease
  <1>1. /\ pc[s] = "release" /\ pc' = [pc EXCEPT ![s] = "clear"]
        /\ UNCHANGED <<lease, got, after>>
    BY DEF ReleaseEntry
  <1>2. s \in Leases(p0, q0)
    BY <1>1 DEF Leases
  <1>3. Cardinality(Leases(p0, q0)) > 0
    BY <1>2, LeasesAreFinite, FS_EmptySet
  <1>4. entries[p0][q0].leases > 0 /\ entries[p0][q0].present
    BY <1>3, LeasesAreFinite DEF LeasesAreCounted
  <1>5. /\ \A p \in Port, q \in Peer : p # p0 \/ q # q0 => entries'[p][q] = entries[p][q]
        /\ entries'[p0][q0].leases = entries[p0][q0].leases - 1
        /\ entries'[p0][q0].present
    <2>1. entries \in [Port -> [Peer -> Entry]]
      BY DEF TypeInv, TypeOK
    <2> QED
      BY <1>4, <2>1 DEF ReleaseEntry
  <1>6. \A p \in Port : /\ Held(s, p) <=> p = p0
                        /\ ~Held(s, p)'
                        /\ Installing(s, p)' <=> Installing(s, p)
    BY <1>1 DEF TypeInv, TypeOK, Held, Installing
  <1>7. \A p \in Port, q \in Peer :
          /\ Pending(p, q)' = Pending(p, q)
          /\ p # p0 \/ q # q0 => Leases(p, q)' = Leases(p, q)
    BY <1>6, OthersCount DEF Run, Leases, Pending, Held
  <1>8. Cardinality(Leases(p0, q0)') = Cardinality(Leases(p0, q0)) - 1
    <2>1. Leases(p0, q0)' = Leases(p0, q0) \ {s}
      BY <1>6, OthersCount DEF Run, Leases, Held
    <2> QED
      BY <1>2, <2>1, LeasesAreFinite, OneLess
  <1> QED
    BY <1>4, <1>5, <1>7, <1>8, LeasesAreFinite DEF LeasesAreCounted

(* The old lease counts no more; the new one is held instead of installed.  *)
LEMMA SettleCounts ==
    ASSUME TypeInv, LeasesAreCounted, NEW s \in Session, ReleaseNothing(s) \/ ReleaseFlag(s)
    PROVE  LeasesAreCounted'
  <1>1. Settle(s) /\ entries' = entries
    BY DEF ReleaseNothing, ReleaseFlag, pool
  <1>2. \A p \in Port : ~Held(s, p)
    BY PortRange DEF ReleaseNothing, ReleaseFlag, Held
  <1>3. /\ after'[s] = "close" /\ pc'[s] # "clear"
        /\ lease'[s] = IF after[s] = "install"
                       THEN [port |-> got[s], connected |-> FALSE] ELSE NoLease
    BY <1>1 DEF Settle, Leave, TypeInv, TypeOK
  <1>4. \A p \in Port : ~Installing(s, p)' /\ (Held(s, p)' <=> Installing(s, p))
    BY <1>3, PortRange DEF Installing, Held, NoLease, ReleaseNothing, ReleaseFlag
  <1>5. ASSUME NEW p \in Port, NEW q \in Peer
        PROVE  Cardinality(Leases(p, q)') + Cardinality(Pending(p, q)')
                 = Cardinality(Leases(p, q)) + Cardinality(Pending(p, q))
    <2>1. CASE PeerOf[s] = q /\ Installing(s, p)
      <3>1. /\ Leases(p, q)' = Leases(p, q) \cup {s} /\ s \notin Leases(p, q)
            /\ Pending(p, q)' = Pending(p, q) \ {s} /\ s \in Pending(p, q)
        BY <1>2, <1>4, <2>1, OthersCount DEF Run, Leases, Pending, Held
      <3>2. Cardinality(Leases(p, q)') = Cardinality(Leases(p, q)) + 1
        BY <3>1, LeasesAreFinite, FS_AddElement
      <3>3. Cardinality(Pending(p, q)') = Cardinality(Pending(p, q)) - 1
        BY <3>1, LeasesAreFinite, OneLess
      <3> QED
        BY <3>2, <3>3, LeasesAreFinite
    <2>2. CASE ~(PeerOf[s] = q /\ Installing(s, p))
      <3>1. Leases(p, q)' = Leases(p, q) /\ Pending(p, q)' = Pending(p, q)
        BY <1>2, <1>4, <2>2, OthersCount DEF Run, Leases, Pending, Held
      <3> QED
        BY <3>1
    <2> QED
      BY <2>1, <2>2
  <1> QED
    BY <1>1, <1>5 DEF LeasesAreCounted

LEMMA CountsStep == TypeInv /\ LeasesAreCounted /\ [Next]_vars => LeasesAreCounted'
  <1> SUFFICES ASSUME TypeInv, LeasesAreCounted, [Next]_vars PROVE LeasesAreCounted'
    OBVIOUS
  <1>1. CASE UNCHANGED vars \/ Tick
    BY <1>1 DEF vars, Tick, pool, LeasesAreCounted, Leases, Pending, Installing
  <1>2. ASSUME NEW s \in Session, StartPasv(s) \/ Accept(s) \/ CloseDataConnection(s)
        PROVE  LeasesAreCounted'
    BY <1>2, QuietCounts
  <1>3. ASSUME NEW s \in Session, Run(s) PROVE LeasesAreCounted'
    BY <1>3, QuietCounts, TakeCounts, PutBackCounts, SettleCounts, ReleaseEntryCounts DEF Run
  <1> QED
    BY <1>1, <1>2, <1>3 DEF Next

(* leases_ of an entry is the number of leases of the peer that are alive   *)
(* or about to be, although release() gives a lease back in two halves and  *)
(* an assignment takes the new one before it releases the old one.          *)
THEOREM LeasesCounted == Spec => []LeasesAreCounted
  <1>1. Init => LeasesAreCounted
    <2> SUFFICES ASSUME Init, NEW p \in Port, NEW q \in Peer
                 PROVE  /\ entries[p][q].leases = Cardinality(Leases(p, q)) + Cardinality(Pending(p, q))
                        /\ ~entries[p][q].present => entries[p][q].leases = 0
      BY DEF LeasesAreCounted
    <2>1. Leases(p, q) = {} /\ Pending(p, q) = {} /\ entries[p][q] = NoEntry
      BY PortRange DEF Init, Leases, Pending, Installing, NoLease
    <2> QED
      BY <2>1, FS_EmptySet DEF NoEntry
  <1> QED
    BY <1>1, CountsStep, TypeInvariant, PTL DEF Spec

-----------------------------------------------------------------------------
(* The search goes round the range: between two relaxations it has probed  *)
(* the ports from the first one to the last one probed.                    *)
Arc(r) ==
    IF r.prev = 0 THEN {}
    ELSE {p \in Port : IF r.first <= r.prev THEN r.first <= p /\ p <= r.prev
                       ELSE r.first <= p \/ p <= r.prev}

LEMMA NextOnArc ==
    ASSUME NEW r \in Randomizer
    PROVE  /\ Wrapped(r) => Arc(r) = Port
           /\ Arc(Advance(r)) = IF Wrapped(r) THEN {NextPort(r)}
                                ELSE Arc(r) \cup {NextPort(r)}
  <1>1. PICK lo \in Nat \ {0}, hi \in Nat \ {0} :
          lo <= hi /\ lo = LowPort /\ Port = lo .. hi
    BY RangeAssumption DEF LowPort, HighPort, Clamp, Port
  <1>2. r.first \in lo .. hi /\ r.prev \in (lo .. hi) \cup {0}
    BY <1>1 DEF Randomizer
  <1>3. NextPort(r) = IF r.prev = 0 THEN r.first
                      ELSE IF r.prev < hi THEN r.prev + 1 ELSE lo
    BY <1>1, <1>2 DEF NextPort
  <1>4. Advance(r).first = r.first /\ Advance(r).prev = NextPort(r)
    BY DEF Advance, Randomizer
  <1>5. ASSUME Wrapped(r)
        PROVE  Arc(r) = Port /\ Arc(Advance(r)) = {NextPort(r)}
    <2>1. r.prev # 0 /\ NextPort(r) = r.first
      BY <1>5 DEF Wrapped
    <2>2. Arc(r) = Port
      BY <1>1, <1>2, <1>3, <2>1 DEF Arc
    <2>3. Arc(Advance(r)) = {NextPort(r)}
      BY <1>1, <1>2, <1>4, <2>1 DEF Arc
    <2> QED
      BY <2>2, <2>3
  <1>6. ASSUME ~Wrapped(r)
        PROVE  Arc(Advance(r)) = Arc(r) \cup {NextPort(r)}
    <2>1. CASE r.prev = 0
      BY <1>1, <1>2, <1>3, <1>4, <2>1 DEF Arc
    <2>2. CASE r.prev # 0
      <3>1. NextPort(r) # r.first
        BY <1>6, <2>2 DEF Wrapped
      <3>2. NextPort(r) \in lo .. hi
        BY <1>1, <1>2, <1>3
      <3> QED
        BY <1>1, <1>2, <1>3, <1>4, <2>2, <3>1, <3>2 DEF Arc
    <2> QED
      BY <2>1, <2>2
  <1> QED
    BY <1>5, <1>6

(* tried is what was probed since the last relaxation, until the search    *)
(* has given up: then it is the whole range.                               *)
Probed(s)    == tried[s] = Arc(rnd[s])
AllProbed(s) == rnd[s].reuseOther /\ rnd[s].reuseSame /\ tried[s] = Port
SearchOK(s) ==
    /\ pc[s] \in {"scan", "decide"} => Probed(s)
    /\ pc[s] \in {"release", "clear"} /\ after[s] = "install" =>
         IF got[s] = 0 THEN AllProbed(s) ELSE Probed(s)
    /\ pc[s] \in {"release", "clear"} /\ after[s] = "retry" => Probed(s)
    /\ pc[s] = "opened" => IF lease[s].port = 0 THEN AllProbed(s) ELSE Probed(s)
SearchInv == \A s \in Session : SearchOK(s)

(* The search and its session only move together.                          *)
LEMMA OthersSearch ==
    ASSUME TypeInv, NEW s \in Session, NEW t \in Session \ {s}, SearchOK(t),
           StartPasv(s) \/ Run(s) \/ Accept(s) \/ CloseDataConnection(s)
    PROVE  SearchOK(t)'
  <1>1. /\ pc'[t] = pc[t] /\ rnd'[t] = rnd[t] /\ tried'[t] = tried[t]
        /\ got'[t] = got[t] /\ after'[t] = after[t] /\ lease'[t] = lease[t]
    <2>1. CASE StartPasv(s) \/ Accept(s) \/ CloseDataConnection(s)
      BY <2>1 DEF TypeInv, TypeOK, StartPasv, Accept, CloseDataConnection
    <2>2. CASE Probe(s) \/ GiveUp(s) \/ TakeSame(s) \/ TakeNew(s) \/ PutBack(s)
      BY <2>2 DEF TypeInv, TypeOK, Probe, GiveUp, TakeSame, TakeNew, PutBack, Return
    <2>3. CASE ReleaseNothing(s) \/ ReleaseFlag(s)
      BY <2>3 DEF TypeInv, TypeOK, ReleaseNothing, ReleaseFlag, Settle, Leave
    <2>4. CASE ReleaseEntry(s) \/ NoPortLeft(s) \/ ListenFails(s) \/ ListenSucceeds(s) \/ CloseListener(s)
      BY <2>4 DEF TypeInv, TypeOK, ReleaseEntry, NoPortLeft, ListenFails,
                  ListenSucceeds, CloseListener, Leave
    <2> QED
      BY <2>1, <2>2, <2>3, <2>4 DEF Run
  <1> QED
    BY <1>1 DEF SearchOK, Probed, AllProbed

(* Steps after which the session searches, or still searches.              *)
LEMMA SearchSteps ==
    ASSUME TypeInv, NEW s \in Session, SearchOK(s),
           StartPasv(s) \/ Probe(s) \/ GiveUp(s) \/ TakeSame(s) \/ TakeNew(s) \/ PutBack(s)
    PROVE  SearchOK(s)'
  <1>1. rnd[s] \in Randomizer /\ Port \subseteq Nat \ {0}
    BY PortRange DEF TypeInv, TypeOK
  <1>2. CASE StartPasv(s)
    BY <1>2 DEF TypeInv, TypeOK, StartPasv, NoRandomizer, SearchOK, Probed, Arc
  <1>3. CASE Probe(s)
    <2>1. pc[s] = "scan" /\ pc'[s] \in {"scan", "decide"}
      BY <1>3 DEF TypeInv, TypeOK, Probe
    <2>2. Probed(s) /\ rnd'[s] = Advance(rnd[s])
      BY <1>3, <2>1 DEF TypeInv, TypeOK, SearchOK, Probe
    <2>3. tried'[s] = IF Wrapped(rnd[s]) THEN {NextPort(rnd[s])}
                      ELSE tried[s] \cup {NextPort(rnd[s])}
      <3>1. Advance(rnd[s]).prev = NextPort(rnd[s])
        BY <1>1 DEF Advance, Randomizer
      <3> QED
        BY <1>3, <3>1 DEF TypeInv, TypeOK, Probe
    <2> QED
      BY <1>1, <2>1, <2>2, <2>3, NextOnArc DEF SearchOK, Probed
  <1>4. CASE GiveUp(s)
    <2>1. pc[s] = "scan" /\ pc'[s] = "release" /\ after'[s] = "install" /\ got'[s] = 0
      BY <1>4 DEF TypeInv, TypeOK, GiveUp, Return
    <2>2. rnd[s].reuseOther /\ rnd[s].reuseSame /\ tried[s] = Port
      BY <1>1, <1>4, <2>1, NextOnArc DEF GiveUp, Exhausted, SearchOK, Probed
    <2>3. /\ rnd'[s].reuseOther /\ rnd'[s].reuseSame /\ tried' = tried
      BY <1>1, <1>4, <2>2 DEF TypeInv, TypeOK, Randomizer, GiveUp
    <2> QED
      BY <2>1, <2>2, <2>3 DEF SearchOK, AllProbed
  <1>5. CASE TakeSame(s) \/ TakeNew(s)
    <2>1. /\ pc[s] = "decide" /\ pc'[s] = "release" /\ after'[s] = "install"
          /\ got'[s] = rnd[s].prev /\ rnd[s].prev # 0 /\ UNCHANGED <<rnd, tried>>
      BY <1>1, <1>5 DEF TypeInv, TypeOK, WhereOK, TakeSame, TakeNew, Return
    <2> QED
      BY <2>1 DEF SearchOK, Probed
  <1>6. CASE PutBack(s)
    BY <1>6 DEF TypeInv, TypeOK, PutBack, SearchOK, Probed
  <1> QED
    BY <1>2, <1>3, <1>4, <1>5, <1>6

(* Installing the lease carries the search over, and so does a retry.      *)
LEMMA LeaseSteps ==
    ASSUME TypeInv, NEW s \in Session, SearchOK(s),
           \/ ReleaseNothing(s) \/ ReleaseFlag(s) \/ ReleaseEntry(s) \/ NoPortLeft(s)
           \/ ListenFails(s) \/ ListenSucceeds(s) \/ CloseListener(s)
           \/ Accept(s) \/ CloseDataConnection(s)
    PROVE  SearchOK(s)'
  <1>1. CASE ReleaseNothing(s) \/ ReleaseFlag(s)
    <2>1. Settle(s) /\ pc[s] \in {"release", "clear"}
      BY <1>1 DEF ReleaseNothing, ReleaseFlag
    <2>2. CASE after[s] = "install"
      <3>1. pc'[s] = "opened" /\ lease'[s].port = got[s] /\ UNCHANGED <<rnd, tried>>
        BY <2>1, <2>2 DEF TypeInv, TypeOK, Settle
      <3> QED
        BY <2>1, <2>2, <3>1 DEF SearchOK, Probed, AllProbed
    <2>3. CASE after[s] = "retry"
      <3>1. CASE TriesLeft(s)
        <4>1. /\ pc'[s] = "scan" /\ tried' = tried
              /\ rnd'[s].first = rnd[s].first /\ rnd'[s].prev = rnd[s].prev
          BY <2>1, <2>3, <3>1 DEF TypeInv, TypeOK, Randomizer, Settle
        <4> QED
          BY <2>1, <2>3, <4>1 DEF SearchOK, Probed, Arc
      <3>2. CASE ~TriesLeft(s)
        BY <2>1, <2>3, <3>2 DEF TypeInv, TypeOK, Settle, Leave, SearchOK
      <3> QED
        BY <3>1, <3>2
    <2>4. CASE after[s] = "close"
      BY <2>1, <2>4 DEF TypeInv, TypeOK, Settle, Leave, SearchOK
    <2> QED
      BY <2>1, <2>2, <2>3, <2>4 DEF Settle
  <1>2. CASE ReleaseEntry(s)
    BY <1>2 DEF TypeInv, TypeOK, ReleaseEntry, SearchOK, Probed, AllProbed
  <1>3. CASE ListenFails(s)
    BY <1>3 DEF TypeInv, TypeOK, ListenFails, SearchOK, Probed
  <1>4. CASE NoPortLeft(s) \/ ListenSucceeds(s) \/ CloseListener(s) \/ Accept(s)
    BY <1>4 DEF TypeInv, TypeOK, NoPortLeft, ListenSucceeds, CloseListener, Accept,
                Leave, SearchOK
  <1>5. CASE CloseDataConnection(s)
    BY <1>5 DEF TypeInv, TypeOK, WhereOK, CloseDataConnection, SearchOK
  <1> QED
    BY <1>1, <1>2, <1>3, <1>4, <1>5

LEMMA SearchStep == TypeInv /\ SearchInv /\ [Next]_vars => SearchInv'
  <1> SUFFICES ASSUME TypeInv, SearchInv, [Next]_vars, NEW t \in Session
               PROVE  SearchOK(t)'
    BY DEF SearchInv
  <1>1. CASE UNCHANGED vars \/ Tick
    BY <1>1 DEF vars, Tick, SearchInv, SearchOK, Probed, AllProbed
  <1>2. ASSUME NEW s \in Session,
               StartPasv(s) \/ Run(s) \/ Accept(s) \/ CloseDataConnection(s)
        PROVE  SearchOK(t)'
    <2>1. CASE t = s
      BY <1>2, <2>1, SearchSteps, LeaseSteps DEF SearchInv, Run
    <2>2. CASE t # s
      BY <1>2, <2>2, OthersSearch DEF SearchInv
    <2> QED
      BY <2>1, <2>2
  <1> QED
    BY <1>1, <1>2 DEF Next

(* A search that finds no port has probed every port of the range in its   *)
(* last and most permissive pass, wherever in the range it began and       *)
(* however often listen() made it go on.                                   *)
THEOREM GivesUpLate == Spec => []GivesUpAfterFullPass
  <1>1. Init => SearchInv
    BY DEF Init, SearchInv, SearchOK
  <1>2. SearchInv => GivesUpAfterFullPass
    BY DEF SearchInv, SearchOK, AllProbed, GivesUpAfterFullPass
  <1> QED
    BY <1>1, <1>2, SearchStep, TypeInvariant, PTL DEF Spec

(***************************************************************************)
(* Autobanner.                                                             *)
(***************************************************************************)
Age == 0 .. Old

LEMMA Constants ==
    /\ Old \in Nat /\ Old = Window + 1 /\ Window \in Nat \ {0}
    /\ BanDuration \in Nat \ {0}
    /\ Kept \in MaxChoices /\ MaxChoices \subseteq Nat
    /\ \A n \in MaxChoices : n <= Kept
    /\ NoTimer \notin TimerIds
  <1>1. Kept \in MaxChoices /\ \A n \in MaxChoices : n <= Kept
    <2>1. \E m \in MaxChoices : \A n \in MaxChoices : n <= m
      BY AutobannerAssumption
    <2> QED
      BY <2>1, Zenon DEF Kept
  <1> QED
    BY <1>1, AutobannerAssumption DEF Old

-----------------------------------------------------------------------------
(* The failures of a handle and the history of all failures are sequences   *)
(* of ages, the oldest first.                                               *)

\* F is what L ends with.
Ends(F, L) ==
    /\ Len(F) <= Len(L)
    /\ \A i \in 1 .. Len(F) : F[i] = L[Len(L) - Len(F) + i]

Falling(L) == \A i, j \in 1 .. Len(L) : i <= j => L[i] >= L[j]

\* What L has before F is out of the window.
Outside(F, L) == Len(F) < Len(L) => L[Len(L) - Len(F)] >= Window

LEMMA LastOfIndices ==
    ASSUME NEW s \in Seq(Age), NEW n \in Nat
    PROVE  /\ LastOf(s, n) \in Seq(Age)
           /\ Len(LastOf(s, n)) = IF Len(s) <= n THEN Len(s) ELSE n
           /\ \A i \in 1 .. Len(LastOf(s, n)) :
                LastOf(s, n)[i] = s[Len(s) - Len(LastOf(s, n)) + i]
  <1>1. CASE Len(s) <= n
    BY <1>1 DEF LastOf
  <1>2. CASE ~ (Len(s) <= n)
    <2>1. LastOf(s, n) = SubSeq(s, Len(s) - n + 1, Len(s))
      BY <1>2 DEF LastOf
    <2>2. Len(s) \in Nat /\ Len(s) - n + 1 \in 1 .. Len(s) + 1
      BY <1>2
    <2> QED
      BY <1>2, <2>1, <2>2
  <1> QED
    BY <1>1, <1>2

LEMMA OldestOfLast ==
    ASSUME NEW L \in Seq(Age), NEW m \in Nat \ {0}, m <= Len(L)
    PROVE  LastOf(L, m)[1] = L[Len(L) - m + 1]
  <1>1. Len(LastOf(L, m)) = m
    BY LastOfIndices
  <1>2. 1 \in 1 .. Len(LastOf(L, m))
    BY <1>1
  <1> QED
    BY <1>1, <1>2, LastOfIndices

\* What failed forgot is too old to make a ban.
LEMMA ForgottenIsOld ==
    ASSUME NEW F \in Seq(Age), NEW L \in Seq(Age), NEW m \in Nat \ {0},
           Falling(L), Outside(F, L), Len(F) < m, m <= Len(L)
    PROVE  LastOf(L, m)[1] \in Nat /\ Window \in Nat /\ LastOf(L, m)[1] >= Window
  <1> PICK f \in Nat, l \in Nat : f = Len(F) /\ l = Len(L)
    OBVIOUS
  <1>1. f \in Nat /\ l \in Nat /\ m \in Nat /\ m # 0 /\ f < m /\ m <= l
    OBVIOUS
  <1>2. l - m + 1 \in 1 .. l /\ l - f \in 1 .. l /\ l - m + 1 <= l - f
    BY ONLY <1>1
  <1>3. L[l - f] >= Window
    BY <1>1 DEF Outside
  <1>4. L[l - m + 1] >= L[l - f]
    BY <1>2 DEF Falling
  <1>5. L[l - m + 1] \in Nat /\ L[l - f] \in Nat /\ Window \in Nat
    <2>1. L[l - m + 1] \in Age /\ L[l - f] \in Age
      BY <1>2
    <2> QED
      BY <2>1, Constants DEF Age
  <1>6. LastOf(L, m)[1] = L[l - m + 1]
    BY OldestOfLast
  <1> QED
    BY <1>3, <1>4, <1>5, <1>6

\* A failure is added to both, of which the history keeps the last k.
LEMMA GrownEnds ==
    ASSUME NEW F \in Seq(Age), NEW L \in Seq(Age), NEW k \in Nat,
           NEW G, NEW M,
           Ends(F, L) /\ Len(F) < k /\ G = Append(F, 0) /\ M = LastOf(Append(L, 0), k)
    PROVE  /\ G \in Seq(Age) /\ Len(G) = Len(F) + 1 /\ G[Len(G)] = 0
           /\ M \in Seq(Age) /\ Ends(G, M)
           /\ Falling(L) => Falling(M)
           /\ Outside(F, L) => Outside(G, M)
  <1> PICK A : A = Append(L, 0)
    OBVIOUS
  <1>1. G \in Seq(Age) /\ A \in Seq(Age)
    BY Constants DEF Age
  <1> PICK f \in Nat, l \in Nat : f = Len(F) /\ l = Len(L)
    OBVIOUS
  <1>2. /\ Len(G) = f + 1 /\ Len(A) = l + 1
        /\ \A i \in 1 .. f : G[i] = F[i]
        /\ \A i \in 1 .. l : A[i] = L[i]
        /\ G[f + 1] = 0 /\ A[l + 1] = 0
    OBVIOUS
  <1>3. /\ M \in Seq(Age)
        /\ Len(M) = IF Len(A) <= k THEN Len(A) ELSE k
        /\ \A i \in 1 .. Len(M) : M[i] = A[Len(A) - Len(M) + i]
    <2>1. /\ LastOf(A, k) \in Seq(Age)
          /\ Len(LastOf(A, k)) = IF Len(A) <= k THEN Len(A) ELSE k
          /\ \A i \in 1 .. Len(LastOf(A, k)) :
               LastOf(A, k)[i] = A[Len(A) - Len(LastOf(A, k)) + i]
      BY <1>1, LastOfIndices
    <2>2. M = LastOf(A, k)
      OBVIOUS
    <2> QED
      BY <2>1, <2>2, Zenon
  <1> PICK m \in Nat : m = Len(M)
    BY <1>3
  <1>4. f <= l /\ \A i \in 1 .. f : F[i] = L[l - f + i]
    BY DEF Ends
  <1>5. /\ f + 1 <= m /\ m <= l + 1
        /\ \A i \in 1 .. m : M[i] = A[l + 1 - m + i]
        /\ \A i \in 1 .. m : M[i] \in Age
    <2>1. m = (IF l + 1 <= k THEN l + 1 ELSE k) /\ f < k
      BY <1>2, <1>3
    <2>2. f + 1 <= m /\ m <= l + 1
      BY <1>4, <2>1
    <2>3. ASSUME NEW i \in 1 .. m PROVE M[i] = A[l + 1 - m + i]
      <3>1. i \in 1 .. Len(M) /\ Len(A) - Len(M) + i = l + 1 - m + i
        BY <1>2
      <3>2. M[i] = A[Len(A) - Len(M) + i]
        BY <1>3, <3>1, Zenon
      <3> QED
        BY <3>1, <3>2, Zenon
    <2>4. \A i \in 1 .. m : M[i] \in Age
      BY <1>3
    <2> QED
      BY <2>2, <2>3, <2>4
  <1>6. ASSUME NEW i \in 1 .. m - 1
        PROVE  l + 1 - m + i \in 1 .. l /\ M[i] = L[l + 1 - m + i]
    <2>1. i \in 1 .. m /\ l + 1 - m + i \in 1 .. l
      BY <1>4, <1>5
    <2> QED
      BY <1>2, <1>5, <2>1
  <1>7. M[m] = 0
    <2>1. m \in 1 .. m /\ l + 1 - m + m = l + 1
      BY <1>5
    <2> QED
      BY <1>2, <1>5, <2>1
  <1>8. Ends(G, M)
    <2>1. ASSUME NEW i \in 1 .. f + 1 PROVE G[i] = M[m - (f + 1) + i]
      <3>1. CASE i = f + 1
        <4>1. m - (f + 1) + i = m
          BY <3>1
        <4> QED
          BY <1>2, <1>7, <3>1, <4>1
      <3>2. CASE i # f + 1
        <4>1. i \in 1 .. f /\ m - (f + 1) + i \in 1 .. m - 1
          BY <1>4, <1>5, <3>2
        <4>2. M[m - (f + 1) + i] = L[l + 1 - m + (m - (f + 1) + i)]
          BY <1>6, <4>1
        <4>3. l + 1 - m + (m - (f + 1) + i) = l - f + i
          BY <4>1
        <4> QED
          BY <1>2, <1>4, <4>1, <4>2, <4>3
      <3> QED
        BY <3>1, <3>2
    <2> QED
      BY <1>2, <1>5, <2>1 DEF Ends
  <1>9. Falling(L) => Falling(M)
    <2>1. ASSUME Falling(L), NEW i \in 1 .. m, NEW j \in 1 .. m, i <= j
          PROVE  M[i] >= M[j]
      <3>1. CASE j = m
        BY <1>5, <1>7, <3>1, Constants DEF Age
      <3>2. CASE j # m
        <4>1. i \in 1 .. m - 1 /\ j \in 1 .. m - 1
          BY <2>1, <3>2
        <4>2. /\ l + 1 - m + i \in 1 .. l /\ M[i] = L[l + 1 - m + i]
              /\ l + 1 - m + j \in 1 .. l /\ M[j] = L[l + 1 - m + j]
          BY <1>6, <4>1
        <4>3. l + 1 - m + i <= l + 1 - m + j
          BY <2>1
        <4> QED
          BY <2>1, <4>2, <4>3 DEF Falling
      <3> QED
        BY <3>1, <3>2
    <2> QED
      BY <2>1 DEF Falling
  <1>10. Outside(F, L) => Outside(G, M)
    <2> SUFFICES ASSUME Outside(F, L), f + 1 < m
                 PROVE  M[m - (f + 1)] >= Window
      BY <1>2 DEF Outside
    <2>1. m - (f + 1) \in 1 .. m - 1 /\ f < l
      BY <1>5
    <2>2. M[m - (f + 1)] = L[l + 1 - m + (m - (f + 1))]
      BY <1>6, <2>1
    <2>3. l + 1 - m + (m - (f + 1)) = l - f
      OBVIOUS
    <2> QED
      BY <2>1, <2>2, <2>3 DEF Outside
  <1> QED
    BY <1>1, <1>2, <1>3, <1>8, <1>9, <1>10

\* The oldest failure is dropped because it is out of the window.
LEMMA DroppedEnds ==
    ASSUME NEW G \in Seq(Age), NEW M \in Seq(Age), Ends(G, M), Len(G) > 0
    PROVE  /\ Tail(G) \in Seq(Age) /\ Len(Tail(G)) = Len(G) - 1
           /\ Ends(Tail(G), M)
           /\ Len(G) > 1 => Tail(G)[Len(Tail(G))] = G[Len(G)]
           /\ Head(G) > Window => Outside(Tail(G), M)
  <1>1. /\ Tail(G) \in Seq(Age) /\ Len(Tail(G)) = Len(G) - 1 /\ Head(G) = G[1]
        /\ \A i \in 1 .. Len(G) - 1 : Tail(G)[i] = G[i + 1]
    BY DEF Ends
  <1>2. Len(G) \in Nat /\ Len(M) \in Nat /\ Len(G) <= Len(M)
    BY DEF Ends
  <1>3. Ends(Tail(G), M)
    <2> SUFFICES ASSUME NEW i \in 1 .. Len(G) - 1
                 PROVE  Tail(G)[i] = M[Len(M) - (Len(G) - 1) + i]
      BY <1>1, <1>2 DEF Ends
    <2>1. i + 1 \in 1 .. Len(G)
      BY <1>2
    <2>2. G[i + 1] = M[Len(M) - Len(G) + (i + 1)]
      BY <2>1 DEF Ends
    <2>3. Len(M) - Len(G) + (i + 1) = Len(M) - (Len(G) - 1) + i
      BY <1>2
    <2> QED
      BY <1>1, <2>2, <2>3
  <1>4. Head(G) = M[Len(M) - Len(G) + 1]
    BY <1>1, <1>2 DEF Ends
  <1>5. Head(G) \in Age
    BY <1>1, <1>2
  <1>6. Head(G) > Window => Outside(Tail(G), M)
    <2>1. Len(M) - Len(Tail(G)) = Len(M) - Len(G) + 1
      BY <1>1, <1>2
    <2> QED
      BY <1>4, <1>5, <2>1, Constants DEF Outside, Age
  <1>7. Len(G) > 1 => Tail(G)[Len(Tail(G))] = G[Len(G)]
    BY <1>1, <1>2
  <1> QED
    BY <1>1, <1>3, <1>6, <1>7

\* Time passes for both.
LEMMA OlderEnds ==
    ASSUME NEW F \in Seq(Age), NEW L \in Seq(Age)
    PROVE  /\ Older(F) \in Seq(Age) /\ Len(Older(F)) = Len(F)
           /\ \A i \in 1 .. Len(F) : Older(F)[i] = IF F[i] < Old THEN F[i] + 1 ELSE Old
           /\ Ends(F, L) => Ends(Older(F), Older(L))
           /\ Falling(L) => Falling(Older(L))
           /\ Outside(F, L) => Outside(Older(F), Older(L))
  <1>1. ASSUME NEW S \in Seq(Age)
        PROVE  /\ Older(S) \in Seq(Age) /\ Len(Older(S)) = Len(S)
               /\ \A i \in 1 .. Len(S) : Older(S)[i] = IF S[i] < Old THEN S[i] + 1 ELSE Old
               /\ \A i \in 1 .. Len(S) : S[i] \in Age
    <2>1. /\ DOMAIN S = 1 .. Len(S) /\ Len(S) \in Nat
          /\ \A i \in 1 .. Len(S) : S[i] \in Age
      OBVIOUS
    <2>2. \A i \in 1 .. Len(S) : (IF S[i] < Old THEN S[i] + 1 ELSE Old) \in Age
      BY <2>1, Constants DEF Age
    <2>3. Older(S) = [i \in 1 .. Len(S) |-> IF S[i] < Old THEN S[i] + 1 ELSE Old]
      BY <2>1 DEF Older
    <2> QED
      BY <2>1, <2>2, <2>3
  <1> PICK f \in Nat, l \in Nat : f = Len(F) /\ l = Len(L)
    OBVIOUS
  <1>2. ASSUME Ends(F, L) PROVE Ends(Older(F), Older(L))
    <2>1. f <= l /\ \A i \in 1 .. f : F[i] = L[l - f + i]
      BY <1>2 DEF Ends
    <2>2. ASSUME NEW i \in 1 .. f PROVE Older(F)[i] = Older(L)[l - f + i]
      <3>1. l - f + i \in 1 .. l
        BY <2>1
      <3>2. Older(L)[l - f + i] =
              IF L[l - f + i] < Old THEN L[l - f + i] + 1 ELSE Old
        BY <1>1, <3>1
      <3>3. Older(F)[i] = IF F[i] < Old THEN F[i] + 1 ELSE Old
        BY <1>1
      <3> QED
        BY <2>1, <3>2, <3>3
    <2> QED
      BY <1>1, <2>1, <2>2 DEF Ends
  <1>3. ASSUME Falling(L) PROVE Falling(Older(L))
    <2>1. ASSUME NEW i \in 1 .. l, NEW j \in 1 .. l, i <= j
          PROVE  Older(L)[i] >= Older(L)[j]
      <3>1. L[i] \in Age /\ L[j] \in Age /\ L[i] >= L[j]
        BY <1>1, <1>3, <2>1 DEF Falling
      <3>2. /\ Older(L)[i] = IF L[i] < Old THEN L[i] + 1 ELSE Old
            /\ Older(L)[j] = IF L[j] < Old THEN L[j] + 1 ELSE Old
        BY <1>1
      <3> QED
        BY <3>1, <3>2, Constants DEF Age
    <2> QED
      BY <1>1, <2>1 DEF Falling
  <1>4. ASSUME Outside(F, L) PROVE Outside(Older(F), Older(L))
    <2> SUFFICES ASSUME f < l PROVE Older(L)[l - f] >= Window
      BY <1>1 DEF Outside
    <2>1. l - f \in 1 .. l /\ L[l - f] >= Window
      BY <1>4 DEF Outside
    <2>2. L[l - f] \in Age /\ Older(L)[l - f] = IF L[l - f] < Old THEN L[l - f] + 1 ELSE Old
      BY <1>1, <2>1
    <2> QED
      BY <2>1, <2>2, Constants DEF Age
  <1> QED
    BY <1>1, <1>2, <1>3, <1>4

-----------------------------------------------------------------------------
(* The invariant.                                                           *)

Types ==
    /\ shared \in BOOLEAN
    /\ max \in MaxChoices
    /\ failed \in [Ips -> Seq(Age)]
    /\ last \in [Ips -> Seq(Age)]
    /\ tid \in [Ips -> TimerIds \union {NoTimer}]
    /\ owed \in [Ips -> 0 .. BanDuration]
    /\ banning \in [Ips -> BOOLEAN]
    /\ DOMAIN togo \subseteq TimerIds
    /\ \A id \in DOMAIN togo : togo[id] \in Nat
    /\ DOMAIN owner \subseteq TimerIds
    /\ \A id \in DOMAIN owner : owner[id] \in Ips
    /\ firing \in TimerIds \union {NoTimer}

\* A timer that runs, or whose handler was called.
Live(id) == id \in DOMAIN togo \/ id = firing

\* The timer of a handle is its own, and is going to erase it.
TimersOK ==
    \A ip \in Ips :
        /\ (failed[ip] = <<>>) = (tid[ip] = NoTimer)
        /\ tid[ip] # NoTimer =>
             tid[ip] \in DOMAIN owner /\ owner[tid[ip]] = ip /\ Live(tid[ip])

\* What a handle remembers is what the history ends with.
HistoryOK ==
    \A ip \in Ips : Ends(failed[ip], last[ip]) /\ Len(failed[ip]) <= Kept

\* Without session threads, stop_timer() is never late.
OwnTimers ==
    /\ firing \notin DOMAIN togo
    /\ \A id \in TimerIds : Live(id) => id \in DOMAIN owner /\ tid[owner[id]] = id

\* A ban's timer runs for what is left of the ban at least.
BansOK ==
    \A ip \in Ips : owed[ip] > 0 =>
        IsBanned(ip) /\ tid[ip] \in DOMAIN togo /\ togo[tid[ip]] >= owed[ip]

\* Other timers run until the last failure is out of the window.
Forgets(ip) ==
    failed[ip] # <<>> /\ ~ banning[ip] =>
        IF tid[ip] \in DOMAIN togo
        THEN failed[ip][Len(failed[ip])] + togo[tid[ip]] >= Window
        ELSE failed[ip][Len(failed[ip])] >= Window

WindowOK ==
    \A ip \in Ips :
        /\ Falling(last[ip])
        /\ failed[ip] = <<>> => last[ip] = <<>>
        /\ Forgets(ip)
        /\ Outside(failed[ip], last[ip])

Inv ==
    /\ Types /\ TimersOK /\ HistoryOK
    /\ shared => OwnTimers /\ BansOK /\ WindowOK

-----------------------------------------------------------------------------
(* A failed login.                                                          *)

\* The failures of the address after it.
LEMMA NewFailure ==
    ASSUME Inv, NEW ip \in Ips, SetFailedLogin(ip)
    PROVE  /\ failed'[ip] \in Seq(Age) /\ last'[ip] \in Seq(Age)
           /\ failed'[ip] # <<>> /\ failed'[ip][Len(failed'[ip])] = 0
           /\ Ends(failed'[ip], last'[ip]) /\ Len(failed'[ip]) <= Kept
           /\ IF Banning(ip) THEN Len(failed'[ip]) = max /\ failed'[ip][1] <= Window
              ELSE Len(failed'[ip]) < max
           /\ shared => Falling(last'[ip]) /\ Outside(failed'[ip], last'[ip])
  <1> PICK F \in Seq(Age), L \in Seq(Age) : F = failed[ip] /\ L = last[ip]
    BY DEF Inv, Types
  <1> PICK G, M : G = Append(F, 0) /\ M = LastOf(Append(L, 0), Kept)
    OBVIOUS
  <1>1. Ends(F, L) /\ Len(F) < max /\ max \in Nat \ {0} /\ max <= Kept /\ Kept \in Nat
    BY Constants DEF Inv, Types, HistoryOK, SetFailedLogin, IsBanned
  <1>2. shared => Falling(L) /\ Outside(F, L)
    BY DEF Inv, WindowOK
  <1>3. /\ G \in Seq(Age) /\ Len(G) = Len(F) + 1 /\ G[Len(G)] = 0
        /\ M \in Seq(Age) /\ Ends(G, M)
        /\ shared => Falling(M) /\ Outside(G, M)
    <2>1. Len(F) < Kept
      BY <1>1
    <2>2. Kept \in Nat
      BY <1>1
    <2>3. Ends(F, L) /\ Len(F) < Kept /\ G = Append(F, 0) /\ M = LastOf(Append(L, 0), Kept)
      BY <1>1, <2>1
    <2>4. G \in Seq(Age)
      BY <2>2, <2>3, GrownEnds
    <2>5. Len(G) = Len(F) + 1 /\ G[Len(F) + 1] = 0
      BY <2>3
    <2>6. M \in Seq(Age)
      BY <2>2, <2>3, GrownEnds
    <2>7. Ends(G, M)
      BY <2>2, <2>3, GrownEnds
    <2>8. Falling(L) => Falling(M)
      BY <2>2, <2>3, GrownEnds
    <2>9. Outside(F, L) => Outside(G, M)
      BY <2>2, <2>3, GrownEnds
    <2> QED
      BY <1>2, <2>4, <2>5, <2>6, <2>7, <2>8, <2>9, Zenon
  <1>4. /\ G = Grown(ip)
        /\ Banning(ip) <=> Len(G) >= max /\ Head(G) <= Window
        /\ last'[ip] = M
        /\ failed'[ip] = IF Len(G) >= max /\ ~ Banning(ip) THEN Tail(G) ELSE G
    BY DEF Inv, Types, SetFailedLogin, Grown, Banning
  <1>5. Len(F) \in Nat /\ Head(G) = G[1] /\ G[1] \in Age /\ Len(G) <= max
    BY <1>1, <1>3
  <1>6. CASE Len(G) < max \/ Banning(ip)
    <2>1. failed'[ip] = G
      BY <1>1, <1>3, <1>4, <1>5, <1>6
    <2>2. IF Banning(ip) THEN Len(G) = max /\ G[1] <= Window ELSE Len(G) < max
      BY <1>1, <1>3, <1>4, <1>5, <1>6
    <2>3. G # <<>> /\ Len(G) <= Kept
      BY <1>1, <1>3, <1>5
    <2> QED
      BY <1>3, <1>4, <2>1, <2>2, <2>3
  <1>7. CASE ~ (Len(G) < max) /\ ~ Banning(ip)
    <2>1. Len(G) >= max /\ Len(G) = max /\ Head(G) > Window
      BY <1>1, <1>3, <1>4, <1>5, <1>7, Constants DEF Age
    <2>2. Len(G) > 1
      BY <1>1, <1>3, <1>5, <2>1, Constants
    <2>3. /\ Tail(G) \in Seq(Age) /\ Len(Tail(G)) = Len(G) - 1
          /\ Ends(Tail(G), M) /\ Outside(Tail(G), M)
          /\ Tail(G)[Len(Tail(G))] = 0
      <3>1. Len(G) > 0
        BY <1>3, <2>2
      <3> QED
        BY <1>3, <2>1, <2>2, <3>1, DroppedEnds, Zenon
    <2>4. failed'[ip] = Tail(G)
      BY <1>4, <1>7, <2>1
    <2>5. Tail(G) # <<>> /\ Len(Tail(G)) < max /\ Len(Tail(G)) <= Kept
      BY <1>1, <1>3, <2>1, <2>2, <2>3
    <2> QED
      BY <1>3, <1>4, <1>7, <2>3, <2>4, <2>5
  <1> QED
    BY <1>1, <1>3, <1>5, <1>6, <1>7

LEMMA FailedLoginStep ==
    ASSUME Inv, NEW ip \in Ips, SetFailedLogin(ip)
    PROVE  Inv'
  <1> PICK id \in FreshIds : Rearm(ip, id, IF Banning(ip) THEN BanDuration ELSE Window)
    BY DEF SetFailedLogin
  <1> PICK d : d = IF Banning(ip) THEN BanDuration ELSE Window
    OBVIOUS
  <1>1. /\ id \in TimerIds /\ id \notin DOMAIN togo /\ id \notin DOMAIN owner /\ id # firing
        /\ id # NoTimer /\ d \in Nat
    BY Constants DEF FreshIds
  <1>2. /\ tid' = [tid EXCEPT ![ip] = id]
        /\ DOMAIN togo' = (DOMAIN togo \ {tid[ip]}) \union {id}
        /\ togo'[id] = d
        /\ \A x \in DOMAIN togo \ {tid[ip]} : togo'[x] = togo[x]
        /\ DOMAIN owner' = DOMAIN owner \union {id}
        /\ owner'[id] = ip
        /\ \A x \in DOMAIN owner : owner'[x] = owner[x]
    BY <1>1 DEF Rearm, With, Without
  <1>3. /\ UNCHANGED <<shared, max, firing>>
        /\ shared => firing = NoTimer
        /\ \A j \in Ips \ {ip} : failed'[j] = failed[j] /\ last'[j] = last[j]
        /\ owed' = [owed EXCEPT ![ip] = IF Banning(ip) THEN BanDuration ELSE @]
        /\ banning' = [banning EXCEPT ![ip] = Banning(ip)]
        /\ DOMAIN failed' = Ips /\ DOMAIN last' = Ips
        /\ failed' = [j \in Ips |-> failed'[j]] /\ last' = [j \in Ips |-> last'[j]]
    BY DEF Inv, Types, SetFailedLogin, SessionsRun
  <1>4. /\ failed'[ip] \in Seq(Age) /\ last'[ip] \in Seq(Age)
        /\ failed'[ip] # <<>> /\ failed'[ip][Len(failed'[ip])] = 0
        /\ Ends(failed'[ip], last'[ip]) /\ Len(failed'[ip]) <= Kept
        /\ IF Banning(ip) THEN Len(failed'[ip]) = max /\ failed'[ip][1] <= Window
           ELSE Len(failed'[ip]) < max
        /\ shared => Falling(last'[ip]) /\ Outside(failed'[ip], last'[ip])
    BY NewFailure
  <1>5. Types'
    <2>1. failed' \in [Ips -> Seq(Age)] /\ last' \in [Ips -> Seq(Age)]
      BY <1>3, <1>4 DEF Inv, Types
    <2>2. /\ tid' \in [Ips -> TimerIds \union {NoTimer}]
          /\ owed' \in [Ips -> 0 .. BanDuration] /\ banning' \in [Ips -> BOOLEAN]
      BY <1>1, <1>2, <1>3, Constants DEF Inv, Types, Banning
    <2>3. /\ DOMAIN togo' \subseteq TimerIds /\ \A x \in DOMAIN togo' : togo'[x] \in Nat
          /\ DOMAIN owner' \subseteq TimerIds /\ \A x \in DOMAIN owner' : owner'[x] \in Ips
      BY <1>1, <1>2 DEF Inv, Types
    <2> QED
      BY <1>3, <2>1, <2>2, <2>3 DEF Inv, Types
  <1>6. TimersOK'
    <2> SUFFICES ASSUME NEW j \in Ips
                 PROVE  /\ (failed'[j] = <<>>) = (tid'[j] = NoTimer)
                        /\ tid'[j] # NoTimer =>
                             /\ tid'[j] \in DOMAIN owner' /\ owner'[tid'[j]] = j
                             /\ tid'[j] \in DOMAIN togo' \/ tid'[j] = firing'
      BY DEF TimersOK, Live
    <2>1. CASE j = ip
      BY <1>1, <1>2, <1>4, <2>1 DEF Inv, Types
    <2>2. CASE j # ip
      BY <1>1, <1>2, <1>3, <2>2 DEF Inv, Types, TimersOK, Live
    <2> QED
      BY <2>1, <2>2
  <1>7. HistoryOK'
    BY <1>3, <1>4 DEF Inv, HistoryOK
  <1>8. ASSUME shared PROVE OwnTimers'
    BY <1>1, <1>2, <1>3, <1>8, Constants DEF Inv, Types, OwnTimers, TimersOK, Live
  <1>9. ASSUME shared PROVE BansOK'
    <2> SUFFICES ASSUME NEW j \in Ips, owed'[j] > 0
                 PROVE  /\ max' # 0 /\ Len(failed'[j]) >= max'
                        /\ tid'[j] \in DOMAIN togo' /\ togo'[tid'[j]] >= owed'[j]
      BY DEF BansOK, IsBanned
    <2>1. max \in Nat /\ max # 0
      BY Constants DEF Inv, Types, SetFailedLogin
    <2>2. CASE j = ip
      <3>1. owed[ip] = 0
        <4>1. ~ IsBanned(ip) /\ owed[ip] \in Nat
          BY Constants DEF SetFailedLogin, Inv, Types
        <4> QED
          BY <1>9, <4>1 DEF Inv, BansOK
      <3>2. Banning(ip) /\ owed'[ip] = BanDuration
        BY <1>3, <2>2, <3>1 DEF Inv, Types
      <3> QED
        BY <1>1, <1>2, <1>3, <1>4, <2>1, <2>2, <3>2, Constants DEF Inv, Types
    <2>3. CASE j # ip
      <3>1. /\ owed[j] > 0 /\ IsBanned(j) /\ tid[j] \in DOMAIN togo
            /\ togo[tid[j]] >= owed[j]
        BY <1>3, <1>9, <2>3 DEF Inv, Types, BansOK
      <3>2. tid[j] # tid[ip] /\ tid[j] # NoTimer
        BY <2>3, <3>1, Constants DEF Inv, Types, TimersOK
      <3> QED
        BY <1>2, <1>3, <2>1, <2>3, <3>1, <3>2 DEF IsBanned, Inv, Types
    <2> QED
      BY <2>2, <2>3
  <1>10. ASSUME shared PROVE WindowOK'
    <2> SUFFICES ASSUME NEW j \in Ips
                 PROVE  /\ Falling(last'[j])
                        /\ failed'[j] = <<>> => last'[j] = <<>>
                        /\ Forgets(j)'
                        /\ Outside(failed'[j], last'[j])
      BY DEF WindowOK
    <2>1. CASE j = ip
      <3>1. ~ banning'[ip] => 0 + togo'[id] >= Window
        BY <1>2, <1>3, Constants DEF Inv, Types
      <3>2. tid'[ip] = id /\ id \in DOMAIN togo'
        BY <1>2 DEF Inv, Types
      <3> QED
        BY <1>4, <1>10, <2>1, <3>1, <3>2 DEF Forgets
    <2>2. CASE j # ip
      <3>1. /\ failed'[j] = failed[j] /\ last'[j] = last[j] /\ banning'[j] = banning[j]
            /\ tid'[j] = tid[j]
        BY <1>2, <1>3, <2>2 DEF Inv, Types
      <3>2. tid[j] # NoTimer => tid[j] # id /\ tid[j] # tid[ip]
        BY <1>1, <2>2 DEF Inv, TimersOK
      <3>3. failed[j] # <<>> =>
              /\ tid[j] \in DOMAIN togo' <=> tid[j] \in DOMAIN togo
              /\ tid[j] \in DOMAIN togo => togo'[tid[j]] = togo[tid[j]]
        BY <1>2, <3>2 DEF Inv, TimersOK
      <3>4. WindowOK
        BY <1>10 DEF Inv
      <3> QED
        BY <3>1, <3>3, <3>4 DEF WindowOK, Forgets
    <2> QED
      BY <2>1, <2>2
  <1> QED
    BY <1>3, <1>5, <1>6, <1>7, <1>8, <1>9, <1>10 DEF Inv

-----------------------------------------------------------------------------
(* The other steps.                                                         *)

LEMMA TimerFiresStep ==
    ASSUME Inv, NEW id \in TimerIds, TimerFires(id)
    PROVE  Inv'
  <1>1. /\ UNCHANGED <<shared, max, failed, tid, owner, last, owed, banning>>
        /\ firing = NoTimer /\ firing' = id /\ id \in DOMAIN togo /\ togo[id] = 0
        /\ DOMAIN togo' = DOMAIN togo \ {id}
        /\ \A x \in DOMAIN togo' : togo'[x] = togo[x]
    BY DEF TimerFires, Without
  <1>2. \A x \in TimerIds : Live(x)' <=> Live(x)
    BY <1>1, Constants DEF Live
  <1>3. Types'
    BY <1>1 DEF Inv, Types
  <1>4. TimersOK'
    BY <1>1, <1>2 DEF Inv, Types, TimersOK
  <1>5. HistoryOK'
    BY <1>1 DEF Inv, HistoryOK
  <1>6. ASSUME shared PROVE OwnTimers'
    BY <1>1, <1>2, <1>6 DEF Inv, OwnTimers
  <1>7. ASSUME shared PROVE BansOK'
    <2> SUFFICES ASSUME NEW j \in Ips, owed[j] > 0
                 PROVE  IsBanned(j) /\ tid[j] \in DOMAIN togo' /\ togo'[tid[j]] >= owed[j]
      BY <1>1 DEF BansOK, IsBanned
    <2>1. IsBanned(j) /\ tid[j] \in DOMAIN togo /\ togo[tid[j]] >= owed[j]
      BY <1>7 DEF Inv, BansOK
    <2>2. tid[j] # id
      BY <1>1, <2>1, Constants DEF Inv, Types
    <2> QED
      BY <1>1, <2>1, <2>2
  <1>8. ASSUME shared PROVE WindowOK'
    <2> SUFFICES ASSUME NEW j \in Ips PROVE Forgets(j)'
      BY <1>1, <1>8 DEF Inv, WindowOK
    <2> SUFFICES ASSUME failed[j] # <<>>, ~ banning[j]
                 PROVE  IF tid[j] \in DOMAIN togo'
                        THEN failed[j][Len(failed[j])] + togo'[tid[j]] >= Window
                        ELSE failed[j][Len(failed[j])] >= Window
      BY <1>1 DEF Forgets
    <2>1. IF tid[j] \in DOMAIN togo
          THEN failed[j][Len(failed[j])] + togo[tid[j]] >= Window
          ELSE failed[j][Len(failed[j])] >= Window
      BY <1>8 DEF Inv, WindowOK, Forgets
    <2>2. failed[j][Len(failed[j])] \in Nat
      <3>1. failed[j] \in Seq(Age)
        BY DEF Inv, Types
      <3> QED
        BY <3>1, Constants DEF Age
    <2> QED
      BY <1>1, <2>1, <2>2
  <1> QED
    BY <1>1, <1>3, <1>4, <1>5, <1>6, <1>7, <1>8 DEF Inv

LEMMA EmptyEnds ==
    /\ <<>> \in Seq(Age) /\ Len(<<>>) = 0
    /\ \A L \in Seq(Age) : Ends(<<>>, L)
    /\ Falling(<<>>) /\ Outside(<<>>, <<>>)
  BY DEF Ends, Falling, Outside

\* Without session threads, the handle whose timer fires is forgotten because
\* its last failure is out of the window, or its ban is over.
LEMMA OnTimerForgets ==
    ASSUME Inv, shared, OnTimer
    PROVE  /\ firing \in DOMAIN owner /\ tid[owner[firing]] = firing
           /\ last'[owner[firing]] = <<>>
           /\ owed[owner[firing]] = 0
  <1>1. firing \in TimerIds /\ firing \in DOMAIN owner /\ tid[owner[firing]] = firing
    BY DEF OnTimer, Inv, Types, OwnTimers, Live
  <1> PICK ip \in Ips : ip = owner[firing]
    BY <1>1 DEF Inv, Types
  <1>2. failed[ip] # <<>> /\ tid[ip] \notin DOMAIN togo
    BY <1>1, Constants DEF Inv, TimersOK, OwnTimers
  <1>3. owed[ip] = 0
    BY <1>2, Constants DEF Inv, Types, BansOK
  <1>4. ~ banning[ip] => last[ip] # <<>> /\ Last(last[ip]) >= Window
    <2> SUFFICES ASSUME ~ banning[ip]
                 PROVE  last[ip] # <<>> /\ Last(last[ip]) >= Window
      OBVIOUS
    <2>1. failed[ip][Len(failed[ip])] >= Window
      BY <1>2 DEF Inv, WindowOK, Forgets
    <2> PICK F \in Seq(Age), L \in Seq(Age) : F = failed[ip] /\ L = last[ip]
      BY DEF Inv, Types
    <2>2. Ends(F, L) /\ F # <<>> /\ F[Len(F)] >= Window
      BY <1>2, <2>1 DEF Inv, HistoryOK
    <2>3. Len(F) \in 1 .. Len(F) /\ Len(L) - Len(F) + Len(F) = Len(L) /\ Len(L) > 0
      BY <2>2 DEF Ends
    <2>4. F[Len(F)] = L[Len(L)]
      BY <2>2, <2>3 DEF Ends
    <2> QED
      BY <2>2, <2>3, <2>4 DEF Last
  <1>5. last'[ip] = <<>>
    BY <1>1, <1>4 DEF OnTimer, Inv, Types
  <1> QED
    BY <1>1, <1>3, <1>5

LEMMA OnTimerStep ==
    ASSUME Inv, OnTimer
    PROVE  Inv'
  <1>1. /\ UNCHANGED <<shared, max, togo, owed>>
        /\ firing # NoTimer /\ firing' = NoTimer /\ firing \in TimerIds
    BY DEF OnTimer, Inv, Types
  <1>2. CASE firing \notin DOMAIN owner
    <2>1. UNCHANGED <<failed, tid, owner, last, banning>>
      BY <1>2 DEF OnTimer
    <2>2. ~ shared
      BY <1>1, <1>2, OnTimerForgets
    <2>3. TimersOK'
      BY <1>1, <1>2, <2>1 DEF Inv, TimersOK, Live
    <2> QED
      BY <1>1, <2>1, <2>2, <2>3 DEF Inv, Types, HistoryOK
  <1>3. CASE firing \in DOMAIN owner
    <2> PICK ip \in Ips : ip = owner[firing]
      BY <1>3 DEF Inv, Types
    <2>1. /\ failed' = [failed EXCEPT ![ip] = <<>>]
          /\ tid' = [tid EXCEPT ![ip] = NoTimer]
          /\ DOMAIN owner' = DOMAIN owner \ {firing}
          /\ \A x \in DOMAIN owner' : owner'[x] = owner[x]
          /\ banning' = [banning EXCEPT ![ip] = FALSE]
          /\ last' = [last EXCEPT ![ip] =
                        IF banning[ip] \/ (@ # <<>> /\ Last(@) >= Window) THEN <<>> ELSE @]
      BY <1>3 DEF OnTimer, Without, Inv, Types
    <2>6. /\ last' \in [Ips -> Seq(Age)]
          /\ \A j \in Ips \ {ip} : last'[j] = last[j]
          /\ last'[ip] = last[ip] \/ last'[ip] = <<>>
      BY <2>1, EmptyEnds DEF Inv, Types
    <2>2. Types'
      BY <1>1, <2>1, <2>6, EmptyEnds DEF Inv, Types
    <2>3. TimersOK'
      <3> SUFFICES ASSUME NEW j \in Ips
                   PROVE  /\ (failed'[j] = <<>>) = (tid'[j] = NoTimer)
                          /\ tid'[j] # NoTimer =>
                               /\ tid'[j] \in DOMAIN owner' /\ owner'[tid'[j]] = j
                               /\ tid'[j] \in DOMAIN togo' \/ tid'[j] = firing'
        BY DEF TimersOK, Live
      <3>1. CASE j = ip
        BY <2>1, <3>1 DEF Inv, Types
      <3>2. CASE j # ip
        BY <1>1, <2>1, <3>2 DEF Inv, Types, TimersOK, Live
      <3> QED
        BY <3>1, <3>2
    <2>4. HistoryOK'
      <3> SUFFICES ASSUME NEW j \in Ips
                   PROVE  Ends(failed'[j], last'[j]) /\ Len(failed'[j]) <= Kept
        BY DEF HistoryOK
      <3>1. CASE j = ip
        <4>1. failed'[j] = <<>> /\ last'[j] \in Seq(Age)
          BY <2>1, <2>6, <3>1 DEF Inv, Types
        <4> QED
          BY <4>1, EmptyEnds, Constants
      <3>2. CASE j # ip
        BY <2>1, <2>6, <3>2 DEF Inv, Types, HistoryOK
      <3> QED
        BY <3>1, <3>2
    <2>5. ASSUME shared PROVE OwnTimers' /\ BansOK' /\ WindowOK'
      <3>1. tid[ip] = firing /\ last'[ip] = <<>> /\ owed[ip] = 0
        BY <2>5, OnTimerForgets
      <3>2. OwnTimers'
        <4>1. firing' \notin DOMAIN togo'
          BY <1>1, Constants DEF Inv, Types
        <4>2. ASSUME NEW id \in TimerIds, Live(id)'
              PROVE  id \in DOMAIN owner' /\ tid'[owner'[id]] = id
          <5>1. id \in DOMAIN togo /\ id # firing
            BY <1>1, <2>5, <4>2, Constants DEF Live, Inv, OwnTimers
          <5>2. id \in DOMAIN owner /\ tid[owner[id]] = id
            BY <2>5, <5>1 DEF Live, Inv, OwnTimers
          <5> QED
            BY <2>1, <3>1, <5>1, <5>2 DEF Inv, Types
        <4> QED
          BY <4>1, <4>2 DEF OwnTimers
      <3>3. BansOK'
        BY <1>1, <2>1, <2>5, <3>1 DEF Inv, Types, BansOK, IsBanned
      <3>4. WindowOK'
        <4> SUFFICES ASSUME NEW j \in Ips
                     PROVE  /\ Falling(last'[j])
                            /\ failed'[j] = <<>> => last'[j] = <<>>
                            /\ Forgets(j)'
                            /\ Outside(failed'[j], last'[j])
          BY DEF WindowOK
        <4>1. CASE j = ip
          <5>1. failed'[ip] = <<>>
            BY <2>1 DEF Inv, Types
          <5> QED
            BY <3>1, <4>1, <5>1, EmptyEnds DEF Forgets
        <4>2. CASE j # ip
          <5>1. /\ failed'[j] = failed[j] /\ last'[j] = last[j] /\ banning'[j] = banning[j]
                /\ tid'[j] = tid[j]
            BY <2>1, <2>6, <4>2 DEF Inv, Types
          <5> QED
            BY <1>1, <2>5, <5>1 DEF Inv, WindowOK, Forgets
        <4> QED
          BY <4>1, <4>2
      <3> QED
        BY <3>2, <3>3, <3>4
    <2> QED
      BY <1>1, <2>2, <2>3, <2>4, <2>5 DEF Inv
  <1> QED
    BY <1>2, <1>3

LEMMA SetOptionsStep ==
    ASSUME Inv, NEW m \in MaxChoices, SetOptions(m)
    PROVE  Inv'
  <1>1. /\ max' = m /\ owed' = [ip \in Ips |-> 0]
        /\ UNCHANGED <<shared, failed, tid, togo, owner, firing, last, banning>>
    BY DEF SetOptions
  <1>2. Types' /\ BansOK'
    BY <1>1, Constants DEF Inv, Types, BansOK
  <1> QED
    BY <1>1, <1>2 DEF Inv, TimersOK, HistoryOK, OwnTimers, WindowOK, Forgets, Live

LEMMA TickStep ==
    ASSUME Inv, ABTick
    PROVE  Inv'
  <1>1. /\ UNCHANGED <<shared, max, tid, owner, firing, banning>>
        /\ failed' = [ip \in Ips |-> Older(failed[ip])]
        /\ last' = [ip \in Ips |-> Older(last[ip])]
        /\ togo' = [id \in DOMAIN togo |-> IF togo[id] > 0 THEN togo[id] - 1 ELSE 0]
        /\ owed' = [ip \in Ips |-> IF owed[ip] > 0 THEN owed[ip] - 1 ELSE 0]
    BY DEF ABTick
  <1>2. ASSUME NEW ip \in Ips
        PROVE  /\ failed[ip] \in Seq(Age) /\ last[ip] \in Seq(Age)
               /\ failed'[ip] = Older(failed[ip]) /\ last'[ip] = Older(last[ip])
    BY <1>1 DEF Inv, Types
  <1>3. ASSUME NEW ip \in Ips
        PROVE  /\ failed'[ip] \in Seq(Age) /\ Len(failed'[ip]) = Len(failed[ip])
               /\ last'[ip] \in Seq(Age) /\ Len(last'[ip]) = Len(last[ip])
               /\ failed'[ip] = <<>> <=> failed[ip] = <<>>
               /\ last'[ip] = <<>> <=> last[ip] = <<>>
    BY <1>2, OlderEnds
  <1>4. Types'
    <2>1. failed' \in [Ips -> Seq(Age)] /\ last' \in [Ips -> Seq(Age)]
      BY <1>1, <1>3
    <2>2. /\ owed' \in [Ips -> 0 .. BanDuration]
          /\ DOMAIN togo' = DOMAIN togo /\ \A id \in DOMAIN togo' : togo'[id] \in Nat
      BY <1>1, Constants DEF Inv, Types
    <2> QED
      BY <1>1, <2>1, <2>2 DEF Inv, Types
  <1>5. TimersOK'
    BY <1>1, <1>3 DEF Inv, TimersOK, Live
  <1>6. HistoryOK'
    <2> SUFFICES ASSUME NEW ip \in Ips
                 PROVE  Ends(failed'[ip], last'[ip]) /\ Len(failed'[ip]) <= Kept
      BY DEF HistoryOK
    <2>1. Ends(failed[ip], last[ip]) /\ Len(failed[ip]) <= Kept
      BY DEF Inv, HistoryOK
    <2>2. Ends(Older(failed[ip]), Older(last[ip]))
      BY <1>2, <2>1, OlderEnds
    <2> QED
      BY <1>2, <1>3, <2>1, <2>2
  <1>7. ASSUME shared PROVE OwnTimers'
    BY <1>1, <1>7 DEF Inv, OwnTimers, Live
  <1>8. ASSUME shared PROVE BansOK'
    <2> SUFFICES ASSUME NEW ip \in Ips, owed'[ip] > 0
                 PROVE  /\ max # 0 /\ Len(failed'[ip]) >= max
                        /\ tid[ip] \in DOMAIN togo' /\ togo'[tid[ip]] >= owed'[ip]
      BY <1>1 DEF BansOK, IsBanned
    <2>1. owed[ip] \in Nat /\ owed[ip] > 0 /\ owed'[ip] = owed[ip] - 1
      BY <1>1, Constants DEF Inv, Types
    <2>2. IsBanned(ip) /\ tid[ip] \in DOMAIN togo /\ togo[tid[ip]] >= owed[ip]
      BY <1>8, <2>1 DEF Inv, BansOK
    <2>3. togo[tid[ip]] \in Nat
      BY <2>2 DEF Inv, Types
    <2> QED
      BY <1>1, <1>3, <2>1, <2>2, <2>3 DEF IsBanned
  <1>9. ASSUME shared PROVE WindowOK'
    <2> SUFFICES ASSUME NEW ip \in Ips
                 PROVE  /\ Falling(last'[ip])
                        /\ failed'[ip] = <<>> => last'[ip] = <<>>
                        /\ Forgets(ip)'
                        /\ Outside(failed'[ip], last'[ip])
      BY DEF WindowOK
    <2>1. /\ Falling(last[ip])
          /\ failed[ip] = <<>> => last[ip] = <<>>
          /\ Forgets(ip) /\ Outside(failed[ip], last[ip])
      BY <1>9 DEF Inv, WindowOK
    <2>2. Falling(last'[ip])
      BY <1>2, <2>1, OlderEnds
    <2>3. Outside(failed'[ip], last'[ip])
      BY <1>2, <2>1, OlderEnds
    <2>4. Forgets(ip)'
      <3> SUFFICES ASSUME failed'[ip] # <<>>, ~ banning[ip]
                   PROVE  IF tid[ip] \in DOMAIN togo'
                          THEN failed'[ip][Len(failed'[ip])] + togo'[tid[ip]] >= Window
                          ELSE failed'[ip][Len(failed'[ip])] >= Window
        BY <1>1 DEF Forgets
      <3> PICK F \in Seq(Age), n \in Nat : F = failed[ip] /\ n = Len(F)
        BY <1>2
      <3>1. n \in 1 .. Len(F) /\ F[n] \in Age
        BY <1>3
      <3>2. failed'[ip][n] = IF F[n] < Old THEN F[n] + 1 ELSE Old
        BY <1>2, <3>1, OlderEnds
      <3>3. IF tid[ip] \in DOMAIN togo THEN F[n] + togo[tid[ip]] >= Window ELSE F[n] >= Window
        BY <1>3, <2>1 DEF Forgets
      <3>4. Len(failed'[ip]) = n
        BY <1>3
      <3>5. tid[ip] \in DOMAIN togo =>
              /\ togo[tid[ip]] \in Nat
              /\ togo'[tid[ip]] = IF togo[tid[ip]] > 0 THEN togo[tid[ip]] - 1 ELSE 0
        BY <1>1 DEF Inv, Types
      <3>6. DOMAIN togo' = DOMAIN togo
        BY <1>1
      <3>7. failed'[ip][n] >= F[n] /\ (failed'[ip][n] >= F[n] + 1 \/ failed'[ip][n] >= Window)
        BY <3>1, <3>2, Constants DEF Age
      <3>8. failed'[ip][n] \in Nat /\ F[n] \in Nat /\ Window \in Nat
        BY <3>1, <3>2, Constants DEF Age
      <3>9. CASE tid[ip] \in DOMAIN togo
        BY <3>3, <3>4, <3>5, <3>6, <3>7, <3>8, <3>9
      <3>10. CASE tid[ip] \notin DOMAIN togo
        BY <3>3, <3>4, <3>6, <3>7, <3>8, <3>10
      <3> QED
        BY <3>9, <3>10
    <2> QED
      BY <1>3, <2>1, <2>2, <2>3, <2>4
  <1> QED
    BY <1>1, <1>4, <1>5, <1>6, <1>7, <1>8, <1>9 DEF Inv

-----------------------------------------------------------------------------
(* The theorems.                                                            *)

LEMMA InvInit == ABInit => Inv
  <1> SUFFICES ASSUME ABInit PROVE Inv
    OBVIOUS
  <1>1. DOMAIN togo = {} /\ DOMAIN owner = {}
    BY DEF ABInit
  <1>2. Types
    BY <1>1, EmptyEnds, Constants DEF ABInit, Types
  <1>3. TimersOK
    BY DEF ABInit, TimersOK
  <1>4. HistoryOK
    <2> SUFFICES ASSUME NEW ip \in Ips
                 PROVE  Ends(failed[ip], last[ip]) /\ Len(failed[ip]) <= Kept
      BY DEF HistoryOK
    <2>1. failed[ip] = <<>> /\ last[ip] = <<>>
      BY DEF ABInit
    <2>2. Ends(<<>>, <<>>) /\ Len(<<>>) = 0
      BY EmptyEnds
    <2>3. Kept \in Nat
      BY Constants
    <2> QED
      BY <2>1, <2>2, <2>3
  <1>5. OwnTimers
    BY <1>1, Constants DEF ABInit, OwnTimers, Live
  <1>6. BansOK
    BY DEF ABInit, BansOK
  <1>7. WindowOK
    BY EmptyEnds DEF ABInit, WindowOK, Forgets
  <1> QED
    BY <1>2, <1>3, <1>4, <1>5, <1>6, <1>7 DEF Inv

LEMMA InvStep == Inv /\ [ABNext]_ABvars => Inv'
  <1> SUFFICES ASSUME Inv, [ABNext]_ABvars PROVE Inv'
    OBVIOUS
  <1>1. CASE UNCHANGED ABvars
    BY <1>1 DEF ABvars, Inv, Types, TimersOK, HistoryOK, OwnTimers, BansOK, WindowOK,
                Live, Forgets, IsBanned
  <1>2. CASE ABNext
    BY <1>2, FailedLoginStep, TimerFiresStep, OnTimerStep, SetOptionsStep, TickStep
       DEF ABNext
  <1> QED
    BY <1>1, <1>2

LEMMA Invariant == ABSpec => []Inv
  BY InvInit, InvStep, PTL DEF ABSpec

\* A handle always has a timer that will erase it, whichever session threads
\* replace timers while the event loop runs the handlers of the old ones.
THEOREM HandlesAreErased == ABSpec => []ABTypeOK
  <1>1. Inv => ABTypeOK
    <2> SUFFICES ASSUME Inv PROVE ABTypeOK
      OBVIOUS
    <2>1. HandlesExpire
      BY DEF Inv, Types, TimersOK, Live, HandlesExpire
    <2> QED
      BY <2>1 DEF Inv, Types, TimersOK, ABTypeOK, Age
  <1> QED
    BY <1>1, Invariant, PTL

\* Without session threads, max_login_failures within the window always make a
\* ban, and a ban that was announced lasts for ban_duration.
THEOREM BansHold == ABSpec => []BansAreKept
  <1>1. Inv => FailuresMakeABan
    <2> SUFFICES ASSUME Inv, shared, max # 0, NEW ip \in Ips,
                        Len(last[ip]) >= max, LastOf(last[ip], max)[1] < Window,
                        Len(failed[ip]) < max
                 PROVE  FALSE
      <3>1. Inv => max \in Nat /\ \A ip \in Ips : failed[ip] \in Seq(Age)
        BY Constants DEF Inv, Types
      <3> QED
        BY <3>1 DEF FailuresMakeABan, IsBanned
    <2> PICK F \in Seq(Age), L \in Seq(Age), m \in Nat \ {0} :
          F = failed[ip] /\ L = last[ip] /\ m = max
      BY Constants DEF Inv, Types
    <2>1. /\ Falling(L) /\ Outside(F, L) /\ Len(F) < m /\ m <= Len(L)
          /\ LastOf(L, m)[1] < Window
      BY DEF Inv, WindowOK
    <2>2. LastOf(L, m)[1] \in Nat /\ Window \in Nat /\ LastOf(L, m)[1] >= Window
      BY <2>1, ForgottenIsOld
    <2> QED
      BY <2>1, <2>2
  <1>2. Inv => BanLasts
    BY DEF Inv, BansOK, BanLasts
  <1> QED
    BY <1>1, <1>2, Invariant, PTL DEF BansAreKept

\* Whatever the timers forget and the options become, a failed login makes a
\* ban only when max_login_failures of the address lie within the window.
THEOREM BansAreDeserved == ABSpec => BanIsDeserved
  <1>1. Inv /\ [ABNext]_ABvars =>
          [\A ip \in Ips :
             ~ IsBanned(ip) /\ IsBanned(ip)' /\ max' = max =>
               Len(last'[ip]) >= max /\ LastOf(last'[ip], max)[1] <= Window]_ABvars
    <2> SUFFICES ASSUME Inv, ABNext, NEW ip \in Ips,
                        ~ IsBanned(ip), IsBanned(ip)', max' = max
                 PROVE  Len(last'[ip]) >= max /\ LastOf(last'[ip], max)[1] <= Window
      OBVIOUS
    <2>1. max \in Nat \ {0} /\ Len(failed[ip]) < max /\ Len(failed'[ip]) >= max
      BY Constants DEF Inv, Types, IsBanned
    <2>2. SetFailedLogin(ip)
      <3>1. ASSUME NEW j \in Ips, SetFailedLogin(j) PROVE j = ip
        BY <2>1, <3>1 DEF SetFailedLogin, Inv, Types
      <3>2. ASSUME NEW id \in TimerIds, TimerFires(id) PROVE FALSE
        BY <2>1, <3>2 DEF TimerFires
      <3>3. CASE OnTimer
        BY <2>1, <3>3, EmptyEnds DEF OnTimer, Inv, Types
      <3>4. ASSUME NEW m \in MaxChoices, SetOptions(m) PROVE FALSE
        BY <3>4 DEF SetOptions
      <3>5. CASE ABTick
        <4>1. failed[ip] \in Seq(Age) /\ failed'[ip] = Older(failed[ip])
          BY <3>5 DEF ABTick, Inv, Types
        <4> QED
          BY <2>1, <4>1, OlderEnds
      <3> QED
        BY <3>1, <3>2, <3>3, <3>4, <3>5 DEF ABNext
    <2>3. /\ failed'[ip] \in Seq(Age) /\ last'[ip] \in Seq(Age)
          /\ Ends(failed'[ip], last'[ip])
          /\ Len(failed'[ip]) = max /\ failed'[ip][1] <= Window
      BY <2>1, <2>2, NewFailure
    <2> PICK F \in Seq(Age), L \in Seq(Age) : F = failed'[ip] /\ L = last'[ip]
      BY <2>3
    <2>4. Len(L) >= max /\ F[1] = L[Len(L) - max + 1]
      BY <2>1, <2>3 DEF Ends
    <2>5. LastOf(L, max)[1] = L[Len(L) - max + 1]
      BY <2>1, <2>4, OldestOfLast
    <2> QED
      BY <2>3, <2>4, <2>5
  <1> QED
    BY <1>1, Invariant, PTL DEF ABSpec, BanIsDeserved
=============================================================================
