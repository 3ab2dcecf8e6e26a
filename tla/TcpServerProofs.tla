-------------------------- MODULE TcpServerProofs ---------------------------
(* Proofs about TcpServer, for any listeners, connections and addresses.    *)
EXTENDS TcpServer, TLAPS, SequenceTheorems, FiniteSetTheorems

(***************************************************************************)
(* Sequences: what they contain, and what they contain only once.           *)
(***************************************************************************)

\* An element of X is in s at most once.
OnceEach(s, X) ==
    \A i, j \in 1 .. Len(s) : s[i] \in X /\ s[i] = s[j] => i = j

LEMMA OfAppend ==
    ASSUME NEW S, NEW s \in Seq(S), NEW e \in S, NEW X
    PROVE  /\ Append(s, e) \in Seq(S) /\ Append(s, e) # <<>>
           /\ \A x : Contains(Append(s, e), x) <=> Contains(s, x) \/ x = e
           /\ OnceEach(s, X) /\ (e \in X => ~Contains(s, e)) => OnceEach(Append(s, e), X)
<1> DEFINE t == Append(s, e)
<1>1. /\ t \in Seq(S) /\ t # <<>> /\ Len(t) = Len(s) + 1 /\ t[Len(s) + 1] = e
      /\ \A i \in 1 .. Len(s) : t[i] = s[i]
      /\ Len(s) \in Nat
  BY AppendProperties, LenProperties
<1> HIDE DEF t
<1>2. \A x : Contains(t, x) <=> Contains(s, x) \/ x = e
  BY <1>1 DEF Contains
<1>3. ASSUME OnceEach(s, X), e \in X => ~Contains(s, e)
      PROVE  OnceEach(t, X)
  <2> SUFFICES ASSUME NEW i \in 1 .. Len(t), NEW j \in 1 .. Len(t), t[i] \in X, t[i] = t[j]
               PROVE  i = j
    BY DEF OnceEach
  <2>1. CASE i <= Len(s) /\ j <= Len(s)
    BY <1>1, <1>3, <2>1 DEF OnceEach
  <2>2. CASE i = Len(s) + 1 \/ j = Len(s) + 1
    BY <1>1, <1>3, <2>2 DEF Contains
  <2> QED
    BY <1>1, <2>1, <2>2
<1> QED
  BY <1>1, <1>2, <1>3 DEF t

LEMMA OfTail ==
    ASSUME NEW S, NEW s \in Seq(S), s # <<>>, NEW X
    PROVE  /\ Head(s) \in S /\ Tail(s) \in Seq(S)
           /\ \A x : Contains(s, x) <=> x = Head(s) \/ Contains(Tail(s), x)
           /\ OnceEach(s, X) => /\ OnceEach(Tail(s), X)
                                /\ Head(s) \in X => ~Contains(Tail(s), Head(s))
<1> DEFINE t == Tail(s)
<1>1. /\ Head(s) \in S /\ t \in Seq(S) /\ Len(t) = Len(s) - 1 /\ Head(s) = s[1]
      /\ \A i \in 1 .. Len(t) : t[i] = s[i + 1]
      /\ Len(s) \in Nat \ {0} /\ Len(t) \in Nat
  BY HeadTailProperties, EmptySeq, LenProperties DEF Head
<1> HIDE DEF t
<1>2. \A x : Contains(s, x) <=> x = Head(s) \/ Contains(t, x)
  <2> TAKE x
  <2>1. ASSUME Contains(s, x) PROVE x = Head(s) \/ Contains(t, x)
    <3>1. PICK i \in 1 .. Len(s) : s[i] = x
      BY <2>1 DEF Contains
    <3>2. CASE i = 1
      BY <1>1, <3>1, <3>2
    <3>3. CASE i # 1
      <4>1. i - 1 \in 1 .. Len(t) /\ t[i - 1] = s[(i - 1) + 1] /\ (i - 1) + 1 = i
        BY <1>1, <3>3
      <4> QED
        BY <3>1, <4>1 DEF Contains
    <3> QED
      BY <3>2, <3>3
  <2>2. ASSUME Contains(t, x) PROVE Contains(s, x)
    <3>1. PICK i \in 1 .. Len(t) : t[i] = x
      BY <2>2 DEF Contains
    <3>2. i + 1 \in 1 .. Len(s) /\ s[i + 1] = x
      BY <1>1, <3>1
    <3> QED
      BY <3>2 DEF Contains
  <2>3. Contains(s, Head(s))
    BY <1>1 DEF Contains
  <2> QED
    BY <2>1, <2>2, <2>3
<1>3. ASSUME OnceEach(s, X) PROVE OnceEach(t, X)
  <2> SUFFICES ASSUME NEW i \in 1 .. Len(t), NEW j \in 1 .. Len(t), t[i] \in X, t[i] = t[j]
               PROVE  i = j
    BY DEF OnceEach
  <2>1. i + 1 \in 1 .. Len(s) /\ j + 1 \in 1 .. Len(s) /\ t[i] = s[i + 1] /\ t[j] = s[j + 1]
    BY <1>1
  <2>2. i + 1 = j + 1
    BY <1>3, <2>1 DEF OnceEach
  <2> QED
    BY <2>2
<1>4. ASSUME OnceEach(s, X), Head(s) \in X, Contains(t, Head(s)) PROVE FALSE
  <2>1. PICK i \in 1 .. Len(t) : t[i] = Head(s)
    BY <1>4 DEF Contains
  <2>2. i + 1 \in 1 .. Len(s) /\ s[i + 1] = s[1] /\ 1 \in 1 .. Len(s) /\ s[1] \in X
    BY <1>1, <1>4, <2>1
  <2>3. 1 = i + 1
    BY ONLY <1>4, <2>2 DEF OnceEach
  <2> QED
    BY <2>3
<1> QED
  BY <1>1, <1>2, <1>3, <1>4 DEF t

\* Counting the positions up to i numbers a finite set of positions from 1 on.
LEMMA Ranks ==
    ASSUME NEW n \in Nat, NEW K \in SUBSET (1 .. n)
    PROVE  /\ Cardinality(K) \in Nat
           /\ \A i \in K : Cardinality({k \in K : k <= i}) \in 1 .. Cardinality(K)
           /\ \A i, j \in K : Cardinality({k \in K : k <= i}) = Cardinality({k \in K : k <= j})
                                => i = j
           /\ \A m \in 1 .. Cardinality(K) :
                \E i \in K : Cardinality({k \in K : k <= i}) = m
<1> DEFINE upto(i) == {k \in K : k <= i}
           rank == [i \in K |-> Cardinality(upto(i))]
<1>1. IsFiniteSet(K) /\ Cardinality(K) \in Nat
  <2>1. IsFiniteSet(1 .. n)
    BY FS_Interval
  <2>2. IsFiniteSet(K)
    BY <2>1, FS_Subset
  <2> QED
    BY <2>2, FS_CardinalityType
<1>2. ASSUME NEW i \in K
      PROVE  IsFiniteSet(upto(i)) /\ Cardinality(upto(i)) \in 1 .. Cardinality(K)
  <2>1. upto(i) \in SUBSET K /\ upto(i) # {}
    BY <1>2
  <2>2. IsFiniteSet(upto(i)) /\ Cardinality(upto(i)) <= Cardinality(K)
    BY <1>1, <2>1, FS_Subset
  <2>3. Cardinality(upto(i)) \in Nat /\ Cardinality(upto(i)) # 0
    BY <2>1, <2>2, FS_CardinalityType, FS_EmptySet
  <2> QED
    BY <1>1, <2>2, <2>3
<1>3. ASSUME NEW i \in K, NEW j \in K, Cardinality(upto(i)) = Cardinality(upto(j)), i < j
      PROVE  FALSE
  <2>0. \A k \in K : k \in Int
    OBVIOUS
  <2>1. upto(i) \in SUBSET upto(j) /\ j \in upto(j) /\ j \notin upto(i)
    <3>1. i \in Int /\ j \in Int /\ i < j /\ j \in K
      BY <1>3, <2>0
    <3>2. \A k \in K : k <= i => k <= j
      BY ONLY <2>0, <3>1
    <3>3. ~(j <= i) /\ j <= j
      BY ONLY <3>1
    <3> QED
      BY ONLY <3>1, <3>2, <3>3
  <2>2. IsFiniteSet(upto(j))
    BY <1>2
  <2>3. upto(j) = upto(i)
    BY <1>3, <2>1, <2>2, FS_Subset
  <2> QED
    BY <2>1, <2>3
<1>4. ASSUME NEW i \in K, NEW j \in K, Cardinality(upto(i)) = Cardinality(upto(j))
      PROVE  i = j
  <2>1. i \in Int /\ j \in Int
    OBVIOUS
  <2> QED
    BY <1>3, <1>4, <2>1
<1>5. ASSUME NEW m \in 1 .. Cardinality(K), \A i \in K : Cardinality(upto(i)) # m
      PROVE  FALSE
  <2> DEFINE T == (1 .. Cardinality(K)) \ {m}
  <2>1. IsFiniteSet(1 .. Cardinality(K)) /\ Cardinality(1 .. Cardinality(K)) = Cardinality(K)
    BY <1>1, FS_Interval
  <2>2. IsFiniteSet(T) /\ Cardinality(T) < Cardinality(K)
    <3>1. m \in 1 .. Cardinality(K)
      BY <1>5
    <3>2. IsFiniteSet(T) /\ Cardinality(T) = Cardinality(1 .. Cardinality(K)) - 1
      BY <2>1, <3>1, FS_RemoveElement
    <3> QED
      BY <1>1, <2>1, <3>2
  <2>3. rank \in [K -> T]
    BY <1>2, <1>5
  <2>4. \A x \in K : rank[x] = Cardinality(upto(x))
    OBVIOUS
  <2> HIDE DEF T, rank
  <2>5. \E x, y \in K : x # y /\ rank[x] = rank[y]
    BY ONLY <1>1, <2>2, <2>3, FS_PigeonHole
  <2> QED
    BY <1>4, <2>4, <2>5
<1> QED
  BY <1>1, <1>2, <1>4, <1>5

LEMMA OfWithout ==
    ASSUME NEW S, NEW s \in Seq(S), NEW e, NEW X
    PROVE  /\ Without(s, e) \in Seq(S)
           /\ \A x : Contains(Without(s, e), x) <=> Contains(s, x) /\ x # e
           /\ OnceEach(s, X) => OnceEach(Without(s, e), X)
<1> DEFINE kept == {i \in 1 .. Len(s) : s[i] # e}
           rank(i) == Cardinality({k \in kept : k <= i})
           nth(j) == CHOOSE i \in kept : rank(i) = j
           N == Cardinality(kept)
           t == [j \in 1 .. N |-> s[nth(j)]]
<1>1. Len(s) \in Nat /\ kept \in SUBSET (1 .. Len(s))
  BY LenProperties
<1> HIDE DEF kept
<1>2. /\ N \in Nat
      /\ \A i \in kept : rank(i) \in 1 .. N
      /\ \A i, j \in kept : rank(i) = rank(j) => i = j
      /\ \A m \in 1 .. N : \E i \in kept : rank(i) = m
  BY <1>1, Ranks
<1>3. t = Without(s, e)
  BY DEF Without, kept
<1> HIDE DEF rank, N
<1>4. \A m \in 1 .. N : nth(m) \in kept /\ rank(nth(m)) = m
  BY <1>2
<1>5. \A i \in kept : nth(rank(i)) = i /\ rank(i) \in 1 .. N
  BY <1>2, <1>4
<1> HIDE DEF nth
<1>6. t \in [1 .. N -> S]
  <2>1. \A m \in 1 .. N : nth(m) \in 1 .. Len(s)
    BY <1>1, <1>4
  <2> QED
    BY <2>1, ElementOfSeq
<1>7. t \in Seq(S) /\ Len(t) = N
  BY <1>2, <1>6, SeqDef, LenProperties
<1>0. \A i : i \in kept <=> i \in 1 .. Len(s) /\ s[i] # e
  BY DEF kept
<1>8. \A m \in 1 .. N : t[m] = s[nth(m)] /\ nth(m) \in 1 .. Len(s) /\ t[m] # e
  BY <1>4, <1>0
<1>9. \A i \in kept : t[rank(i)] = s[i]
  BY <1>5, <1>8
<1> HIDE DEF t
<1>10. \A x : Contains(t, x) <=> Contains(s, x) /\ x # e
  BY <1>5, <1>7, <1>8, <1>9, <1>0 DEF Contains
<1>11. ASSUME OnceEach(s, X) PROVE OnceEach(t, X)
  <2> SUFFICES ASSUME NEW i \in 1 .. N, NEW j \in 1 .. N, t[i] \in X, t[i] = t[j]
               PROVE  i = j
    BY <1>7 DEF OnceEach
  <2>1. nth(i) = nth(j)
    BY <1>8, <1>11 DEF OnceEach
  <2> QED
    BY <1>4, <2>1
<1> QED
  BY <1>3, <1>7, <1>10, <1>11

(***************************************************************************)
(* The inductive invariant.                                                 *)
(***************************************************************************)

Event ==      [type : {"connected"}, of : Listeners]
         \cup [type : {"ended"}, of : Conns]
         \cup [type : {"banned"}, of : Ips]

AcceptPc ==      [at : {"accept", "push"}, l : Listeners, c : Conns]
            \cup [at : {"send", "listen"}, l : Listeners]

ServerPc ==      [at : {"drain", "look"}, l : Listeners, left : 0 .. DrainMax]
            \cup [at : {"destroy"}, todo : SUBSET Listeners]
            \cup [at : {"wait"}, l : Listeners, todo : SUBSET Listeners]

ConnState == {"away", "knocking", "checked", "waiting", "live", "closing", "ended", "gone"}

Types ==
    /\ running \in BOOLEAN /\ listeners \subseteq Listeners
    /\ open \in [Listeners -> BOOLEAN] /\ timer \in [Listeners -> BOOLEAN]
    /\ status \in [Listeners -> {"stopped", "retrying", "started"}]
    /\ accepted \in [Listeners -> Seq(Conns)]
    /\ lpc \in AcceptPc \cup {Idle} /\ spc \in ServerPc \cup {Idle}
    /\ queue \in Seq(Event)
    /\ conn \in [Conns -> ConnState] /\ via \in [Conns -> Listeners]
    /\ num \in 0 .. SizeMax /\ quits \in 0 .. MaxQuits
    /\ banned \subseteq Ips /\ early \subseteq Conns /\ crashed \in BOOLEAN

\* The server's loop waits in the destructor of l for the handler that runs.
Waits(l) == spc.at = "wait" /\ spc.l = l

\* A listener that does not listen has no timer and, unless it is just being
\* destroyed, no sockets.
ListenerOK(l) ==
    /\ open[l] <=> status[l] # "stopped"
    /\ timer[l] => open[l]
    /\ open[l] => l \in listeners /\ ~Waits(l)
    /\ accepted[l] # <<>> => open[l] \/ Waits(l)

Listening == \A l \in Listeners : ListenerOK(l)

\* A handler of a listener's runs while it listens, or while its destructor waits
\* for the handler; the connection it is about stays as it found it.
HandlerOK ==
    lpc # Idle =>
        /\ open[lpc.l] \/ Waits(lpc.l)
        /\ lpc.at = "accept" /\ open[lpc.l] =>
             conn[lpc.c] = "knocking" /\ via[lpc.c] = lpc.l
        /\ lpc.at = "push" => conn[lpc.c] = "checked" /\ via[lpc.c] = lpc.l

\* Accepted sockets are those that wait, each once and in one listener.
Accepted ==
    \A l \in Listeners :
        /\ OnceEach(accepted[l], Conns)
        /\ \A c \in Conns : Contains(accepted[l], c) => conn[c] = "waiting" /\ via[c] = l

\* A session that has ended says so once, if it is not told that its user is gone.
Ended ==
    \A c \in Conns :
        /\ Contains(queue, EndedEvent(c)) => conn[c] \in {"live", "closing", "ended", "gone"}
        /\ quits = 0 =>
             /\ Contains(queue, EndedEvent(c)) => conn[c] = "ended"
             /\ OnceEach(queue, {EndedEvent(c)})

Inv ==
    /\ Types /\ Listening /\ HandlerOK /\ Accepted /\ Ended
    /\ CountsSessions /\ RetryingTriesAgain /\ WaitingIsAnnounced

InSession == {"live", "closing", "ended"}

LEMMA Shapes ==
    ASSUME Types
    PROVE  /\ lpc.at \in {"idle", "accept", "push", "send", "listen"}
           /\ lpc = Idle <=> lpc.at = "idle"
           /\ lpc # Idle => lpc.l \in Listeners
           /\ lpc.at \in {"accept", "push"} => lpc.c \in Conns
           /\ spc.at \in {"idle", "drain", "look", "destroy", "wait"}
           /\ spc = Idle <=> spc.at = "idle"
           /\ spc.at \in {"drain", "look", "wait"} => spc.l \in Listeners
           /\ spc.at \in {"drain", "look"} =>
                /\ spc.left \in 0 .. DrainMax
                /\ spc = [at |-> spc.at, l |-> spc.l, left |-> spc.left]
           /\ spc.at \in {"destroy", "wait"} => spc.todo \subseteq Listeners
<1>1. CASE lpc = Idle /\ spc = Idle
  BY <1>1 DEF Idle
<1>2. lpc # Idle => lpc \in AcceptPc
  BY DEF Types
<1>3. spc # Idle => spc \in ServerPc
  BY DEF Types
<1>4. /\ lpc.at \in {"idle", "accept", "push", "send", "listen"}
      /\ lpc = Idle <=> lpc.at = "idle"
      /\ lpc # Idle => lpc.l \in Listeners
      /\ lpc.at \in {"accept", "push"} => lpc.c \in Conns
  BY <1>2 DEF Idle, AcceptPc
<1>5. /\ spc.at \in {"idle", "drain", "look", "destroy", "wait"}
      /\ spc = Idle <=> spc.at = "idle"
  BY <1>3 DEF Idle, ServerPc
<1>6. /\ spc.at \in {"drain", "look", "wait"} => spc.l \in Listeners
      /\ spc.at \in {"destroy", "wait"} => spc.todo \subseteq Listeners
  BY <1>3 DEF Idle, ServerPc
<1>7. ASSUME spc.at \in {"drain", "look"}
      PROVE  /\ spc.left \in 0 .. DrainMax
             /\ spc = [at |-> spc.at, l |-> spc.l, left |-> spc.left]
  <2>1. spc \in [at : {"drain", "look"}, l : Listeners, left : 0 .. DrainMax]
    BY <1>3, <1>5, <1>7 DEF ServerPc
  <2> QED
    BY <2>1
<1> QED
  BY <1>4, <1>5, <1>6, <1>7

LEMMA Events ==
    /\ \A l \in Listeners : ConnectedEvent(l) \in Event /\ ConnectedEvent(l).type = "connected"
    /\ \A c \in Conns : EndedEvent(c) \in Event /\ EndedEvent(c).type = "ended"
    /\ \A ip \in Ips : BannedEvent(ip) \in Event /\ BannedEvent(ip).type = "banned"
    /\ \A l, m \in Listeners : ConnectedEvent(l) = ConnectedEvent(m) => l = m
    /\ \A c, d \in Conns : EndedEvent(c) = EndedEvent(d) => c = d
    /\ \A e \in Event :
        /\ e.type \in {"connected", "ended", "banned"}
        /\ e.type = "connected" => e.of \in Listeners /\ e = ConnectedEvent(e.of)
        /\ e.type = "ended" => e.of \in Conns /\ e = EndedEvent(e.of)
        /\ e.type = "banned" => e.of \in Ips /\ e = BannedEvent(e.of)
<1>1. /\ \A l \in Listeners : ConnectedEvent(l) \in Event /\ ConnectedEvent(l).type = "connected"
      /\ \A c \in Conns : EndedEvent(c) \in Event /\ EndedEvent(c).type = "ended"
      /\ \A ip \in Ips : BannedEvent(ip) \in Event /\ BannedEvent(ip).type = "banned"
  BY DEF Event, ConnectedEvent, EndedEvent, BannedEvent
<1>2. \A l, m \in Listeners : ConnectedEvent(l) = ConnectedEvent(m) => l = m
  BY DEF ConnectedEvent
<1>3. \A c, d \in Conns : EndedEvent(c) = EndedEvent(d) => c = d
  BY DEF EndedEvent
<1>4. ASSUME NEW e \in Event
      PROVE  /\ e.type \in {"connected", "ended", "banned"}
             /\ e.type = "connected" => e.of \in Listeners /\ e = ConnectedEvent(e.of)
             /\ e.type = "ended" => e.of \in Conns /\ e = EndedEvent(e.of)
             /\ e.type = "banned" => e.of \in Ips /\ e = BannedEvent(e.of)
  <2>1. CASE e \in [type : {"connected"}, of : Listeners]
    BY <2>1 DEF ConnectedEvent
  <2>2. CASE e \in [type : {"ended"}, of : Conns]
    BY <2>2 DEF EndedEvent
  <2>3. CASE e \in [type : {"banned"}, of : Ips]
    BY <2>3 DEF BannedEvent
  <2> QED
    BY <2>1, <2>2, <2>3 DEF Event
<1> QED
  BY <1>1, <1>2, <1>3, <1>4

----------------------------------------------------------------------------
(* What a step leaves alone.                                                *)

\* Nothing changes at the listeners and nobody begins or ends to wait for one.
LEMMA ListenersKept ==
    ASSUME Inv, UNCHANGED <<listenVars, accepted>>,
           \A l \in Listeners : Waits(l)' <=> Waits(l)
    PROVE  Listening'
  BY DEF Inv, Listening, ListenerOK, listenVars

\* The handler of a listener's that runs is not disturbed.
LEMMA HandlerKept ==
    ASSUME Inv, UNCHANGED <<open, lpc>>,
           \A l \in Listeners : Waits(l)' <=> Waits(l),
           \A c \in Conns : conn[c] \in {"knocking", "checked"} =>
                              conn'[c] = conn[c] /\ via'[c] = via[c]
    PROVE  HandlerOK'
  BY Shapes DEF Inv, HandlerOK

\* No socket comes to the listeners or leaves them.
LEMMA AcceptedKept ==
    ASSUME Inv, UNCHANGED accepted,
           \A c \in Conns : conn[c] = "waiting" => conn'[c] = conn[c] /\ via'[c] = via[c]
    PROVE  Accepted'
  BY DEF Inv, Accepted

\* No connection becomes a session or ceases to be one.
LEMMA CountKept ==
    ASSUME Inv, UNCHANGED <<num, quits>>,
           \A c \in Conns : conn'[c] \in InSession <=> conn[c] \in InSession
    PROVE  CountsSessions'
<1>1. Sessions' = Sessions
  BY DEF Sessions, InSession
<1> QED
  BY <1>1 DEF Inv, CountsSessions

\* No session announces its end.
LEMMA EndedKept ==
    ASSUME Inv, UNCHANGED quits,
           \A c \in Conns :
             /\ Contains(queue', EndedEvent(c)) => Contains(queue, EndedEvent(c))
             /\ OnceEach(queue, {EndedEvent(c)}) => OnceEach(queue', {EndedEvent(c)}),
           \A c \in Conns : /\ conn[c] = "live" => conn'[c] \in {"live", "closing"}
                            /\ conn[c] \in {"closing", "ended", "gone"} => conn'[c] = conn[c]
    PROVE  Ended'
  BY DEF Inv, Ended

LEMMA RetryingKept ==
    ASSUME Inv, UNCHANGED listenVars, lpc.at = "listen" => lpc' = lpc
    PROVE  RetryingTriesAgain'
  BY DEF Inv, RetryingTriesAgain, listenVars

\* What is on its way to a socket that waits goes on.
LEMMA WaitingKept ==
    ASSUME Inv, UNCHANGED <<listeners, accepted, status>>,
           \A l \in Listeners : Contains(queue, ConnectedEvent(l)) =>
                                  Contains(queue', ConnectedEvent(l)),
           lpc.at = "send" => lpc' = lpc,
           spc.at \in {"drain", "look"} => spc' = spc
    PROVE  WaitingIsAnnounced'
  BY DEF Inv, Types, WaitingIsAnnounced

----------------------------------------------------------------------------

LEMMA InvInit ==
    ASSUME Init
    PROVE  Inv
<1> USE TcpServerAssumption DEF Init
<1>1. Types
  <2>1. <<>> \in Seq(Conns) /\ <<>> \in Seq(Event)
    BY EmptySeq
  <2>2. 0 \in 0 .. SizeMax /\ 0 \in 0 .. MaxQuits
    OBVIOUS
  <2> QED
    BY ONLY <2>1, <2>2, Init DEF Init, Types, ConnState
<1>2. Listening /\ HandlerOK /\ RetryingTriesAgain /\ WaitingIsAnnounced
  BY DEF Listening, ListenerOK, HandlerOK, RetryingTriesAgain, WaitingIsAnnounced, Waits, Idle
<1>3. Accepted /\ Ended
  BY EmptySeq DEF Accepted, Ended, OnceEach, Contains
<1>4. CountsSessions
  <2>1. Sessions = {}
    BY DEF Sessions
  <2> QED
    BY <2>1, FS_EmptySet DEF CountsSessions
<1> QED
  BY <1>1, <1>2, <1>3, <1>4 DEF Inv

(***************************************************************************)
(* The operating system.                                                    *)
(***************************************************************************)

LEMMA KnockKeeps ==
    ASSUME Inv, NEW c \in Conns, NEW l \in Listeners, Knock(c, l)
    PROVE  Inv'
<1> USE DEF Knock
<1>0. Types /\ \A d \in Conns : d # c => conn'[d] = conn[d] /\ via'[d] = via[d]
  BY DEF Inv, Types
<1>c. conn'[c] = "knocking" /\ via'[c] = l
  BY <1>0 DEF Types
<1>1. Types'
  BY <1>0 DEF Types, listenVars, banVars, ConnState
<1>2. Listening'
  BY ListenersKept DEF Waits
<1>3. HandlerOK'
  BY <1>0, HandlerKept DEF Waits, listenVars
<1>4. Accepted'
  BY <1>0, AcceptedKept
<1>5. Ended'
  BY <1>0, <1>c, EndedKept
<1>6. CountsSessions'
  BY <1>0, <1>c, CountKept DEF InSession
<1>7. RetryingTriesAgain'
  BY RetryingKept
<1>8. WaitingIsAnnounced'
  BY WaitingKept DEF listenVars
<1> QED
  BY <1>1, <1>2, <1>3, <1>4, <1>5, <1>6, <1>7, <1>8 DEF Inv

LEMMA LeaveKeeps ==
    ASSUME Inv, NEW c \in Conns, Leave(c)
    PROVE  Inv'
<1> USE DEF Leave
<1>0. Types /\ \A d \in Conns : d # c => conn'[d] = conn[d]
  BY DEF Inv, Types
<1>c. conn'[c] = "away"
  BY <1>0 DEF Types
<1>1. Types'
  BY <1>0 DEF Types, listenVars, ConnState
<1>2. Listening'
  BY ListenersKept DEF Waits
<1>3. HandlerOK'
  BY <1>0, HandlerKept DEF Waits, listenVars
<1>4. Accepted'
  BY <1>0, AcceptedKept
<1>5. Ended'
  BY <1>0, <1>c DEF Inv, Ended
<1>6. CountsSessions'
  BY <1>0, <1>c, CountKept DEF InSession
<1>7. RetryingTriesAgain'
  BY RetryingKept
<1>8. WaitingIsAnnounced'
  BY WaitingKept DEF listenVars
<1> QED
  BY <1>1, <1>2, <1>3, <1>4, <1>5, <1>6, <1>7, <1>8 DEF Inv

(***************************************************************************)
(* The listeners' event loop.                                               *)
(***************************************************************************)

LEMMA EnterAcceptKeeps ==
    ASSUME Inv, NEW l \in Listeners, EnterAccept(l)
    PROVE  Inv'
<1> USE DEF EnterAccept
<1>1. PICK c \in Conns :
         conn[c] = "knocking" /\ via[c] = l /\ lpc' = [at |-> "accept", l |-> l, c |-> c]
  OBVIOUS
<1>2. Types'
  BY <1>1 DEF Inv, Types, listenVars, banVars, AcceptPc
<1>3. Listening'
  BY ListenersKept DEF Waits
<1>4. HandlerOK'
  BY <1>1 DEF HandlerOK, listenVars
<1>5. Accepted' /\ Ended' /\ CountsSessions'
  BY AcceptedKept, EndedKept, CountKept
<1>6. RetryingTriesAgain'
  BY RetryingKept DEF Idle
<1>7. WaitingIsAnnounced'
  BY WaitingKept DEF listenVars, Idle
<1> QED
  BY <1>2, <1>3, <1>4, <1>5, <1>6, <1>7 DEF Inv

LEMMA AcceptKeeps ==
    ASSUME Inv, Accept
    PROVE  Inv'
<1> USE DEF Accept
<1>0. Types /\ lpc # Idle /\ lpc.l \in Listeners /\ lpc.c \in Conns
  BY Shapes DEF Inv, Idle
<1>1. CASE ~open[lpc.l]
  <2>1. Types'
    BY <1>0, <1>1 DEF Types, listenVars, banVars
  <2>2. Listening' /\ HandlerOK' /\ Accepted' /\ Ended' /\ CountsSessions'
    BY <1>1, ListenersKept, HandlerKept, AcceptedKept, EndedKept, CountKept DEF Waits, listenVars
  <2>3. RetryingTriesAgain' /\ WaitingIsAnnounced'
    BY <1>1, RetryingKept, WaitingKept DEF listenVars
  <2> QED
    BY <2>1, <2>2, <2>3 DEF Inv
<1>2. CASE open[lpc.l]
  <2>0. conn[lpc.c] = "knocking" /\ via[lpc.c] = lpc.l
    BY <1>0, <1>2 DEF Inv, HandlerOK
  <2>c. /\ \A d \in Conns : d # lpc.c => conn'[d] = conn[d]
        /\ \/ conn'[lpc.c] = "checked" /\ lpc' = [lpc EXCEPT !.at = "push"]
           \/ conn'[lpc.c] = "gone" /\ lpc' = Idle
    BY <1>0, <1>2 DEF Types
  <2>l. lpc \in [at : {"accept", "push"}, l : Listeners, c : Conns]
    BY <1>0 DEF Types, Idle, AcceptPc
  <2>p. \/ lpc' = Idle
        \/ lpc'.at = "push" /\ lpc'.l = lpc.l /\ lpc'.c = lpc.c /\ lpc' \in AcceptPc
    BY <2>c, <2>l DEF AcceptPc
  <2>1. Types'
    BY <1>0, <1>2, <2>p DEF Types, listenVars, banVars, ConnState
  <2>2. Listening'
    BY ListenersKept DEF Waits
  <2>3. HandlerOK'
    BY <1>0, <1>2, <2>0, <2>c, <2>p DEF HandlerOK, listenVars, Idle
  <2>4. Accepted'
    BY <2>0, <2>c, AcceptedKept
  <2>5. Ended'
    BY <2>0, <2>c, EndedKept
  <2>6. CountsSessions'
    BY <2>0, <2>c, CountKept DEF InSession
  <2>7. RetryingTriesAgain'
    BY RetryingKept
  <2>8. WaitingIsAnnounced'
    BY WaitingKept DEF listenVars
  <2> QED
    BY <2>1, <2>2, <2>3, <2>4, <2>5, <2>6, <2>7, <2>8 DEF Inv
<1> QED
  BY <1>0, <1>1, <1>2 DEF Types

LEMMA PushKeeps ==
    ASSUME Inv, Push
    PROVE  Inv'
<1> USE DEF Push
<1>0. Types /\ lpc # Idle /\ lpc.l \in Listeners /\ lpc.c \in Conns
  BY Shapes DEF Inv, Idle
<1>h. conn[lpc.c] = "checked" /\ via[lpc.c] = lpc.l /\ (open[lpc.l] \/ Waits(lpc.l))
  BY <1>0 DEF Inv, HandlerOK
<1>s. /\ accepted[lpc.l] \in Seq(Conns)
      /\ accepted'[lpc.l] = Append(accepted[lpc.l], lpc.c)
      /\ \A l \in Listeners : l # lpc.l => accepted'[l] = accepted[l]
      /\ accepted' \in [Listeners -> Seq(Conns)]
  BY <1>0, OfAppend DEF Types
<1>c. /\ conn'[lpc.c] = "waiting" /\ \A d \in Conns : d # lpc.c => conn'[d] = conn[d]
      /\ conn' \in [Conns -> ConnState]
  BY <1>0 DEF Types, ConnState
<1>a. /\ \A d : Contains(accepted'[lpc.l], d) <=> Contains(accepted[lpc.l], d) \/ d = lpc.c
      /\ accepted'[lpc.l] # <<>>
      /\ OnceEach(accepted[lpc.l], Conns) /\ ~Contains(accepted[lpc.l], lpc.c)
           => OnceEach(accepted'[lpc.l], Conns)
  BY <1>0, <1>s, OfAppend
<1>p. lpc' \in {[at |-> "send", l |-> lpc.l], Idle}
  OBVIOUS
<1>1. Types'
  BY <1>0, <1>s, <1>c, <1>p DEF Types, listenVars, banVars, AcceptPc
<1>2. Listening'
  <2>1. \A l \in Listeners : Waits(l)' <=> Waits(l)
    BY DEF Waits
  <2>2. \A l \in Listeners : ListenerOK(l)
    BY DEF Inv, Listening
  <2> QED
    BY <1>h, <1>s, <2>1, <2>2 DEF Listening, ListenerOK, listenVars
<1>3. HandlerOK'
  BY <1>0, <1>h, <1>p DEF HandlerOK, Waits, listenVars, Idle
<1>4. Accepted'
  <2>1. ~Contains(accepted[lpc.l], lpc.c)
    BY <1>0, <1>h DEF Inv, Accepted
  <2>2. SUFFICES ASSUME NEW l \in Listeners
                 PROVE  /\ OnceEach(accepted'[l], Conns)
                        /\ \A d \in Conns : Contains(accepted'[l], d) =>
                                              conn'[d] = "waiting" /\ via'[d] = l
    BY DEF Accepted
  <2>3. /\ OnceEach(accepted[l], Conns)
        /\ \A d \in Conns : Contains(accepted[l], d) => conn[d] = "waiting" /\ via[d] = l
    BY DEF Inv, Accepted
  <2>4. CASE l = lpc.l
    BY <1>h, <1>c, <1>a, <2>1, <2>3, <2>4
  <2>5. CASE l # lpc.l
    BY <1>h, <1>s, <1>c, <2>3, <2>5
  <2> QED
    BY <2>4, <2>5
<1>5. Ended'
  BY <1>h, <1>c, EndedKept
<1>6. CountsSessions'
  BY <1>h, <1>c, CountKept DEF InSession
<1>7. RetryingTriesAgain'
  BY RetryingKept
<1>8. WaitingIsAnnounced'
  <2>1. CASE accepted[lpc.l] = <<>>
    <3>1. Len(accepted'[lpc.l]) = 1
      BY <1>0, <1>s, <2>1, AppendProperties, EmptySeq
    <3>2. lpc' = [at |-> "send", l |-> lpc.l]
      BY <3>1
    <3> QED
      BY <1>s, <3>2 DEF Inv, Types, WaitingIsAnnounced, listenVars
  <2>2. CASE accepted[lpc.l] # <<>>
    BY <1>s, <2>2 DEF Inv, Types, WaitingIsAnnounced, listenVars
  <2> QED
    BY <2>1, <2>2
<1> QED
  BY <1>1, <1>2, <1>3, <1>4, <1>5, <1>6, <1>7, <1>8 DEF Inv

LEMMA SendKeeps ==
    ASSUME Inv, Send
    PROVE  Inv'
<1> USE DEF Send
<1>0. Types /\ lpc # Idle /\ lpc.l \in Listeners /\ queue \in Seq(Event)
  BY Shapes DEF Inv, Types, Idle
<1>e. ConnectedEvent(lpc.l) \in Event /\ \A c \in Conns : ConnectedEvent(lpc.l) # EndedEvent(c)
  BY <1>0, Events
<1>q. /\ queue' \in Seq(Event)
      /\ \A x : Contains(queue', x) <=> Contains(queue, x) \/ x = ConnectedEvent(lpc.l)
      /\ \A c \in Conns :
           OnceEach(queue, {EndedEvent(c)}) => OnceEach(queue', {EndedEvent(c)})
  <2>1. ASSUME NEW c \in Conns, OnceEach(queue, {EndedEvent(c)})
        PROVE  OnceEach(queue', {EndedEvent(c)})
    BY <1>0, <1>e, <2>1, OfAppend
  <2> QED
    BY <1>0, <1>e, <2>1, OfAppend
<1>1. Types'
  BY <1>0, <1>q DEF Types, listenVars, banVars
<1>2. Listening'
  BY ListenersKept DEF Waits
<1>3. HandlerOK'
  BY DEF HandlerOK
<1>4. Accepted' /\ CountsSessions'
  BY AcceptedKept, CountKept
<1>5. Ended'
  BY <1>e, <1>q, EndedKept
<1>6. RetryingTriesAgain'
  BY RetryingKept
<1>7. WaitingIsAnnounced'
  BY <1>q DEF Inv, WaitingIsAnnounced, listenVars
<1> QED
  BY <1>1, <1>2, <1>3, <1>4, <1>5, <1>6, <1>7 DEF Inv

LEMMA EnterRetryKeeps ==
    ASSUME Inv, NEW l \in Listeners, EnterRetry(l)
    PROVE  Inv'
<1> USE DEF EnterRetry
<1>0. /\ Types /\ ListenerOK(l) /\ timer' \in [Listeners -> BOOLEAN]
      /\ \A m \in Listeners : timer'[m] => timer[m]
      /\ \A m \in Listeners : m # l => timer'[m] = timer[m]
  BY DEF Inv, Listening, Types
<1>1. Types'
  BY <1>0 DEF Types, banVars, AcceptPc
<1>2. Listening'
  BY <1>0 DEF Inv, Listening, ListenerOK, Waits
<1>3. HandlerOK'
  BY <1>0 DEF HandlerOK, ListenerOK
<1>4. Accepted' /\ Ended' /\ CountsSessions'
  BY AcceptedKept, EndedKept, CountKept
<1>5. RetryingTriesAgain'
  BY <1>0 DEF Inv, Types, RetryingTriesAgain, Idle
<1>6. WaitingIsAnnounced'
  BY WaitingKept DEF Idle
<1> QED
  BY <1>1, <1>2, <1>3, <1>4, <1>5, <1>6 DEF Inv

LEMMA RetryKeeps ==
    ASSUME Inv, Retry
    PROVE  Inv'
<1> USE DEF Retry
<1>0. Types /\ lpc # Idle /\ lpc.l \in Listeners /\ ListenerOK(lpc.l)
  BY Shapes DEF Inv, Idle, Listening
<1>1. CASE ~open[lpc.l]
  <2>1. Types'
    BY <1>0, <1>1 DEF Types, banVars
  <2>2. Listening' /\ HandlerOK' /\ Accepted' /\ Ended' /\ CountsSessions'
    BY <1>1, ListenersKept, HandlerKept, AcceptedKept, EndedKept, CountKept DEF Waits, listenVars
  <2>3. RetryingTriesAgain' /\ WaitingIsAnnounced'
    BY <1>1, RetryingKept, WaitingKept DEF listenVars
  <2> QED
    BY <2>1, <2>2, <2>3 DEF Inv
<1>2. CASE open[lpc.l]
  <2>1. PICK ok \in BOOLEAN : TryListen(lpc.l, ok)
    BY <1>2
  <2>2. /\ status' \in [Listeners -> {"stopped", "retrying", "started"}]
        /\ timer' \in [Listeners -> BOOLEAN]
        /\ status'[lpc.l] = (IF ok THEN "started" ELSE "retrying") /\ timer'[lpc.l] = ~ok
        /\ \A m \in Listeners : m # lpc.l => status'[m] = status[m] /\ timer'[m] = timer[m]
    BY <1>0, <2>1 DEF Types, TryListen
  <2>3. lpc' = Idle
    BY <1>2
  <2>4. Types'
    BY <1>0, <1>2, <2>2, <2>3 DEF Types, banVars
  <2>5. Listening'
    BY <1>0, <1>2, <2>2 DEF Inv, Listening, ListenerOK, Waits
  <2>6. HandlerOK'
    BY <2>3 DEF HandlerOK
  <2>7. Accepted' /\ Ended' /\ CountsSessions'
    BY AcceptedKept, EndedKept, CountKept
  <2>8. RetryingTriesAgain'
    BY <1>0, <2>2 DEF Inv, Types, RetryingTriesAgain
  <2>9. WaitingIsAnnounced'
    BY <1>0, <1>2, <2>2 DEF Inv, Types, WaitingIsAnnounced, ListenerOK
  <2> QED
    BY <2>4, <2>5, <2>6, <2>7, <2>8, <2>9 DEF Inv
<1> QED
  BY <1>0, <1>1, <1>2 DEF Types

(***************************************************************************)
(* The server's event loop.                                                 *)
(***************************************************************************)

LEMMA Modulo ==
    ASSUME NEW n \in Nat
    PROVE  /\ \A a \in Nat : a % (n + 1) \in 0 .. n
           /\ \A a \in 0 .. n : a % (n + 1) = a
           /\ \A a \in 1 .. n : (a + n) % (n + 1) = a - 1
<1>1. ASSUME NEW a \in Nat PROVE a % (n + 1) \in 0 .. n
  OBVIOUS
<1>2. ASSUME NEW a \in 0 .. n PROVE a % (n + 1) = a
  OBVIOUS
<1>3. ASSUME NEW a \in 1 .. n PROVE (a + n) % (n + 1) = a - 1
  OBVIOUS
<1> QED
  BY <1>1, <1>2, <1>3

LEMMA Constants ==
    /\ IsFiniteSet(Conns) /\ Cardinality(Conns) \in Nat
    /\ IpOf \in [Conns -> Ips] /\ DrainMax \in Nat \ {0}
    /\ SizeMax \in Nat /\ Cardinality(Conns) <= SizeMax /\ MaxQuits \in Nat
  BY TcpServerAssumption, FS_CardinalityType

LEMMA SessionsFinite ==
    ASSUME NEW C \in SUBSET Conns
    PROVE  /\ IsFiniteSet(C) /\ Cardinality(C) \in 0 .. SizeMax
           /\ \A c \in Conns \ C : Cardinality(C \cup {c}) = Cardinality(C) + 1
           /\ \A c \in C : Cardinality(C \ {c}) = Cardinality(C) - 1
<1>1. IsFiniteSet(C) /\ Cardinality(C) <= Cardinality(Conns)
  BY Constants, FS_Subset
<1>2. Cardinality(C) \in Nat
  BY <1>1, FS_CardinalityType
<1> QED
  BY <1>1, <1>2, Constants, FS_AddElement, FS_RemoveElement

\* An event is taken from the queue.
LEMMA HeadTaken ==
    ASSUME Inv, queue # <<>>, queue' = Tail(queue)
    PROVE  /\ queue' \in Seq(Event) /\ Head(queue) \in Event
           /\ \A x : Contains(queue, x) <=> x = Head(queue) \/ Contains(queue', x)
           /\ \A c \in Conns : OnceEach(queue, {EndedEvent(c)}) =>
                /\ OnceEach(queue', {EndedEvent(c)})
                /\ Head(queue) = EndedEvent(c) => ~Contains(queue', EndedEvent(c))
<1>1. queue \in Seq(Event)
  BY DEF Inv, Types
<1>2. ASSUME NEW c \in Conns, OnceEach(queue, {EndedEvent(c)})
      PROVE  /\ OnceEach(queue', {EndedEvent(c)})
             /\ Head(queue) = EndedEvent(c) => ~Contains(queue', EndedEvent(c))
  BY <1>1, <1>2, OfTail
<1> QED
  BY <1>1, <1>2, OfTail

LEMMA OnConnectedKeeps ==
    ASSUME Inv, OnConnected
    PROVE  Inv'
<1> USE DEF OnConnected
<1> DEFINE l == Head(queue).of
<1>q. /\ queue' \in Seq(Event) /\ Head(queue) \in Event
      /\ \A x : Contains(queue, x) <=> x = Head(queue) \/ Contains(queue', x)
      /\ \A c \in Conns :
           OnceEach(queue, {EndedEvent(c)}) => OnceEach(queue', {EndedEvent(c)})
  BY HeadTaken
<1>l. l \in Listeners /\ Head(queue) = ConnectedEvent(l) /\ Head(queue).type = "connected"
  BY <1>q, Events
<1>s. \/ l \in listeners /\ spc' = [at |-> "drain", l |-> l, left |-> DrainMax]
      \/ l \notin listeners /\ spc' = spc
  OBVIOUS
<1>w. \A m \in Listeners : Waits(m)' <=> Waits(m)
  BY <1>s DEF Waits, Idle
<1> HIDE DEF l
<1>1. Types'
  <2>1. [at |-> "drain", l |-> l, left |-> DrainMax] \in ServerPc
    BY <1>l, Constants DEF ServerPc
  <2> QED
    BY <1>q, <1>s, <2>1 DEF Inv, Types, listenVars, banVars
<1>2. Listening'
  BY <1>w, ListenersKept
<1>3. HandlerOK'
  BY <1>w, HandlerKept DEF listenVars
<1>4. Accepted' /\ CountsSessions'
  BY AcceptedKept, CountKept
<1>5. Ended'
  BY <1>q, EndedKept
<1>6. RetryingTriesAgain'
  BY RetryingKept
<1>7. WaitingIsAnnounced'
  <2>1. SUFFICES ASSUME NEW m \in listeners, accepted[m] # <<>>, status[m] # "stopped",
                        ~(lpc.at = "send" /\ lpc.l = m)
                 PROVE  \/ Contains(queue', ConnectedEvent(m))
                        \/ spc'.at = "drain" /\ spc'.l = m
    BY DEF WaitingIsAnnounced, listenVars
  <2>2. Contains(queue, ConnectedEvent(m))
    BY <2>1 DEF Inv, WaitingIsAnnounced, Idle
  <2>3. m \in Listeners
    BY DEF Inv, Types
  <2>4. CASE m = l
    BY <1>s, <2>4
  <2>5. CASE m # l
    BY <1>q, <1>l, <2>2, <2>3, <2>5, Events
  <2> QED
    BY <2>4, <2>5
<1> QED
  BY <1>1, <1>2, <1>3, <1>4, <1>5, <1>6, <1>7 DEF Inv

LEMMA DrainKeeps ==
    ASSUME Inv, Drain
    PROVE  Inv'
<1> USE DEF Drain
<1>0. Types /\ spc.l \in Listeners /\ spc.left \in 0 .. DrainMax
      /\ spc = [at |-> "drain", l |-> spc.l, left |-> spc.left]
  BY Shapes DEF Inv
<1>1. CASE accepted[spc.l] = <<>>
  <2>w. \A m \in Listeners : Waits(m)' <=> Waits(m)
    BY <1>1 DEF Waits, Idle
  <2>1. Types'
    BY <1>0, <1>1 DEF Types, listenVars, banVars
  <2>2. Listening' /\ HandlerOK' /\ Accepted' /\ Ended' /\ CountsSessions'
    BY <1>1, <2>w, ListenersKept, HandlerKept, AcceptedKept, EndedKept, CountKept DEF listenVars
  <2>3. RetryingTriesAgain'
    BY RetryingKept
  <2>4. WaitingIsAnnounced'
    BY <1>1 DEF Inv, WaitingIsAnnounced, listenVars
  <2> QED
    BY <2>1, <2>2, <2>3, <2>4 DEF Inv
<1>2. CASE accepted[spc.l] # <<>>
  <2> DEFINE c == Head(accepted[spc.l])
  <2>s. /\ accepted[spc.l] \in Seq(Conns) /\ c \in Conns
        /\ accepted'[spc.l] = Tail(accepted[spc.l])
        /\ \A l \in Listeners : l # spc.l => accepted'[l] = accepted[l]
        /\ accepted' \in [Listeners -> Seq(Conns)]
    <3>1. accepted[spc.l] \in Seq(Conns) /\ accepted' = [accepted EXCEPT ![spc.l] = Tail(@)]
      BY <1>0, <1>2 DEF Types
    <3>2. c \in Conns /\ Tail(accepted[spc.l]) \in Seq(Conns)
      BY <1>2, <3>1, OfTail
    <3> QED
      BY <1>0, <3>1, <3>2 DEF Types
  <2>a. /\ \A d : Contains(accepted[spc.l], d) <=> d = c \/ Contains(accepted'[spc.l], d)
        /\ OnceEach(accepted[spc.l], Conns) =>
             OnceEach(accepted'[spc.l], Conns) /\ ~Contains(accepted'[spc.l], c)
    BY <1>2, <2>s, OfTail
  <2>o. \A l \in Listeners :
          /\ OnceEach(accepted[l], Conns)
          /\ \A d \in Conns : Contains(accepted[l], d) => conn[d] = "waiting" /\ via[d] = l
    BY DEF Inv, Accepted
  <2>c. conn[c] = "waiting" /\ via[c] = spc.l
    BY <1>0, <2>s, <2>a, <2>o
  <2>n. /\ conn' = [conn EXCEPT ![c] = "live"] /\ num' = (num + 1) % (SizeMax + 1)
        /\ spc' = IF spc.left = 1
                  THEN [spc EXCEPT !.at = "look", !.left = 0]
                  ELSE [spc EXCEPT !.left = IF @ = 0 THEN 0 ELSE @ - 1]
    BY <1>2
  <2> HIDE DEF c
  <2>d. /\ conn'[c] = "live" /\ \A d \in Conns : d # c => conn'[d] = conn[d]
        /\ conn' \in [Conns -> ConnState]
    BY <1>0, <2>s, <2>n DEF Types, ConnState
  <2>p. spc' \in ServerPc /\ spc'.at \in {"drain", "look"} /\ spc'.l = spc.l
    <3>1. CASE spc.left = 1
      <4>1. spc' = [at |-> "look", l |-> spc.l, left |-> 0]
        BY ONLY <1>0, <2>n, <3>1
      <4> QED
        BY <1>0, <4>1, Constants DEF ServerPc
    <3>2. CASE spc.left # 1
      <4>1. spc' = [at |-> "drain", l |-> spc.l,
                    left |-> IF spc.left = 0 THEN 0 ELSE spc.left - 1]
        BY ONLY <1>0, <2>n, <3>2
      <4> QED
        BY <1>0, <4>1, Constants DEF ServerPc
    <3> QED
      BY <3>1, <3>2
  <2>w. \A m \in Listeners : Waits(m)' <=> Waits(m)
    BY <2>p DEF Waits
  <2>m. num' \in 0 .. SizeMax
    <3>1. num + 1 \in Nat
      BY <1>0, Constants DEF Types
    <3> QED
      BY ONLY <2>n, <3>1, Constants, Modulo
  <2>1. Types'
    BY <1>0, <2>s, <2>d, <2>p, <2>m DEF Types, listenVars, banVars
  <2>2. Listening'
    <3>1. \A l \in Listeners : ListenerOK(l)
      BY DEF Inv, Listening
    <3> QED
      BY <1>0, <1>2, <2>s, <2>w, <3>1 DEF Listening, ListenerOK, listenVars
  <2>3. HandlerOK'
    BY <2>c, <2>d, <2>w, HandlerKept DEF listenVars
  <2>4. Accepted'
    <3>1. SUFFICES ASSUME NEW l \in Listeners
                   PROVE  /\ OnceEach(accepted'[l], Conns)
                          /\ \A d \in Conns : Contains(accepted'[l], d) =>
                                                conn'[d] = "waiting" /\ via'[d] = l
      BY DEF Accepted
    <3>2. CASE l = spc.l
      BY <2>a, <2>o, <2>d, <3>2
    <3>3. CASE l # spc.l
      BY <2>s, <2>o, <2>c, <2>d, <3>3
    <3> QED
      BY <3>2, <3>3
  <2>5. Ended'
    BY <2>c, <2>d, EndedKept
  <2>6. CountsSessions'
    <3>1. SUFFICES ASSUME quits = 0 PROVE num' = Cardinality(Sessions')
      BY DEF CountsSessions
    <3>2. num = Cardinality(Sessions)
      BY <3>1 DEF Inv, CountsSessions
    <3>3. Sessions' = Sessions \cup {c} /\ c \notin Sessions
      BY <2>s, <2>c, <2>d DEF Sessions
    <3>4. Cardinality(Sessions \cup {c}) = num + 1 /\ num + 1 \in 0 .. SizeMax
      <4>1. Sessions \in SUBSET Conns /\ Sessions \cup {c} \in SUBSET Conns /\ c \in Conns \ Sessions
        BY <2>s, <3>3 DEF Sessions
      <4> QED
        BY <3>2, <4>1, SessionsFinite
    <3>5. num' = num + 1
      BY ONLY <2>n, <3>4, Constants, Modulo
    <3> QED
      BY <3>3, <3>4, <3>5
  <2>7. RetryingTriesAgain'
    BY RetryingKept
  <2>8. WaitingIsAnnounced'
    BY <2>s, <2>p DEF Inv, Types, WaitingIsAnnounced, listenVars
  <2> QED
    BY <2>1, <2>2, <2>3, <2>4, <2>5, <2>6, <2>7, <2>8 DEF Inv
<1> QED
  BY <1>1, <1>2

LEMMA LookKeeps ==
    ASSUME Inv, Look
    PROVE  Inv'
<1> USE DEF Look
<1>0. Types /\ spc.l \in Listeners /\ spc.left \in 0 .. DrainMax
      /\ spc = [at |-> "look", l |-> spc.l, left |-> spc.left]
  BY Shapes DEF Inv
<1>1. CASE accepted[spc.l] # <<>>
  <2>0. queue' = Append(queue, ConnectedEvent(spc.l)) /\ spc' = Idle
    BY <1>1
  <2>e. ConnectedEvent(spc.l) \in Event /\ \A c \in Conns : ConnectedEvent(spc.l) # EndedEvent(c)
    BY <1>0, Events
  <2>q. /\ queue' \in Seq(Event)
        /\ \A x : Contains(queue', x) <=> Contains(queue, x) \/ x = ConnectedEvent(spc.l)
        /\ \A c \in Conns :
             OnceEach(queue, {EndedEvent(c)}) => OnceEach(queue', {EndedEvent(c)})
    <3>1. queue \in Seq(Event)
      BY <1>0 DEF Types
    <3>2. ASSUME NEW c \in Conns, OnceEach(queue, {EndedEvent(c)})
          PROVE  OnceEach(queue', {EndedEvent(c)})
      BY <2>0, <2>e, <3>1, <3>2, OfAppend
    <3> QED
      BY <2>0, <2>e, <3>1, <3>2, OfAppend
  <2>w. \A m \in Listeners : Waits(m)' <=> Waits(m)
    BY <2>0 DEF Waits, Idle
  <2>1. Types'
    BY <1>0, <2>0, <2>q DEF Types, listenVars, banVars
  <2>2. Listening' /\ HandlerOK' /\ Accepted' /\ CountsSessions'
    BY <2>w, ListenersKept, HandlerKept, AcceptedKept, CountKept DEF listenVars
  <2>3. Ended'
    BY <2>e, <2>q, EndedKept
  <2>4. RetryingTriesAgain'
    BY RetryingKept
  <2>5. WaitingIsAnnounced'
    BY <2>q DEF Inv, WaitingIsAnnounced, listenVars
  <2> QED
    BY <2>1, <2>2, <2>3, <2>4, <2>5 DEF Inv
<1>2. CASE accepted[spc.l] = <<>>
  <2>0. queue' = queue /\ spc' = [at |-> "drain", l |-> spc.l, left |-> spc.left]
    BY <1>0, <1>2
  <2>w. \A m \in Listeners : Waits(m)' <=> Waits(m)
    BY <2>0 DEF Waits
  <2>1. Types'
    BY <1>0, <2>0 DEF Types, listenVars, banVars, ServerPc
  <2>2. Listening' /\ HandlerOK' /\ Accepted' /\ Ended' /\ CountsSessions'
    BY <2>0, <2>w, ListenersKept, HandlerKept, AcceptedKept, EndedKept, CountKept DEF listenVars
  <2>3. RetryingTriesAgain'
    BY RetryingKept
  <2>4. WaitingIsAnnounced'
    BY <2>0 DEF Inv, WaitingIsAnnounced, listenVars
  <2> QED
    BY <2>1, <2>2, <2>3, <2>4 DEF Inv
<1> QED
  BY <1>1, <1>2

LEMMA OnSessionEndedKeeps ==
    ASSUME Inv, OnSessionEnded
    PROVE  Inv'
<1> USE DEF OnSessionEnded
<1> DEFINE c == Head(queue).of
<1>q. /\ queue' \in Seq(Event) /\ Head(queue) \in Event
      /\ \A x : Contains(queue, x) <=> x = Head(queue) \/ Contains(queue', x)
      /\ \A d \in Conns : OnceEach(queue, {EndedEvent(d)}) =>
           /\ OnceEach(queue', {EndedEvent(d)})
           /\ Head(queue) = EndedEvent(d) => ~Contains(queue', EndedEvent(d))
  BY HeadTaken
<1>c. c \in Conns /\ Head(queue) = EndedEvent(c)
  BY <1>q, Events
<1>n. conn' = [conn EXCEPT ![c] = "gone"] /\ num' = (num + SizeMax) % (SizeMax + 1)
  OBVIOUS
<1> HIDE DEF c
<1>0. Types
  BY DEF Inv
<1>e. /\ conn[c] \in {"live", "closing", "ended", "gone"}
      /\ quits = 0 => /\ conn[c] = "ended" /\ ~Contains(queue', EndedEvent(c))
                      /\ \A d \in Conns : OnceEach(queue', {EndedEvent(d)})
  BY <1>q, <1>c DEF Inv, Ended
<1>d. /\ conn'[c] = "gone" /\ \A d \in Conns : d # c => conn'[d] = conn[d]
      /\ conn' \in [Conns -> ConnState]
  BY <1>0, <1>c, <1>n DEF Types, ConnState
<1>1. Types'
  <2>1. num' \in 0 .. SizeMax
    BY <1>0, <1>n, Constants, Modulo DEF Types
  <2> QED
    BY <1>0, <1>q, <1>d, <2>1 DEF Types, listenVars, banVars
<1>2. Listening'
  BY ListenersKept DEF Waits
<1>3. HandlerOK'
  BY <1>e, <1>d, HandlerKept DEF Waits, listenVars
<1>4. Accepted'
  BY <1>e, <1>d, AcceptedKept
<1>5. Ended'
  BY <1>q, <1>c, <1>e, <1>d DEF Inv, Ended
<1>6. CountsSessions'
  <2>1. SUFFICES ASSUME quits = 0 PROVE num' = Cardinality(Sessions')
    BY DEF CountsSessions
  <2>2. num = Cardinality(Sessions)
    BY <2>1 DEF Inv, CountsSessions
  <2>3. Sessions' = Sessions \ {c} /\ c \in Sessions /\ Sessions \in SUBSET Conns
    BY <1>c, <1>e, <1>d, <2>1 DEF Sessions
  <2>4. Cardinality(Sessions \ {c}) = num - 1
    BY <2>2, <2>3, SessionsFinite
  <2>5. num \in 1 .. SizeMax
    <3>1. num \in 0 .. SizeMax /\ Sessions # {} /\ IsFiniteSet(Sessions)
      BY <2>2, <2>3, SessionsFinite
    <3>2. num # 0
      BY <2>2, <3>1, FS_EmptySet
    <3> QED
      BY <3>1, <3>2, Constants
  <2>6. num' = num - 1
    BY ONLY <1>n, <2>5, Constants, Modulo
  <2> QED
    BY <2>3, <2>4, <2>6
<1>7. RetryingTriesAgain'
  BY RetryingKept
<1>8. WaitingIsAnnounced'
  <2>1. \A m \in Listeners : ConnectedEvent(m) # EndedEvent(c)
    BY <1>c, Events
  <2> QED
    BY <1>q, <1>c, <2>1, WaitingKept DEF listenVars
<1> QED
  BY <1>1, <1>2, <1>3, <1>4, <1>5, <1>6, <1>7, <1>8 DEF Inv

\* Sessions are told to end, whoever wants it.
LEMMA ShutDownKeeps ==
    ASSUME Inv, NEW cs, ShutDown(cs), UNCHANGED <<num, quits, lpc, open, accepted, via>>,
           \A c \in Conns :
             /\ Contains(queue', EndedEvent(c)) => Contains(queue, EndedEvent(c))
             /\ OnceEach(queue, {EndedEvent(c)}) => OnceEach(queue', {EndedEvent(c)}),
           \A l \in Listeners : Waits(l)' <=> Waits(l)
    PROVE  conn' \in [Conns -> ConnState] /\ HandlerOK' /\ Accepted' /\ Ended' /\ CountsSessions'
<1>1. /\ conn' \in [Conns -> ConnState]
      /\ \A c \in Conns : conn'[c] # conn[c] => conn[c] = "live" /\ conn'[c] = "closing"
  BY DEF ShutDown, Inv, Types, ConnState
<1>2. HandlerOK' /\ Accepted'
  BY <1>1, HandlerKept, AcceptedKept
<1>3. Ended' /\ CountsSessions'
  BY <1>1, EndedKept, CountKept DEF InSession
<1> QED
  BY <1>1, <1>2, <1>3

LEMMA OnBannedKeeps ==
    ASSUME Inv, OnBanned
    PROVE  Inv'
<1> USE DEF OnBanned
<1>q. /\ queue' \in Seq(Event) /\ Head(queue) \in Event
      /\ \A x : Contains(queue, x) <=> x = Head(queue) \/ Contains(queue', x)
      /\ \A d \in Conns : OnceEach(queue, {EndedEvent(d)}) => OnceEach(queue', {EndedEvent(d)})
  BY HeadTaken
<1>w. \A l \in Listeners : Waits(l)' <=> Waits(l)
  BY DEF Waits
<1>1. conn' \in [Conns -> ConnState] /\ HandlerOK' /\ Accepted' /\ Ended' /\ CountsSessions'
  BY <1>q, <1>w, ShutDownKeeps DEF listenVars
<1>2. Types'
  BY <1>q, <1>1 DEF Inv, Types, listenVars, banVars
<1>3. Listening' /\ RetryingTriesAgain'
  BY <1>w, ListenersKept, RetryingKept
<1>4. WaitingIsAnnounced'
  <2>1. \A m \in Listeners : ConnectedEvent(m) # Head(queue)
    BY Events
  <2> QED
    BY <1>q, <2>1, WaitingKept DEF listenVars
<1> QED
  BY <1>1, <1>2, <1>3, <1>4 DEF Inv

(***************************************************************************)
(* The sessions.                                                            *)
(***************************************************************************)

\* An event other than a connected_event is queued: nothing at the listeners changes.
LEMMA Queued ==
    ASSUME Inv, NEW e \in Event, queue' = Append(queue, e)
    PROVE  /\ queue' \in Seq(Event)
           /\ \A x : Contains(queue', x) <=> Contains(queue, x) \/ x = e
           /\ \A c \in Conns :
                OnceEach(queue, {EndedEvent(c)})
                  /\ (e = EndedEvent(c) => ~Contains(queue, EndedEvent(c)))
                    => OnceEach(queue', {EndedEvent(c)})
<1>1. queue \in Seq(Event)
  BY DEF Inv, Types
<1>2. ASSUME NEW c \in Conns, OnceEach(queue, {EndedEvent(c)}),
             e = EndedEvent(c) => ~Contains(queue, EndedEvent(c))
      PROVE  OnceEach(queue', {EndedEvent(c)})
  BY <1>1, <1>2, OfAppend
<1> QED
  BY <1>1, <1>2, OfAppend

LEMMA SessionEndsKeeps ==
    ASSUME Inv, NEW c \in Conns, SessionEnds(c)
    PROVE  Inv'
<1> USE DEF SessionEnds
<1>0. Types /\ EndedEvent(c) \in Event
  BY Events DEF Inv
<1>q. /\ queue' \in Seq(Event)
      /\ \A x : Contains(queue', x) <=> Contains(queue, x) \/ x = EndedEvent(c)
      /\ \A d \in Conns :
           OnceEach(queue, {EndedEvent(d)})
             /\ (EndedEvent(c) = EndedEvent(d) => ~Contains(queue, EndedEvent(d)))
               => OnceEach(queue', {EndedEvent(d)})
  BY <1>0, Queued
<1>d. /\ conn'[c] = "ended" /\ \A d \in Conns : d # c => conn'[d] = conn[d]
      /\ conn' \in [Conns -> ConnState]
  BY <1>0 DEF Types, ConnState
<1>1. Types'
  BY <1>0, <1>q, <1>d DEF Types, listenVars, banVars
<1>2. Listening' /\ HandlerOK' /\ Accepted'
  BY <1>d, ListenersKept, HandlerKept, AcceptedKept DEF Waits, listenVars
<1>3. Ended'
  <2>1. ASSUME NEW d \in Conns
        PROVE  /\ Contains(queue', EndedEvent(d)) =>
                    conn'[d] \in {"live", "closing", "ended", "gone"}
               /\ quits = 0 => /\ Contains(queue', EndedEvent(d)) => conn'[d] = "ended"
                               /\ OnceEach(queue', {EndedEvent(d)})
    <3>1. /\ Contains(queue, EndedEvent(d)) => conn[d] \in {"live", "closing", "ended", "gone"}
          /\ quits = 0 => /\ Contains(queue, EndedEvent(d)) => conn[d] = "ended"
                          /\ OnceEach(queue, {EndedEvent(d)})
      BY DEF Inv, Ended
    <3>2. CASE d = c
      BY <1>q, <1>d, <3>1, <3>2
    <3>3. CASE d # c
      <4>1. EndedEvent(d) # EndedEvent(c)
        BY <3>3, Events
      <4> QED
        BY <1>q, <1>d, <3>1, <3>3, <4>1
    <3> QED
      BY <3>2, <3>3
  <2> QED
    BY <2>1 DEF Ended
<1>4. CountsSessions'
  BY <1>d, CountKept DEF InSession
<1>5. RetryingTriesAgain' /\ WaitingIsAnnounced'
  BY <1>q, RetryingKept, WaitingKept DEF listenVars
<1> QED
  BY <1>1, <1>2, <1>3, <1>4, <1>5 DEF Inv

LEMMA UserRemovedKeeps ==
    ASSUME Inv, NEW c \in Conns, UserRemoved(c)
    PROVE  Inv'
<1> USE DEF UserRemoved
<1>0. Types /\ EndedEvent(c) \in Event
  BY Events DEF Inv
<1>q. /\ queue' \in Seq(Event)
      /\ \A x : Contains(queue', x) <=> Contains(queue, x) \/ x = EndedEvent(c)
  BY <1>0, Queued
<1>n. quits' \in 0 .. MaxQuits /\ quits' # 0
  BY <1>0, Constants DEF Types
<1>1. Types'
  BY <1>0, <1>q, <1>n DEF Types, listenVars, banVars
<1>2. Listening' /\ HandlerOK' /\ Accepted'
  BY ListenersKept, HandlerKept, AcceptedKept DEF Waits, listenVars
<1>3. Ended' /\ CountsSessions'
  BY <1>q, <1>n, Events DEF Inv, Ended, CountsSessions
<1>4. RetryingTriesAgain' /\ WaitingIsAnnounced'
  BY <1>q, RetryingKept, WaitingKept DEF listenVars
<1> QED
  BY <1>1, <1>2, <1>3, <1>4 DEF Inv

LEMMA FailLoginKeeps ==
    ASSUME Inv, NEW c \in Conns, FailLogin(c)
    PROVE  Inv'
<1> USE DEF FailLogin
<1>0. /\ Types /\ IpOf[c] \in Ips /\ BannedEvent(IpOf[c]) \in Event
      /\ \A d \in Conns : BannedEvent(IpOf[c]) # EndedEvent(d)
  BY Constants, Events DEF Inv
<1>q. /\ queue' \in Seq(Event)
      /\ \A x : Contains(queue', x) <=> Contains(queue, x) \/ x = BannedEvent(IpOf[c])
      /\ \A d \in Conns : OnceEach(queue, {EndedEvent(d)}) => OnceEach(queue', {EndedEvent(d)})
  BY <1>0, Queued
<1>1. Types'
  BY <1>0, <1>q DEF Types, listenVars, Passed
<1>2. Listening' /\ HandlerOK' /\ Accepted'
  BY ListenersKept, HandlerKept, AcceptedKept DEF Waits, listenVars
<1>3. Ended' /\ CountsSessions'
  BY <1>0, <1>q, EndedKept, CountKept
<1>4. RetryingTriesAgain' /\ WaitingIsAnnounced'
  BY <1>q, RetryingKept, WaitingKept DEF listenVars
<1> QED
  BY <1>1, <1>2, <1>3, <1>4 DEF Inv

LEMMA UnbanKeeps ==
    ASSUME Inv, NEW ip \in Ips, Unban(ip)
    PROVE  Inv'
<1> USE DEF Unban
<1>1. Types'
  BY DEF Inv, Types, listenVars
<1>2. Listening' /\ HandlerOK' /\ Accepted'
  BY ListenersKept, HandlerKept, AcceptedKept DEF Waits, listenVars
<1>3. Ended' /\ CountsSessions'
  BY EndedKept, CountKept
<1>4. RetryingTriesAgain' /\ WaitingIsAnnounced'
  BY RetryingKept, WaitingKept DEF listenVars
<1> QED
  BY <1>1, <1>2, <1>3, <1>4 DEF Inv

(***************************************************************************)
(* The administrator.                                                       *)
(***************************************************************************)

LEMMA BanIpKeeps ==
    ASSUME Inv, NEW ip \in Ips, BanIp(ip)
    PROVE  Inv'
<1> USE DEF BanIp
<1>1. conn' \in [Conns -> ConnState] /\ HandlerOK' /\ Accepted' /\ Ended' /\ CountsSessions'
  BY ShutDownKeeps DEF listenVars, Waits
<1>2. Types'
  BY <1>1 DEF Inv, Types, listenVars, Passed
<1>3. Listening' /\ RetryingTriesAgain' /\ WaitingIsAnnounced'
  BY ListenersKept, RetryingKept, WaitingKept DEF Waits, listenVars
<1> QED
  BY <1>1, <1>2, <1>3 DEF Inv

LEMMA EndSessionsKeeps ==
    ASSUME Inv, NEW cs \in SUBSET Conns, EndSessions(cs)
    PROVE  Inv'
<1> USE DEF EndSessions
<1>1. conn' \in [Conns -> ConnState] /\ HandlerOK' /\ Accepted' /\ Ended' /\ CountsSessions'
  BY ShutDownKeeps DEF listenVars, Waits
<1>2. Types'
  BY <1>1 DEF Inv, Types, listenVars, banVars
<1>3. Listening' /\ RetryingTriesAgain' /\ WaitingIsAnnounced'
  BY ListenersKept, RetryingKept, WaitingKept DEF Waits, listenVars
<1> QED
  BY <1>1, <1>2, <1>3 DEF Inv

\* While the server's loop is idle, a listener that does not listen has no sockets
\* and no handler, so that it can be started.
LEMMA StartedOK ==
    ASSUME Inv, spc = Idle, NEW ls \in SUBSET Listeners, NEW ok \in [ls -> BOOLEAN],
           StartListeners(ls, ok), ls \subseteq listeners', listeners \subseteq listeners',
           listeners' \subseteq listeners \cup ls,
           UNCHANGED <<accepted, lpc, conn, via>>,
           \A l \in Listeners : ~Waits(l)'
    PROVE  /\ open' \in [Listeners -> BOOLEAN] /\ timer' \in [Listeners -> BOOLEAN]
           /\ status' \in [Listeners -> {"stopped", "retrying", "started"}]
           /\ Listening' /\ HandlerOK' /\ RetryingTriesAgain'
           /\ \A l \in Listeners : accepted[l] # <<>> => l \in listeners /\ status'[l] = status[l]
<1>0. Types /\ \A l \in Listeners : ListenerOK(l) /\ ~Waits(l)
  BY DEF Inv, Listening, Waits, Idle
<1>1. \A l \in Listeners :
        /\ open'[l] <=> (open[l] \/ l \in ls)
        /\ open[l] \/ l \notin ls => status'[l] = status[l] /\ timer'[l] = timer[l]
        /\ l \in ls /\ ~open[l] => status'[l] = (IF ok[l] THEN "started" ELSE "retrying")
                                     /\ timer'[l] = ~ok[l]
  BY DEF StartListeners
<1>2. /\ open' \in [Listeners -> BOOLEAN] /\ timer' \in [Listeners -> BOOLEAN]
      /\ status' \in [Listeners -> {"stopped", "retrying", "started"}]
  BY <1>0 DEF Types, StartListeners
<1>3. Listening'
  <2>1. SUFFICES ASSUME NEW l \in Listeners PROVE ListenerOK(l)'
    BY DEF Listening
  <2> QED
    BY <1>0, <1>1, <1>2, <2>1 DEF ListenerOK
<1>4. HandlerOK'
  <2>1. lpc # Idle => lpc.l \in Listeners
    BY <1>0, Shapes
  <2> QED
    BY <1>0, <1>1, <2>1 DEF Inv, HandlerOK
<1>5. RetryingTriesAgain'
  <2>1. ASSUME NEW l \in listeners', status'[l] = "retrying"
        PROVE  timer'[l] \/ (lpc'.at = "listen" /\ lpc'.l = l)
    <3>1. l \in Listeners
      BY <1>0 DEF Types
    <3>2. CASE l \in ls /\ ~open[l]
      BY <1>1, <2>1, <3>1, <3>2
    <3>3. CASE ~(l \in ls /\ ~open[l])
      <4>1. l \in listeners
        BY <1>0, <3>1, <3>3 DEF ListenerOK
      <4> QED
        BY <1>1, <2>1, <3>1, <3>3, <4>1 DEF Inv, RetryingTriesAgain
    <3> QED
      BY <3>2, <3>3
  <2> QED
    BY <2>1 DEF RetryingTriesAgain
<1>6. ASSUME NEW l \in Listeners, accepted[l] # <<>>
      PROVE  l \in listeners /\ status'[l] = status[l]
  BY <1>0, <1>1, <1>6 DEF ListenerOK
<1> QED
  BY <1>2, <1>3, <1>4, <1>5, <1>6

LEMMA StartKeeps ==
    ASSUME Inv, Start
    PROVE  Inv'
<1> USE DEF Start
<1>1. PICK ok \in [listeners -> BOOLEAN] : StartListeners(listeners, ok)
  OBVIOUS
<1>w. \A l \in Listeners : ~Waits(l)'
  BY DEF Waits, Idle
<1>2. /\ open' \in [Listeners -> BOOLEAN] /\ timer' \in [Listeners -> BOOLEAN]
      /\ status' \in [Listeners -> {"stopped", "retrying", "started"}]
      /\ Listening' /\ HandlerOK' /\ RetryingTriesAgain'
      /\ \A l \in Listeners : accepted[l] # <<>> => l \in listeners /\ status'[l] = status[l]
  <2>1. listeners \in SUBSET Listeners
    BY DEF Inv, Types
  <2> QED
    BY <1>1, <1>w, <2>1, StartedOK
<1>3. Types'
  BY <1>2 DEF Inv, Types, banVars
<1>4. Accepted' /\ Ended' /\ CountsSessions'
  BY AcceptedKept, EndedKept, CountKept
<1>5. WaitingIsAnnounced'
  BY <1>2 DEF Inv, Types, WaitingIsAnnounced
<1> QED
  BY <1>2, <1>3, <1>4, <1>5 DEF Inv

LEMMA SetAddressInfosKeeps ==
    ASSUME Inv, NEW new \in SUBSET Listeners, SetAddressInfos(new)
    PROVE  Inv'
<1> DEFINE added   == new \ listeners
           removed == listeners \ new
<1>0. /\ Types /\ spc = Idle /\ listeners' = listeners \cup new
      /\ spc' = IF removed = {} THEN Idle ELSE [at |-> "destroy", todo |-> removed]
      /\ UNCHANGED <<running, accepted, lpc, queue, conn, via, num, quits, banVars, crashed>>
  BY DEF Inv, SetAddressInfos
<1>w. \A l \in Listeners : ~Waits(l)' /\ ~Waits(l)
  BY <1>0 DEF Waits, Idle
<1>1. /\ open' \in [Listeners -> BOOLEAN] /\ timer' \in [Listeners -> BOOLEAN]
      /\ status' \in [Listeners -> {"stopped", "retrying", "started"}]
      /\ Listening' /\ HandlerOK' /\ RetryingTriesAgain'
      /\ \A l \in Listeners : accepted[l] # <<>> => l \in listeners /\ status'[l] = status[l]
  <2>1. CASE running
    <3>1. PICK ok \in [added -> BOOLEAN] : StartListeners(added, ok)
      BY <2>1 DEF SetAddressInfos
    <3>2. added \in SUBSET Listeners /\ listeners' = listeners \cup added
      BY <1>0
    <3> HIDE DEF added, removed
    <3> QED
      BY <1>0, <1>w, <3>1, <3>2, StartedOK
  <2>2. CASE ~running
    <3>1. UNCHANGED <<open, status, timer>>
      BY <2>2 DEF SetAddressInfos
    <3>2. \A l \in Listeners : ListenerOK(l)
      BY DEF Inv, Listening
    <3>3. Listening' /\ HandlerOK'
      <4>1. Listening'
        BY <1>0, <1>w, <3>1, <3>2 DEF Listening, ListenerOK
      <4>2. HandlerOK'
        BY <1>0, <1>w, <3>1, HandlerKept
      <4> QED
        BY <4>1, <4>2
    <3>4. RetryingTriesAgain'
      BY <1>0, <3>1, <3>2 DEF Inv, Types, RetryingTriesAgain, ListenerOK
    <3> QED
      BY <1>0, <1>w, <3>1, <3>2, <3>3, <3>4 DEF Types, ListenerOK
  <2> QED
    BY <1>0, <2>1, <2>2 DEF Types
<1>2. Types'
  <2>1. spc' \in ServerPc \cup {Idle}
    BY <1>0 DEF ServerPc, Types
  <2>2. listeners' \subseteq Listeners
    BY <1>0 DEF Types
  <2> QED
    BY <1>0, <1>1, <2>1, <2>2 DEF Types, banVars
<1>3. Accepted' /\ Ended' /\ CountsSessions'
  BY <1>0, AcceptedKept, EndedKept, CountKept
<1>4. WaitingIsAnnounced'
  BY <1>0, <1>1 DEF Inv, Types, WaitingIsAnnounced, Idle
<1> QED
  BY <1>1, <1>2, <1>3, <1>4 DEF Inv

LEMMA StopListenerKeeps ==
    ASSUME Inv, NEW l \in Listeners, StopListener(l)
    PROVE  Inv'
<1> USE DEF StopListener
<1>0. /\ Types /\ \A m \in Listeners : ListenerOK(m) /\ ~Waits(m)
      /\ spc.todo \subseteq Listeners
  BY Shapes DEF Inv, Listening, Waits
<1>q. /\ queue' \in Seq(Event)
      /\ \A x : Contains(queue', x) => Contains(queue, x)
      /\ \A x : Contains(queue, x) /\ x # ConnectedEvent(l) => Contains(queue', x)
      /\ \A c \in Conns : OnceEach(queue, {EndedEvent(c)}) => OnceEach(queue', {EndedEvent(c)})
  <2>1. queue \in Seq(Event)
    BY <1>0 DEF Types
  <2>2. CASE open[l]
    <3>1. queue' = Without(queue, ConnectedEvent(l))
      BY <2>2
    <3>2. ASSUME NEW c \in Conns, OnceEach(queue, {EndedEvent(c)})
          PROVE  OnceEach(queue', {EndedEvent(c)})
      BY <2>1, <3>1, <3>2, OfWithout
    <3>3. /\ Without(queue, ConnectedEvent(l)) \in Seq(Event)
          /\ \A x : Contains(Without(queue, ConnectedEvent(l)), x) <=>
                    Contains(queue, x) /\ x # ConnectedEvent(l)
      BY ONLY <2>1, OfWithout
    <3> QED
      BY ONLY <3>1, <3>2, <3>3
  <2>3. CASE ~open[l]
    BY <2>1, <2>3
  <2> QED
    BY <2>2, <2>3
<1>a. /\ accepted' \in [Listeners -> Seq(Conns)] /\ accepted'[l] = <<>>
      /\ \A m \in Listeners : m # l => accepted'[m] = accepted[m]
  BY <1>0, EmptySeq DEF Types, ListenerOK
<1>c. /\ conn' \in [Conns -> ConnState]
      /\ \A c \in Conns : conn'[c] # conn[c] =>
           open[l] /\ conn[c] \in {"knocking", "waiting"} /\ via[c] = l /\ conn'[c] = "gone"
  BY <1>0 DEF Types, ConnState, Dropped
<1>o. /\ open' \in [Listeners -> BOOLEAN] /\ timer' \in [Listeners -> BOOLEAN]
      /\ status' \in [Listeners -> {"stopped", "retrying", "started"}]
      /\ ~open'[l] /\ ~timer'[l] /\ status'[l] = "stopped"
      /\ \A m \in Listeners : m # l =>
           open'[m] = open[m] /\ timer'[m] = timer[m] /\ status'[m] = status[m]
  BY <1>0 DEF Types
<1>w. \A m \in Listeners : Waits(m)' <=> m = l
  BY DEF Waits
<1>1. Types'
  <2>1. spc' \in ServerPc
    BY <1>0 DEF ServerPc
  <2> QED
    BY <1>0, <1>q, <1>a, <1>c, <1>o, <2>1 DEF Types, banVars
<1>2. Listening'
  BY <1>0, <1>a, <1>o, <1>w DEF Listening, ListenerOK
<1>3. HandlerOK'
  <2>1. lpc # Idle => lpc.l \in Listeners /\ open[lpc.l]
    BY <1>0, Shapes DEF Inv, HandlerOK
  <2>2. lpc.at \in {"accept", "push"} => lpc # Idle /\ lpc.c \in Conns
    BY <1>0, Shapes DEF Idle
  <2> QED
    BY <1>c, <1>o, <1>w, <2>1, <2>2 DEF Inv, HandlerOK
<1>4. Accepted'
  <2>1. SUFFICES ASSUME NEW m \in Listeners
                 PROVE  /\ OnceEach(accepted'[m], Conns)
                        /\ \A d \in Conns : Contains(accepted'[m], d) =>
                                              conn'[d] = "waiting" /\ via'[d] = m
    BY DEF Accepted
  <2>2. CASE m = l
    BY <1>a, <2>2, EmptySeq DEF OnceEach, Contains
  <2>3. CASE m # l
    <3>1. /\ OnceEach(accepted[m], Conns)
          /\ \A d \in Conns : Contains(accepted[m], d) => conn[d] = "waiting" /\ via[d] = m
      BY DEF Inv, Accepted
    <3> QED
      BY <1>a, <1>c, <2>3, <3>1
  <2> QED
    BY <2>2, <2>3
<1>5. Ended'
  BY <1>q, <1>c, EndedKept
<1>6. CountsSessions'
  BY <1>c, CountKept DEF InSession
<1>7. RetryingTriesAgain'
  BY <1>0, <1>o DEF Inv, Types, RetryingTriesAgain
<1>8. WaitingIsAnnounced'
  <2>1. SUFFICES ASSUME NEW m \in listeners, accepted'[m] # <<>>
                 PROVE  \/ Contains(queue', ConnectedEvent(m))
                        \/ lpc.at = "send" /\ lpc.l = m
                        \/ status'[m] = "stopped"
    BY DEF WaitingIsAnnounced
  <2>2. m \in Listeners /\ m # l
    BY <1>0, <1>a, <2>1 DEF Types
  <2>3. ConnectedEvent(m) # ConnectedEvent(l)
    BY <2>2, Events
  <2> QED
    BY <1>q, <1>a, <1>o, <2>1, <2>2, <2>3 DEF Inv, WaitingIsAnnounced
<1> QED
  BY <1>1, <1>2, <1>3, <1>4, <1>5, <1>6, <1>7, <1>8 DEF Inv

LEMMA DestroyListenerKeeps ==
    ASSUME Inv, DestroyListener
    PROVE  Inv'
<1> USE DEF DestroyListener
<1> DEFINE l == spc.l
<1>0. /\ Types /\ l \in Listeners /\ Waits(l) /\ spc.todo \subseteq Listeners
      /\ \A m \in Listeners : ListenerOK(m)
      /\ \A m \in Listeners : Waits(m) <=> m = l
  BY Shapes DEF Inv, Listening, Waits
<1>n. /\ accepted' = [accepted EXCEPT ![l] = <<>>] /\ listeners' = listeners \ {l}
      /\ conn' = [c \in Conns |-> IF c \in Dropped(l) THEN "gone" ELSE conn[c]]
      /\ spc' = IF spc.todo = {} THEN Idle ELSE [at |-> "destroy", todo |-> spc.todo]
      /\ lpc = Idle \/ lpc.l # l
  BY DEF InHandlerOf
<1> HIDE DEF l
<1>a. /\ accepted' \in [Listeners -> Seq(Conns)] /\ accepted'[l] = <<>>
      /\ \A m \in Listeners : m # l => accepted'[m] = accepted[m]
  <2>1. accepted \in [Listeners -> Seq(Conns)] /\ <<>> \in Seq(Conns)
    BY <1>0, EmptySeq DEF Types
  <2> QED
    BY ONLY <1>0, <1>n, <2>1
<1>c. /\ conn' \in [Conns -> ConnState]
      /\ \A c \in Conns : conn'[c] # conn[c] =>
           conn[c] \in {"knocking", "waiting"} /\ via[c] = l /\ conn'[c] = "gone"
  BY <1>0, <1>n DEF Types, ConnState, Dropped
<1>w. \A m \in Listeners : ~Waits(m)'
  BY <1>n DEF Waits, Idle
<1>1. Types'
  <2>1. spc' \in ServerPc \cup {Idle}
    BY <1>0, <1>n DEF ServerPc
  <2> QED
    BY <1>0, <1>n, <1>a, <1>c, <2>1 DEF Types, banVars
<1>2. Listening'
  <2>1. SUFFICES ASSUME NEW m \in Listeners PROVE ListenerOK(m)'
    BY DEF Listening
  <2> QED
    BY <1>0, <1>n, <1>a, <1>w DEF ListenerOK
<1>3. HandlerOK'
  <2>1. lpc # Idle => lpc.l \in Listeners /\ lpc.l # l
    BY <1>0, <1>n, Shapes
  <2>2. lpc.at \in {"accept", "push"} => lpc # Idle /\ lpc.c \in Conns
    BY <1>0, Shapes DEF Idle
  <2> QED
    BY <1>0, <1>c, <1>w, <2>1, <2>2 DEF Inv, HandlerOK
<1>4. Accepted'
  <2>1. SUFFICES ASSUME NEW m \in Listeners
                 PROVE  /\ OnceEach(accepted'[m], Conns)
                        /\ \A d \in Conns : Contains(accepted'[m], d) =>
                                              conn'[d] = "waiting" /\ via'[d] = m
    BY DEF Accepted
  <2>2. CASE m = l
    BY <1>a, <2>2, EmptySeq DEF OnceEach, Contains
  <2>3. CASE m # l
    <3>1. /\ OnceEach(accepted[m], Conns)
          /\ \A d \in Conns : Contains(accepted[m], d) => conn[d] = "waiting" /\ via[d] = m
      BY DEF Inv, Accepted
    <3> QED
      BY <1>a, <1>c, <2>3, <3>1
  <2> QED
    BY <2>2, <2>3
<1>5. Ended'
  BY <1>c, EndedKept
<1>6. CountsSessions'
  BY <1>c, CountKept DEF InSession
<1>7. RetryingTriesAgain'
  BY <1>n DEF Inv, RetryingTriesAgain
<1>8. WaitingIsAnnounced'
  BY <1>0, <1>n, <1>a DEF Inv, Types, WaitingIsAnnounced
<1> QED
  BY <1>1, <1>2, <1>3, <1>4, <1>5, <1>6, <1>7, <1>8 DEF Inv

----------------------------------------------------------------------------

LEMMA InvNext ==
    ASSUME Inv, [Next]_vars
    PROVE  Inv'
<1>1. ASSUME OperatingSystem PROVE Inv'
  BY <1>1, KnockKeeps, LeaveKeeps DEF OperatingSystem
<1>2. ASSUME ListenersLoop PROVE Inv'
  BY <1>2, EnterAcceptKeeps, EnterRetryKeeps, AcceptKeeps, PushKeeps, SendKeeps, RetryKeeps
     DEF ListenersLoop
<1>3. ASSUME ServerLoop PROVE Inv'
  BY <1>3, OnConnectedKeeps, DrainKeeps, LookKeeps, OnSessionEndedKeeps, OnBannedKeeps
     DEF ServerLoop
<1>4. ASSUME SessionLoops PROVE Inv'
  BY <1>4, SessionEndsKeeps, UserRemovedKeeps, FailLoginKeeps, UnbanKeeps DEF SessionLoops
<1>5. ASSUME Administrator PROVE Inv'
  BY <1>5, BanIpKeeps, EndSessionsKeeps, StartKeeps, SetAddressInfosKeeps, StopListenerKeeps,
     DestroyListenerKeeps DEF Administrator
<1>6. ASSUME UNCHANGED vars PROVE Inv'
  <2> USE <1>6 DEF vars
  <2>1. Types' /\ RetryingTriesAgain' /\ WaitingIsAnnounced'
    BY DEF Inv, Types, RetryingTriesAgain, WaitingIsAnnounced
  <2>2. Listening' /\ HandlerOK' /\ Accepted' /\ Ended' /\ CountsSessions'
    BY ListenersKept, HandlerKept, AcceptedKept, EndedKept, CountKept DEF Waits, listenVars
  <2> QED
    BY <2>1, <2>2 DEF Inv
<1> QED
  BY <1>1, <1>2, <1>3, <1>4, <1>5, <1>6 DEF Next

LEMMA InvHolds == Spec => []Inv
<1>1. Init => Inv
  BY InvInit
<1>2. Inv /\ [Next]_vars => Inv'
  BY InvNext
<1> QED
  BY <1>1, <1>2, PTL DEF Spec

\* Every variable keeps to its type whatever listeners, connections and addresses
\* there are: the number of sessions (tcp/server.cpp) is their number unless a
\* session was told that its user is gone, and a listener that could not bind its
\* port has its timer running or is trying now (tcp/listener.cpp, try_listen()).
THEOREM CountAndRetry == Spec => []TypeOK
<1>1. Inv => TypeOK
  <2> SUFFICES ASSUME Inv PROVE TypeOK
    OBVIOUS
  <2>1. Types /\ RetryingTriesAgain /\ CountsSessions
    BY DEF Inv
  <2>2. /\ lpc.at \in {"idle", "accept", "push", "send", "listen"}
        /\ spc.at \in {"idle", "drain", "look", "destroy", "wait"}
    BY <2>1, Shapes
  <2>3. \A i \in 1 .. Len(queue) : queue[i].type \in {"connected", "ended", "banned"}
    <3>1. \A i \in 1 .. Len(queue) : queue[i] \in Event
      BY <2>1, ElementOfSeq DEF Types
    <3> QED
      BY <3>1, Events
  <2>4. \A l \in Listeners : accepted[l] \in Seq(Conns)
    BY <2>1 DEF Types
  <2> QED
    BY <2>1, <2>2, <2>3, <2>4 DEF TypeOK, Types, ConnState
<1> QED
  BY <1>1, InvHolds, PTL

\* An accepted socket never waits without somebody on the way to it
\* (on_socket_event() announces the first, on_connected_event() the others that
\* it leaves behind), however listeners come and go meanwhile.
THEOREM WaitingAnnounced == Spec => []WaitingIsAnnounced
<1>1. Inv => WaitingIsAnnounced
  BY DEF Inv
<1> QED
  BY <1>1, InvHolds, PTL
=============================================================================
