-------------------------- MODULE HttpSessionProofs --------------------------
(***************************************************************************)
(* Proofs about HttpSession: whatever the requests and however they arrive,*)
(* the responses come in their order, one for each, and an upload that is  *)
(* reported to have succeeded is stored.                                   *)
(*                                                                         *)
(* Sound says of a session and its transaction what every operation of the *)
(* responder keeps, Reading where the parser is in the request it reads.   *)
(* Kept names what the responder does not touch.                           *)
(***************************************************************************)
EXTENDS HttpSession, SequenceTheorems, TLAPS

USE DEF Unsaid, Headers, Body, Sending, Sent, Ended

TransactionType ==
    [ num : Requests, closes : BOOLEAN, got : BOOLEAN, wants : BOOLEAN,
      writer : {"none", "file", "string"}, resp : Unsaid..Ended, code : Nat,
      close : BOOLEAN, gone : BOOLEAN ]

ParserType ==
    [ at   : {"start", "headers", "size", "body", "finish", "trailer"},
      rem  : 0..2, left : 0..2, eats : BOOLEAN ]

ResponseType == [ req : Nat, code : Nat, ended : BOOLEAN, trails : BOOLEAN ]

SessionType ==
    [ t : TransactionType, made : Nat, must : BOOLEAN, p : ParserType,
      keep : BOOLEAN, act : BOOLEAN, busy : BOOLEAN, nested : 0..2,
      chan : {"open", "shut", "done"}, cons : BOOLEAN, waits : BOOLEAN,
      wake : BOOLEAN, unsent : BOOLEAN, ops : SUBSET Nat,
      sent : Seq(ResponseType), stored : [Requests -> Nat] ]

\* A body of known length has to be written piece by piece, each completely or not
\* at all; of a chunked one, the rest of a piece is waited for.
Whole(k) == k = "put" => "put" \notin ShortWrites

(* The responses that have been sent, and the one that is under way.       *)
Ordered(s) ==
    /\ \A i \in DOMAIN s.sent :
          /\ s.sent[i].req = i
          /\ i < Len(s.sent) => s.sent[i].ended
          /\ s.sent[i].trails => s.chan # "open"
    /\ Len(s.sent) = IF s.t.resp < Body THEN s.t.num - 1 ELSE s.t.num
    /\ s.t.resp \in {Unsaid, Headers, Ended} =>
          \A i \in DOMAIN s.sent : s.sent[i].ended
    /\ s.t.resp = Headers <=> s.t.code # 0

(* What has been stored of the bodies, now and for the requests to come.   *)
Stored(s) ==
    /\ \A r \in Requests : r > s.t.num => s.stored[r] = 0
    /\ \A i \in DOMAIN s.sent :
          Whole(kinds[i]) /\ s.sent[i].code = 204 => s.stored[i] = 2
    /\ Whole(kinds[s.t.num]) /\ s.t.code = 204 => s.stored[s.t.num] = 2

(* The transaction among the others, the stream and the channel.           *)
Turns(s) ==
    /\ s.made = s.t.num
    /\ s.nested > 0 => /\ s.t.resp > Headers
                       /\ s.chan = "open" => s.t.resp # Ended
    /\ s.must => /\ s.t.got
                 /\ s.chan = "open" => s.t.resp = Ended
    /\ s.cons => s.chan = "open"
    /\ s.waits => s.cons /\ (s.t.wants \/ s.wake)
    /\ s.ops \subseteq 1..s.made
    /\ s.made \in s.ops => s.t.got

Sound(s) == s \in SessionType /\ Ordered(s) /\ Stored(s) /\ Turns(s)

(* The parser p before piece j of a request of kind k whose body's writer  *)
(* is w and has stored n pieces.                                           *)
Stage(k, j, p, w, n) ==
    \/ j = 1 /\ p = NewParser
    \/ j = 2 /\ p.at = "headers" /\ p.left = 0
    \/ /\ k = "put" /\ p.at = "body" /\ j \in {3, 4}
       /\ p.rem = 5 - j /\ p.left <= j - 3
       /\ Whole(k) /\ w = "file" => p.left = 0 /\ n = j - 3
    \/ /\ k = "chunked" /\ p.at = "size" /\ j \in {3, 4, 5}
       /\ p.left <= j - 3
       /\ w = "file" => n + p.left = j - 3
    \/ /\ k = "chunked" /\ p.at \in {"finish", "trailer"} /\ j = 6
       /\ p.at = "trailer" => p.left = 0
       /\ w = "file" => n + p.left = 2
    \/ /\ k = "badchunk" /\ p.at = "size" /\ j \in {3, 4}
       /\ p.left = 0 /\ (j = 4 => w = "none")
    \/ /\ k = "badchunk" /\ p.at = "trailer" /\ j = 5
       /\ w = "none"

Reading(s, u) ==
    s.cons =>
        \/ s.t.got /\ u = <<s.t.num + 1, 1>> /\ s.p = NewParser
        \/ /\ ~s.t.got /\ u[1] = s.t.num
           /\ Stage(kinds[s.t.num], u[2], s.p, s.t.writer, s.stored[s.t.num])
           /\ s.t.writer # "none" => s.t.resp = Unsaid /\ s.p.eats
           /\ u[2] < 3 => s.t.resp = Unsaid /\ s.t.writer = "none" /\ s.stored[s.t.num] = 0

NotBefore(u, v) == v[1] < u[1] \/ (v[1] = u[1] /\ v[2] <= u[2])

Inv ==
    /\ kinds \in [Requests -> Kinds]
    /\ used \in Positions /\ came \in Positions /\ NotBefore(came, used)
    /\ Sound(z) /\ Reading(z, used)
(***************************************************************************)
(* The operations of the responder, and what they keep.                    *)
(***************************************************************************)

Kept(s, q) ==
    /\ q.made = s.made /\ q.p = s.p /\ q.stored = s.stored /\ q.ops = s.ops
    /\ q.t.num = s.t.num /\ q.t.got = s.t.got /\ q.t.writer = s.t.writer
    /\ q.cons => s.cons
    /\ s.chan # "open" => q.chan # "open"

LEMMA ShutdownSound ==
    ASSUME NEW s, Sound(s)
    PROVE  LET q == Shutdown(s)
           IN /\ Sound(q) /\ Kept(s, q) /\ ~q.cons /\ q.chan # "open"
              /\ q.t = [s.t EXCEPT !.wants = FALSE] /\ q.nested = s.nested
  <1> DEFINE q == Shutdown(s)
  <1>1. s \in SessionType
    BY DEF Sound
  <1>2. /\ q \in SessionType /\ Kept(s, q) /\ ~q.cons /\ q.chan # "open" /\ ~q.waits
        /\ q.t = [s.t EXCEPT !.wants = FALSE] /\ q.nested = s.nested
        /\ q.sent = s.sent /\ q.must = s.must
    BY <1>1, ZenonT(60) DEF Shutdown, SessionType, TransactionType, Kept
  <1>3. q.t.resp = s.t.resp /\ q.t.code = s.t.code /\ q.t.num = s.t.num /\ q.t.got = s.t.got
    BY <1>1, <1>2 DEF SessionType, TransactionType
  <1> HIDE DEF q
  <1>4. Ordered(q)
    BY <1>2, <1>3 DEF Sound, Ordered
  <1>5. Stored(q)
    BY <1>2, <1>3 DEF Sound, Stored, Kept
  <1>6. Turns(q)
    BY <1>2, <1>3 DEF Sound, Turns, Kept
  <1> QED
    BY <1>2, <1>4, <1>5, <1>6 DEF Sound, q

LEMMA DoneSound ==
    ASSUME NEW s, Sound(s)
    PROVE  LET q == ChannelDone(s)
           IN Sound(q) /\ Kept(s, q) /\ ~q.cons
  <1> DEFINE q == ChannelDone(s)
  <1>1. s \in SessionType
    BY DEF Sound
  <1>2. /\ q \in SessionType /\ Kept(s, q) /\ ~q.cons /\ q.chan = "done" /\ ~q.waits
        /\ q.t = s.t /\ q.nested = 0 /\ q.sent = s.sent /\ q.must = s.must
    <2>1. q \in SessionType
      <3>1. 0 \in 0..2 /\ "done" \in {"open", "shut", "done"} /\ FALSE \in BOOLEAN
        OBVIOUS
      <3> QED
        BY <1>1, <3>1 DEF ChannelDone, SessionType
    <2>2. /\ ~q.cons /\ q.chan = "done" /\ ~q.waits
          /\ q.t = s.t /\ q.nested = 0 /\ q.sent = s.sent /\ q.must = s.must
          /\ q.made = s.made /\ q.p = s.p /\ q.stored = s.stored /\ q.ops = s.ops
      BY <1>1 DEF ChannelDone, SessionType
    <2> QED
      BY <2>1, <2>2 DEF Kept
  <1> HIDE DEF q
  <1>4. Ordered(q)
    BY <1>2 DEF Sound, Ordered
  <1>5. Stored(q)
    BY <1>2 DEF Sound, Stored, Kept
  <1>6. Turns(q)
    BY <1>2 DEF Sound, Turns, Kept
  <1> QED
    BY <1>2, <1>4, <1>5, <1>6 DEF Sound, q

LEMMA AcceptSound ==
    ASSUME NEW s, Sound(s)
    PROVE  LET q == Accept(s)
           IN /\ Sound(q) /\ Kept(s, q) /\ q.t.resp = s.t.resp /\ q.nested = s.nested
              /\ q.cons = s.cons
  <1> DEFINE q == Accept(s)
  <1>1. s \in SessionType
    BY DEF Sound
  <1>2. CASE s.t.got /\ s.t.resp = Ended
    <2> DEFINE t == [s.t EXCEPT !.gone = TRUE, !.wants = FALSE]
               w == s.wake \/ (s.t.wants /\ s.cons)
    <2>0. q = [s EXCEPT !.t = t, !.wake = w, !.must = TRUE, !.keep = TRUE, !.act = FALSE]
      BY <1>1, <1>2 DEF Accept, Detached, SessionType, TransactionType
    <2>1. /\ t \in TransactionType /\ t.resp = s.t.resp /\ t.code = s.t.code
          /\ t.num = s.t.num /\ t.got = s.t.got /\ t.writer = s.t.writer
      BY <1>1 DEF SessionType, TransactionType
    <2> HIDE DEF t, q
    <2>2. /\ q \in SessionType /\ q.cons = s.cons /\ q.chan = s.chan
          /\ q.waits = s.waits /\ q.nested = s.nested /\ q.sent = s.sent
          /\ q.t = t /\ q.wake = w
          /\ q.made = s.made /\ q.p = s.p /\ q.stored = s.stored /\ q.ops = s.ops
      BY <1>1, <2>0, <2>1 DEF SessionType
    <2>3. Kept(s, q)
      BY <2>1, <2>2 DEF Kept
    <2>4. Ordered(q)
      BY <2>1, <2>2 DEF Sound, Ordered
    <2>5. Stored(q)
      BY <2>1, <2>2 DEF Sound, Stored
    <2>6. Turns(q)
      BY <1>2, <2>1, <2>2 DEF Sound, Turns
    <2> QED
      BY <2>1, <2>2, <2>3, <2>4, <2>5, <2>6 DEF Sound, q
  <1>3. CASE ~(s.t.got /\ s.t.resp = Ended)
    BY <1>3 DEF Accept, Kept
  <1> QED
    BY <1>2, <1>3
(* The last response of a sequence is marked as trailed or as ended.       *)
LEMMA Marked ==
    ASSUME NEW S \in Seq(ResponseType), S # <<>>
    PROVE  /\ LET N == [S EXCEPT ![Len(S)].trails = TRUE]
              IN /\ N \in Seq(ResponseType) /\ Len(N) = Len(S)
                 /\ \A i \in 1 .. Len(S) :
                       /\ N[i].req = S[i].req /\ N[i].code = S[i].code /\ N[i].ended = S[i].ended
                       /\ i < Len(S) => N[i].trails = S[i].trails
           /\ LET N == [S EXCEPT ![Len(S)].ended = TRUE]
              IN /\ N \in Seq(ResponseType) /\ Len(N) = Len(S) /\ N[Len(S)].ended
                 /\ \A i \in 1 .. Len(S) :
                       /\ N[i].req = S[i].req /\ N[i].code = S[i].code /\ N[i].trails = S[i].trails
                       /\ i < Len(S) => N[i].ended = S[i].ended
  <1> PICK n : n = Len(S)
    OBVIOUS
  <1>1. n \in 1 .. n /\ n \in Nat /\ S[n] \in ResponseType
    BY EmptySeq, LenProperties
  <1>2. ASSUME NEW x \in ResponseType, NEW N, N = [S EXCEPT ![n] = x]
        PROVE  /\ N \in Seq(ResponseType) /\ Len(N) = n /\ N[n] = x
               /\ \A i \in 1 .. n : i < n => N[i] = S[i]
    BY <1>1, <1>2, ExceptSeq
  <1> DEFINE x == [S[n] EXCEPT !.trails = TRUE]
             y == [S[n] EXCEPT !.ended = TRUE]
             M == [S EXCEPT ![n] = x]
             N == [S EXCEPT ![n] = y]
  <1>3. /\ x \in ResponseType /\ x.req = S[n].req /\ x.code = S[n].code /\ x.ended = S[n].ended
        /\ y \in ResponseType /\ y.req = S[n].req /\ y.code = S[n].code /\ y.trails = S[n].trails
        /\ y.ended
    BY <1>1 DEF ResponseType
  <1>4. [S EXCEPT ![Len(S)].trails = TRUE] = M /\ [S EXCEPT ![Len(S)].ended = TRUE] = N
    OBVIOUS
  <1> HIDE DEF x, y
  <1>5. /\ M \in Seq(ResponseType) /\ Len(M) = n /\ M[n] = x
        /\ \A i \in 1 .. n : i < n => M[i] = S[i]
        /\ N \in Seq(ResponseType) /\ Len(N) = n /\ N[n] = y
        /\ \A i \in 1 .. n : i < n => N[i] = S[i]
    BY <1>2, <1>3
  <1> HIDE DEF M, N
  <1>6. \A i \in 1 .. n : i = n \/ i < n
    BY <1>1
  <1> QED
    BY <1>1, <1>3, <1>4, <1>5, <1>6

(* The head of a response is appended to the sequence of responses, or the *)
(* session is closing.                                                     *)
LEMMA FlushSound ==
    ASSUME NEW s, Sound(s), s.t.resp >= Headers, s.t.resp = Headers \/ s.chan # "open"
    PROVE  LET q == FlushHeaders(s, s.t.num)
           IN /\ Sound(q) /\ Kept(s, q) /\ q.t.resp = Body /\ q.nested = s.nested
              /\ q.chan = s.chan /\ q.cons = s.cons /\ Len(q.sent) = s.t.num
              /\ q.must = s.must /\ (s.t.close => q.t.close)
  <1> DEFINE q == FlushHeaders(s, s.t.num)
             n == Len(s.sent)
             head == [req |-> s.t.num, code |-> s.t.code, ended |-> FALSE, trails |-> FALSE]
             t == [s.t EXCEPT !.resp = Body, !.code = 0, !.close = @ \/ s.t.closes]
             new == IF s.t.code = 0 \/ s.nested > 0 THEN [s.sent EXCEPT ![n].trails = TRUE]
                    ELSE Append(s.sent, head)
  <1>1. s \in SessionType /\ Ordered(s) /\ Stored(s) /\ Turns(s)
    BY DEF Sound
  <1>2. q = [s EXCEPT !.t = t, !.unsent = TRUE, !.sent = new]
    BY <1>1 DEF FlushHeaders, SessionType, TransactionType
  <1>3. /\ t \in TransactionType /\ t.resp = Body /\ t.code = 0
        /\ t.num = s.t.num /\ t.got = s.t.got /\ t.writer = s.t.writer
        /\ t.wants = s.t.wants /\ (s.t.close => t.close)
    <2>1. s.t \in TransactionType
      BY <1>1 DEF SessionType
    <2>2. t \in TransactionType
      <3>1. 0 \in Nat /\ Body \in Unsaid..Ended /\ (s.t.close \/ s.t.closes) \in BOOLEAN
        BY <2>1 DEF TransactionType
      <3> QED
        BY <2>1, <3>1 DEF TransactionType
    <2> QED
      BY <2>1, <2>2 DEF TransactionType
  <1>4. /\ s.sent \in Seq(ResponseType) /\ n \in Nat /\ s.t.num \in Nat \ {0}
        /\ s.t.num \in Requests /\ s.t.code \in Nat
    BY <1>1, BoundsAssumption DEF SessionType, TransactionType, Requests
  <1>5. /\ new \in Seq(ResponseType) /\ Len(new) = s.t.num
        /\ \A i \in 1 .. Len(new) :
              /\ new[i].req = i
              /\ i < Len(new) => new[i].ended
              /\ new[i].trails => s.chan # "open"
              /\ Whole(kinds[i]) /\ new[i].code = 204 => s.stored[i] = 2
    <2>1. CASE s.t.code = 0 \/ s.nested > 0
      <3>1. s.t.resp > Headers /\ s.chan # "open"
        BY <1>1, <2>1 DEF Ordered, Turns, SessionType, TransactionType
      <3>2. n = s.t.num /\ s.sent # <<>>
        BY <1>1, <1>4, <3>1 DEF Ordered, SessionType, TransactionType
      <3>3. new = [s.sent EXCEPT ![Len(s.sent)].trails = TRUE]
        BY <2>1
      <3> HIDE DEF new
      <3>4. /\ new \in Seq(ResponseType) /\ Len(new) = n
            /\ \A i \in 1 .. n : /\ new[i].req = s.sent[i].req /\ new[i].ended = s.sent[i].ended
                                 /\ new[i].code = s.sent[i].code
        BY <1>4, <3>2, <3>3, Marked, ZenonT(60)
      <3>5. \A i \in 1 .. n : /\ s.sent[i].req = i
                              /\ i < n => s.sent[i].ended
                              /\ Whole(kinds[i]) /\ s.sent[i].code = 204 => s.stored[i] = 2
        BY <1>1, <1>4 DEF Ordered, Stored
      <3> QED
        BY <3>1, <3>2, <3>4, <3>5
    <2>2. CASE ~(s.t.code = 0 \/ s.nested > 0)
      <3>1. s.t.resp = Headers
        BY <1>1, <2>2 DEF Ordered
      <3>2. n = s.t.num - 1 /\ \A i \in 1 .. n : s.sent[i].ended
        BY <1>1, <1>4, <3>1 DEF Ordered
      <3>3. head \in ResponseType
        BY <1>4 DEF ResponseType
      <3>4. /\ new \in Seq(ResponseType) /\ Len(new) = n + 1 /\ new[n + 1] = head
            /\ \A i \in 1 .. n : new[i] = s.sent[i]
        BY <1>4, <2>2, <3>3, AppendProperties
      <3>5. Whole(kinds[s.t.num]) /\ s.t.code = 204 => s.stored[s.t.num] = 2
        BY <1>1 DEF Stored
      <3>6. \A i \in 1 .. n : /\ s.sent[i].req = i
                              /\ s.sent[i].trails => s.chan # "open"
                              /\ Whole(kinds[i]) /\ s.sent[i].code = 204 => s.stored[i] = 2
        BY <1>1, <1>4 DEF Ordered, Stored
      <3>7. head.req = s.t.num /\ head.code = s.t.code /\ ~head.trails
        OBVIOUS
      <3>8. s.t.num = n + 1 /\ n + 1 \in 1 .. n + 1
            /\ \A i \in 1 .. n + 1 : i = n + 1 \/ (i \in 1 .. n /\ i < n + 1)
        BY <1>4, <3>2
      <3> HIDE DEF new, head, n
      <3>9. ASSUME NEW i \in 1 .. n + 1
            PROVE  /\ new[i].req = i
                   /\ i < n + 1 => new[i].ended
                   /\ new[i].trails => s.chan # "open"
                   /\ Whole(kinds[i]) /\ new[i].code = 204 => s.stored[i] = 2
        <4>1. CASE i = n + 1
          BY <1>4, <3>4, <3>5, <3>7, <3>8, <4>1
        <4>2. CASE i \in 1 .. n /\ i < n + 1
          <5>1. new[i] = s.sent[i]
            BY <3>4, <4>2
          <5>2. /\ s.sent[i].req = i
                /\ s.sent[i].ended
                /\ s.sent[i].trails => s.chan # "open"
                /\ Whole(kinds[i]) /\ s.sent[i].code = 204 => s.stored[i] = 2
            BY <3>2, <3>6, <4>2
          <5> QED
            BY ONLY <5>1, <5>2
        <4> QED
          BY <3>8, <4>1, <4>2
      <3> QED
        BY <3>4, <3>8, <3>9
    <2> QED
      BY <2>1, <2>2
  <1> HIDE DEF q, t, new
  <1>6. /\ q \in SessionType /\ q.t = t /\ q.sent = new
        /\ q.nested = s.nested /\ q.chan = s.chan /\ q.cons = s.cons /\ q.must = s.must
        /\ q.waits = s.waits /\ q.wake = s.wake
        /\ q.made = s.made /\ q.p = s.p /\ q.stored = s.stored /\ q.ops = s.ops
    BY <1>1, <1>2, <1>3, <1>5 DEF SessionType
  <1>7. Kept(s, q)
    BY <1>3, <1>6 DEF Kept
  <1>8. Ordered(q)
    BY <1>3, <1>4, <1>5, <1>6 DEF Ordered
  <1>9. Stored(q)
    <2>1. \A r \in Requests : r > q.t.num => q.stored[r] = 0
      BY <1>1, <1>3, <1>6 DEF Stored
    <2>2. DOMAIN q.sent = 1 .. Len(new)
      BY <1>5, <1>6
    <2>3. \A i \in DOMAIN q.sent : Whole(kinds[i]) /\ q.sent[i].code = 204 => q.stored[i] = 2
      BY <1>5, <1>6, <2>2
    <2>4. q.t.code = 0
      BY <1>3, <1>6
    <2> QED
      BY <2>1, <2>3, <2>4 DEF Stored
  <1>10. Turns(q)
    BY <1>1, <1>3, <1>6 DEF Turns
  <1> QED
    BY <1>3, <1>5, <1>6, <1>7, <1>8, <1>9, <1>10 DEF Sound, q
LEMMA StatusSound ==
    ASSUME NEW s, Sound(s), NEW code \in Nat \ {0},
           Whole(kinds[s.t.num]) /\ code = 204 => s.stored[s.t.num] = 2
    PROVE  LET q == SendStatus(s, code)
           IN /\ Sound(q) /\ Kept(s, q) /\ q.t.close = s.t.close
              /\ q.t.resp >= Headers /\ (q.t.resp = Headers \/ q.chan # "open")
              /\ s.t.resp = Unsaid => q.t.resp = Headers /\ q.chan = s.chan
              /\ s.t.resp # Unsaid => ~q.cons
  <1> DEFINE q == SendStatus(s, code)
             t == [s.t EXCEPT !.resp = Headers, !.code = code]
  <1>1. s \in SessionType /\ Ordered(s) /\ Stored(s) /\ Turns(s)
    BY DEF Sound
  <1>2. CASE s.t.resp > Unsaid
    <2>1. q = Shutdown(s)
      BY <1>2 DEF SendStatus
    <2>2. /\ Sound(q) /\ Kept(s, q) /\ ~q.cons /\ q.chan # "open"
          /\ q.t = [s.t EXCEPT !.wants = FALSE]
      BY <2>1, ShutdownSound
    <2>3. q.t.close = s.t.close /\ q.t.resp = s.t.resp
      BY <1>1, <2>2 DEF SessionType, TransactionType
    <2> QED
      BY <1>1, <1>2, <2>2, <2>3 DEF SessionType, TransactionType
  <1>3. CASE ~(s.t.resp > Unsaid)
    <2>1. s.t.resp = Unsaid
      BY <1>1, <1>3 DEF SessionType, TransactionType
    <2>2. q = [s EXCEPT !.t = t]
      BY <1>1, <1>3 DEF SendStatus, SessionType, TransactionType
    <2>3. /\ t \in TransactionType /\ t.resp = Headers /\ t.code = code
          /\ t.num = s.t.num /\ t.got = s.t.got /\ t.writer = s.t.writer
          /\ t.wants = s.t.wants /\ t.close = s.t.close
      <3>1. s.t \in TransactionType /\ Headers \in Unsaid..Ended /\ code \in Nat
        BY <1>1 DEF SessionType
      <3>2. t \in TransactionType
        BY <3>1 DEF TransactionType
      <3> QED
        BY <3>1, <3>2 DEF TransactionType
    <2> HIDE DEF q, t
    <2>4. /\ q \in SessionType /\ q.t = t /\ q.sent = s.sent
          /\ q.nested = s.nested /\ q.chan = s.chan /\ q.cons = s.cons /\ q.must = s.must
          /\ q.waits = s.waits /\ q.wake = s.wake
          /\ q.made = s.made /\ q.p = s.p /\ q.stored = s.stored /\ q.ops = s.ops
      BY <1>1, <2>2, <2>3 DEF SessionType
    <2>5. Kept(s, q)
      BY <2>3, <2>4 DEF Kept
    <2>6. Ordered(q)
      BY <1>1, <2>1, <2>3, <2>4 DEF Ordered
    <2>7. Stored(q)
      BY <1>1, <2>3, <2>4 DEF Stored
    <2>8. Turns(q)
      <3>1. ~(s.nested > 0) /\ (s.must => s.chan # "open")
        BY <1>1, <2>1 DEF Turns
      <3> QED
        BY <1>1, <2>3, <2>4, <3>1 DEF Turns
    <2> QED
      BY <2>1, <2>3, <2>4, <2>5, <2>6, <2>7, <2>8 DEF Sound, q
  <1> QED
    BY <1>2, <1>3

\* A response whose head has been sent goes on with its body.
LEMMA BodySound ==
    ASSUME NEW s, Sound(s), s.t.resp >= Body, NEW resp \in {Sending, Sent}, NEW n \in 0..2,
           s.must => s.chan # "open"
    PROVE  LET q == [s EXCEPT !.t.resp = resp, !.nested = n]
           IN /\ Sound(q) /\ Kept(s, q) /\ q.t.resp = resp /\ q.nested = n
              /\ q.chan = s.chan /\ q.t.close = s.t.close
  <1> DEFINE t == [s.t EXCEPT !.resp = resp]
             q == [s EXCEPT !.t = t, !.nested = n]
  <1>1. s \in SessionType /\ Ordered(s) /\ Stored(s) /\ Turns(s)
    BY DEF Sound
  <1>2. /\ t \in TransactionType /\ t.resp = resp /\ t.code = s.t.code
        /\ t.num = s.t.num /\ t.got = s.t.got /\ t.writer = s.t.writer
        /\ t.wants = s.t.wants /\ t.close = s.t.close
    <2>1. s.t \in TransactionType /\ resp \in Unsaid..Ended
      BY <1>1 DEF SessionType
    <2>2. t \in TransactionType
      BY <2>1 DEF TransactionType
    <2> QED
      BY <2>1, <2>2 DEF TransactionType
  <1>3. q = [s EXCEPT !.t.resp = resp, !.nested = n]
    BY <1>1 DEF SessionType
  <1> HIDE DEF t
  <1>4. /\ q \in SessionType /\ q.t = t /\ q.sent = s.sent
        /\ q.nested = n /\ q.chan = s.chan /\ q.cons = s.cons /\ q.must = s.must
        /\ q.waits = s.waits /\ q.wake = s.wake
        /\ q.made = s.made /\ q.p = s.p /\ q.stored = s.stored /\ q.ops = s.ops
    BY <1>1, <1>2 DEF SessionType
  <1> HIDE DEF q
  <1>5. Kept(s, q)
    BY <1>2, <1>4 DEF Kept
  <1>6. Ordered(q)
    <2>1. /\ Len(s.sent) = s.t.num /\ s.t.code = 0
          /\ ~(q.t.resp < Body) /\ q.t.resp \notin {Unsaid, Headers, Ended}
      BY <1>1, <1>2, <1>4 DEF Ordered, SessionType, TransactionType
    <2> QED
      BY <1>1, <1>2, <1>4, <2>1 DEF Ordered
  <1>7. Stored(q)
    BY <1>1, <1>2, <1>4 DEF Stored
  <1>8. Turns(q)
    BY <1>1, <1>2, <1>4 DEF Turns
  <1> QED
    BY <1>2, <1>3, <1>4, <1>5, <1>6, <1>7, <1>8 DEF Sound

LEMMA KeptTransitive ==
    ASSUME NEW s, NEW q, NEW r, Kept(s, q), Kept(q, r)
    PROVE  Kept(s, r)
  BY DEF Kept
\* The end of the response: the session ends with it, or the next request may
\* be taken up.
LEMMA EndSound ==
    ASSUME NEW s, Sound(s), s.nested = 0 \/ s.chan # "open"
    PROVE  LET q == SendEnd(s, s.t.num)
           IN /\ Sound(q) /\ Kept(s, q)
              /\ s.t.resp < Headers => q.t.resp = s.t.resp
              /\ s.t.resp >= Headers => q.t.resp = Ended
              /\ s.t.resp < Headers \/ s.t.close => ~q.cons
  <1> DEFINE q == SendEnd(s, s.t.num)
             f == IF s.t.resp = Headers THEN FlushHeaders(s, s.t.num) ELSE s
             t == [f.t EXCEPT !.resp = Ended]
             new == [f.sent EXCEPT ![Len(f.sent)].ended = TRUE]
             e == [f EXCEPT !.t = t, !.sent = new]
  <1>1. s \in SessionType /\ Ordered(s) /\ Stored(s) /\ Turns(s)
    BY DEF Sound
  <1>2. s.t.resp \in Unsaid..Ended
    BY <1>1 DEF SessionType, TransactionType
  <1>3. CASE s.t.resp < Headers
    <2>1. q = Shutdown(s)
      BY <1>3 DEF SendEnd
    <2>2. Sound(q) /\ Kept(s, q) /\ ~q.cons /\ q.t = [s.t EXCEPT !.wants = FALSE]
      BY <2>1, ShutdownSound
    <2>3. q.t.resp = s.t.resp
      BY <1>1, <2>2 DEF SessionType, TransactionType
    <2> HIDE DEF q
    <2> QED
      BY <1>2, <1>3, <2>2, <2>3 DEF q
  <1>4. CASE s.t.resp >= Headers
    <2>1. /\ Sound(f) /\ Kept(s, f) /\ f.t.resp >= Body /\ f.nested = s.nested
          /\ f.chan = s.chan /\ (s.t.close => f.t.close)
      <3>1. CASE s.t.resp = Headers
        <4>1. f = FlushHeaders(s, s.t.num)
          BY <3>1
        <4> HIDE DEF f
        <4>2. /\ Sound(f) /\ Kept(s, f) /\ f.t.resp = Body /\ f.nested = s.nested
              /\ f.chan = s.chan /\ (s.t.close => f.t.close)
          BY <1>4, <3>1, <4>1, FlushSound
        <4> QED
          BY <4>2
      <3>2. CASE s.t.resp # Headers
        BY <1>2, <1>4, <3>2 DEF Kept
      <3> QED
        BY <3>1, <3>2
    <2>2. q = IF f.t.close THEN Shutdown([f EXCEPT !.t.resp = Ended, !.sent[Len(f.sent)].ended = TRUE])
              ELSE Accept([f EXCEPT !.t.resp = Ended, !.sent[Len(f.sent)].ended = TRUE])
      BY <1>2, <1>4 DEF SendEnd
    <2> HIDE DEF f, q
    <2>3. f \in SessionType /\ Ordered(f) /\ Stored(f) /\ Turns(f)
      BY <2>1 DEF Sound
    <2>4. e = [f EXCEPT !.t.resp = Ended, !.sent[Len(f.sent)].ended = TRUE]
      BY <2>3 DEF SessionType
    <2>5. /\ t \in TransactionType /\ t.resp = Ended /\ t.code = f.t.code
          /\ t.num = f.t.num /\ t.got = f.t.got /\ t.writer = f.t.writer
          /\ t.wants = f.t.wants /\ t.close = f.t.close
      <3>1. f.t \in TransactionType /\ Ended \in Unsaid..Ended
        BY <2>3 DEF SessionType
      <3>2. t \in TransactionType
        BY <3>1 DEF TransactionType
      <3> QED
        BY <3>1, <3>2 DEF TransactionType
    <2>6. f.t.resp \in Unsaid..Ended /\ f.t.num \in Requests /\ f.sent \in Seq(ResponseType)
      BY <2>3 DEF SessionType, TransactionType
    <2>7. Len(f.sent) = f.t.num /\ f.t.code = 0 /\ f.sent # <<>>
      BY <2>1, <2>3, <2>6 DEF Ordered, Requests
    <2> HIDE DEF t
    <2>8. /\ new \in Seq(ResponseType) /\ Len(new) = Len(f.sent) /\ new[Len(f.sent)].ended
          /\ \A i \in 1 .. Len(f.sent) :
                /\ new[i].req = f.sent[i].req /\ new[i].code = f.sent[i].code
                /\ new[i].trails = f.sent[i].trails
                /\ i < Len(f.sent) => new[i].ended = f.sent[i].ended
      BY <2>6, <2>7, Marked, ZenonT(60)
    <2> HIDE DEF new
    <2>9. /\ e \in SessionType /\ e.t = t /\ e.sent = new
          /\ e.nested = f.nested /\ e.chan = f.chan /\ e.cons = f.cons /\ e.must = f.must
          /\ e.waits = f.waits /\ e.wake = f.wake
          /\ e.made = f.made /\ e.p = f.p /\ e.stored = f.stored /\ e.ops = f.ops
      BY <2>3, <2>5, <2>8 DEF SessionType
    <2> HIDE DEF e
    <2>10. Kept(f, e)
      BY <2>5, <2>9 DEF Kept
    <2>11. Ordered(e)
      <3>1. \A i \in 1 .. Len(f.sent) :
               /\ f.sent[i].req = i
               /\ i < Len(f.sent) => f.sent[i].ended
               /\ f.sent[i].trails => f.chan # "open"
        BY <2>3, <2>6 DEF Ordered
      <3>2. \A i \in 1 .. Len(f.sent) : i = Len(f.sent) \/ i < Len(f.sent)
        BY <2>6
      <3>3. DOMAIN new = 1 .. Len(f.sent)
        BY <2>8
      <3>4. \A i \in 1 .. Len(f.sent) :
               /\ new[i].req = i /\ new[i].ended
               /\ new[i].trails => f.chan # "open"
        BY <2>8, <3>1, <3>2
      <3> QED
        BY <2>5, <2>7, <2>8, <2>9, <3>3, <3>4 DEF Ordered
    <2>12. Stored(e)
      <3>1. DOMAIN new = 1 .. Len(f.sent) /\ DOMAIN f.sent = 1 .. Len(f.sent)
        BY <2>6, <2>8
      <3> QED
        BY <2>3, <2>5, <2>7, <2>8, <2>9, <3>1 DEF Stored
    <2>13. Turns(e)
      <3>1. f.nested \in 0..2 /\ (f.nested = 0 \/ f.chan # "open")
        BY <2>1, <2>3 DEF SessionType
      <3> QED
        BY <2>3, <2>5, <2>9, <3>1 DEF Turns
    <2>14. Sound(e)
      BY <2>9, <2>11, <2>12, <2>13 DEF Sound
    <2>15. CASE f.t.close
      <3>0. q = Shutdown(e)
        BY <2>2, <2>4, <2>15
      <3>1. Sound(q) /\ Kept(e, q) /\ ~q.cons /\ q.t = [t EXCEPT !.wants = FALSE]
        BY <2>9, <2>14, <3>0, ShutdownSound
      <3>2. q.t.resp = Ended
        BY <2>5, <3>1 DEF TransactionType
      <3> QED
        BY <1>2, <1>4, <2>1, <2>10, <3>1, <3>2, KeptTransitive DEF q
    <2>16. CASE ~f.t.close
      <3>1. Sound(q) /\ Kept(e, q) /\ q.t.resp = Ended
        BY <2>2, <2>4, <2>5, <2>9, <2>14, <2>16, AcceptSound
      <3> QED
        BY <1>2, <1>4, <2>1, <2>10, <2>16, <3>1, KeptTransitive DEF q
    <2> QED
      BY <2>15, <2>16
  <1> QED
    BY <1>2, <1>3, <1>4
\* The transaction and the parser change, but not what has been responded.
Turned(s, t, p) == [s EXCEPT !.t = t, !.p = p]

LEMMA TurnedSound ==
    ASSUME NEW s, Sound(s), NEW t \in TransactionType, NEW p \in ParserType,
           t.resp = s.t.resp, t.code = s.t.code, t.num = s.t.num, t.wants = s.t.wants,
           s.t.got => t.got
    PROVE  LET q == Turned(s, t, p)
           IN /\ Sound(q) /\ q.t = t /\ q.p = p /\ q.stored = s.stored /\ q.must = s.must
              /\ q.cons = s.cons /\ q.chan = s.chan /\ q.sent = s.sent /\ q.ops = s.ops
              /\ q.made = s.made /\ q.nested = s.nested
  <1> DEFINE q == Turned(s, t, p)
  <1>1. s \in SessionType
    BY DEF Sound
  <1>2. /\ q \in SessionType /\ q.t = t /\ q.p = p /\ q.stored = s.stored /\ q.must = s.must
        /\ q.cons = s.cons /\ q.chan = s.chan /\ q.sent = s.sent /\ q.ops = s.ops
        /\ q.made = s.made /\ q.nested = s.nested
        /\ q.waits = s.waits /\ q.wake = s.wake
    BY <1>1 DEF SessionType, Turned
  <1> HIDE DEF q
  <1>3. Ordered(q)
    BY <1>2 DEF Sound, Ordered
  <1>4. Stored(q)
    BY <1>2 DEF Sound, Stored
  <1>5. Turns(q)
    BY <1>2 DEF Sound, Turns
  <1> QED
    BY <1>2, <1>3, <1>4, <1>5 DEF Sound, q

LEMMA MovedSound ==
    ASSUME NEW s, Sound(s), NEW p \in ParserType
    PROVE  LET q == Turned(s, s.t, p)
           IN /\ q = [s EXCEPT !.p = p]
              /\ Sound(q) /\ q.t = s.t /\ q.p = p /\ q.stored = s.stored /\ q.must = s.must
              /\ q.cons = s.cons /\ q.chan = s.chan /\ q.sent = s.sent /\ q.ops = s.ops
              /\ q.made = s.made /\ q.nested = s.nested
  <1>1. s \in SessionType /\ s.t \in TransactionType
    BY DEF Sound, SessionType
  <1>2. Turned(s, s.t, p) = [s EXCEPT !.p = p]
    BY <1>1 DEF SessionType, Turned
  <1> QED
    BY <1>1, <1>2, TurnedSound

LEMMA CloseSound ==
    ASSUME NEW s, Sound(s), NEW b \in BOOLEAN
    PROVE  LET q == [s EXCEPT !.t.close = @ \/ b]
           IN /\ Sound(q) /\ Kept(s, q) /\ q.t.resp = s.t.resp /\ q.nested = s.nested
              /\ q.chan = s.chan /\ (b => q.t.close)
  <1> DEFINE t == [s.t EXCEPT !.close = @ \/ b]
             q == Turned(s, t, s.p)
  <1>1. s \in SessionType /\ s.t \in TransactionType /\ s.p \in ParserType
    BY DEF Sound, SessionType
  <1>2. /\ t \in TransactionType /\ t.resp = s.t.resp /\ t.code = s.t.code
        /\ t.num = s.t.num /\ t.got = s.t.got /\ t.writer = s.t.writer
        /\ t.wants = s.t.wants /\ (b => t.close)
    <2>1. (s.t.close \/ b) \in BOOLEAN
      OBVIOUS
    <2>2. t \in TransactionType
      BY <1>1, <2>1 DEF TransactionType
    <2> QED
      BY <1>1, <2>2 DEF TransactionType
  <1>3. q = [s EXCEPT !.t.close = @ \/ b]
    BY <1>1 DEF SessionType, Turned
  <1> HIDE DEF t, q
  <1>4. /\ Sound(q) /\ q.t = t /\ q.p = s.p /\ q.stored = s.stored /\ q.must = s.must
        /\ q.cons = s.cons /\ q.chan = s.chan /\ q.sent = s.sent /\ q.ops = s.ops
        /\ q.made = s.made /\ q.nested = s.nested
    BY <1>1, <1>2, TurnedSound DEF q
  <1> QED
    BY <1>2, <1>3, <1>4 DEF Kept

\* A response of a status and an end; it closes the session if it is to.
LEMMA ReplySound ==
    ASSUME NEW s, Sound(s), NEW code \in Nat \ {0}, NEW close \in BOOLEAN,
           Whole(kinds[s.t.num]) /\ code = 204 /\ s.t.resp = Unsaid => s.stored[s.t.num] = 2
    PROVE  LET q == Reply(s, s.t.num, code, close)
           IN /\ Sound(q) /\ Kept(s, q) /\ q.t.resp # Unsaid
              /\ close \/ s.t.resp # Unsaid => ~q.cons
  <1> DEFINE q == Reply(s, s.t.num, code, close)
             a == SendStatus(s, code)
             b == [a EXCEPT !.t.close = @ \/ close]
  <1>1. s \in SessionType /\ s.t.resp \in Unsaid..Ended
    BY DEF Sound, SessionType, TransactionType
  <1>2. CASE s.t.resp > Unsaid
    <2>1. q = Shutdown(s)
      BY <1>2 DEF Reply
    <2> HIDE DEF q
    <2>2. Sound(q) /\ Kept(s, q) /\ ~q.cons /\ q.t = [s.t EXCEPT !.wants = FALSE]
      BY <2>1, ShutdownSound
    <2>3. q.t.resp = s.t.resp
      BY <1>1, <2>2 DEF SessionType, TransactionType
    <2> QED
      BY <1>1, <1>2, <2>2, <2>3 DEF q
  <1>3. CASE s.t.resp = Unsaid
    <2>1. Sound(a) /\ Kept(s, a) /\ a.t.resp = Headers
      BY <1>3, StatusSound
    <2>2. q = SendEnd(b, s.t.num)
      BY <1>3 DEF Reply
    <2> HIDE DEF a, q
    <2>3. /\ Sound(b) /\ Kept(a, b) /\ b.t.resp = a.t.resp /\ (close => b.t.close)
      BY <2>1, CloseSound
    <2> HIDE DEF b
    <2>4. Kept(s, b) /\ b.t.num = s.t.num /\ b.nested = 0
      <3>1. Kept(s, b)
        BY <2>1, <2>3, KeptTransitive
      <3>2. b.nested \in 0..2 /\ ~(b.nested > 0)
        BY <2>1, <2>3 DEF Sound, SessionType, Turns
      <3> QED
        BY <3>1, <3>2 DEF Kept
    <2>5. Sound(q) /\ Kept(b, q) /\ q.t.resp = Ended /\ (b.t.close => ~q.cons)
      BY <2>1, <2>2, <2>3, <2>4, EndSound
    <2> QED
      BY <1>3, <2>3, <2>4, <2>5, KeptTransitive DEF q
  <1> QED
    BY <1>1, <1>2, <1>3

\* An answer without a body, after which the session goes on or ends.
Told(s, code)    == Reply(s, s.t.num, code, FALSE)
Refused(s, code) == Reply(s, s.t.num, code, TRUE)

LEMMA RefusedSound ==
    ASSUME NEW s, Sound(s), NEW code \in {400, 401, 404, 408, 500}
    PROVE  /\ Sound(Refused(s, code)) /\ Kept(s, Refused(s, code))
           /\ Refused(s, code).t.resp # Unsaid /\ ~Refused(s, code).cons
           /\ Sound(Told(s, code)) /\ Kept(s, Told(s, code))
  <1>1. code \in Nat \ {0} /\ code # 204
    OBVIOUS
  <1>2. \A close \in BOOLEAN :
           LET q == Reply(s, s.t.num, code, close)
           IN Sound(q) /\ Kept(s, q) /\ q.t.resp # Unsaid /\ (close => ~q.cons)
    BY <1>1, ReplySound
  <1> QED
    BY <1>2, Zenon DEF Told, Refused

LEMMA SendBodySound ==
    ASSUME NEW s, Sound(s), s.t.resp = Headers \/ s.chan # "open"
    PROVE  LET q == SendBody(s, s.t.num) IN Sound(q) /\ Kept(s, q)
  <1> DEFINE q == SendBody(s, s.t.num)
             f == FlushHeaders(s, s.t.num)
             b == [f EXCEPT !.t.resp = Sent]
  <1>1. s \in SessionType /\ s.t.resp \in Unsaid..Ended
    BY DEF Sound, SessionType, TransactionType
  <1>2. CASE s.t.resp < Headers
    BY <1>2, ShutdownSound DEF SendBody
  <1>3. CASE s.t.resp >= Headers
    <2>1. /\ Sound(f) /\ Kept(s, f) /\ f.t.resp = Body /\ f.nested = s.nested
          /\ f.chan = s.chan /\ f.must = s.must
      BY <1>3, FlushSound
    <2>2. q = SendEnd(b, s.t.num)
      BY <1>1, <1>3 DEF SendBody
    <2> HIDE DEF f, q
    <2>3. f \in SessionType /\ f.nested \in 0..2
      BY <2>1 DEF Sound, SessionType
    <2>4. b = [f EXCEPT !.t.resp = Sent, !.nested = f.nested]
      BY <2>3 DEF SessionType
    <2>5. s.must => s.chan # "open"
      BY <1>1 DEF Sound, Turns
    <2> HIDE DEF b
    <2>6. Sound(b) /\ Kept(f, b) /\ b.nested = f.nested /\ b.chan = f.chan
      <3>1. f.t.resp >= Body /\ Sent \in {Sending, Sent} /\ (f.must => f.chan # "open")
        BY <2>1, <2>5
      <3> QED
        BY <2>1, <2>3, <2>4, <3>1, BodySound
    <2>7. b.t.num = s.t.num /\ (b.nested = 0 \/ b.chan # "open") /\ Kept(s, b)
      <3>1. s.nested = 0 \/ s.chan # "open"
        BY <1>1 DEF Sound, Turns, SessionType
      <3> QED
        BY <2>1, <2>6, <3>1, KeptTransitive DEF Kept
    <2>8. Sound(q) /\ Kept(b, q)
      BY <2>2, <2>6, <2>7, EndSound
    <2> QED
      BY <2>7, <2>8, KeptTransitive DEF q
  <1> QED
    BY <1>1, <1>2, <1>3

LEMMA TokensSound ==
    ASSUME NEW s, Sound(s)
    PROVE  Sound(SendTokens(s)) /\ Kept(s, SendTokens(s))
  <1> DEFINE a == SendStatus(s, 200)
             b == IF a.t.resp = Headers THEN a ELSE Shutdown(a)
  <1>1. Sound(a) /\ Kept(s, a)
    BY StatusSound
  <1>2. SendTokens(s) = SendBody(b, s.t.num)
    BY DEF SendTokens
  <1> HIDE DEF a
  <1>3. Sound(b) /\ Kept(a, b) /\ (b.t.resp = Headers \/ b.chan # "open")
    BY <1>1, ShutdownSound DEF Kept
  <1> HIDE DEF b
  <1>4. Kept(s, b) /\ b.t.num = s.t.num
    BY <1>1, <1>3, KeptTransitive DEF Kept
  <1> QED
    BY <1>2, <1>3, <1>4, SendBodySound, KeptTransitive

LEMMA StreamSound ==
    ASSUME NEW s, Sound(s), ~s.must
    PROVE  LET q == SendStream(SendStatus(s, 200), s.t.num) IN Sound(q) /\ Kept(s, q)
  <1> DEFINE a == SendStatus(s, 200)
             f == FlushHeaders(a, s.t.num)
             q == SendStream(a, s.t.num)
  <1>1. /\ Sound(a) /\ Kept(s, a) /\ a.t.resp >= Headers
        /\ a.t.resp = Headers \/ a.chan # "open"
    BY StatusSound
  <1>2. ~a.must
    BY ShutdownSound DEF SendStatus, Shutdown, Sound, SessionType
  <1> HIDE DEF a
  <1>3. a.t.num = s.t.num /\ ~(a.t.resp < Headers)
    BY <1>1 DEF Kept, Sound, SessionType, TransactionType
  <1>4. q = [f EXCEPT !.t.resp = Sending, !.nested = 2]
    BY <1>3 DEF SendStream
  <1>5. Sound(f) /\ Kept(a, f) /\ f.t.resp = Body /\ f.must = a.must
    BY <1>1, <1>3, FlushSound
  <1> HIDE DEF f, q
  <1>6. Sound(q) /\ Kept(f, q)
    <2>1. /\ f.t.resp >= Body /\ Sending \in {Sending, Sent} /\ 2 \in 0..2
          /\ f.must => f.chan # "open"
      BY <1>2, <1>5
    <2> QED
      BY <1>4, <1>5, <2>1, BodySound
  <1> QED
    BY <1>1, <1>5, <1>6, KeptTransitive DEF q, a
(***************************************************************************)
(* The operations of the parser.                                           *)
(***************************************************************************)

\* What does not touch the transaction and its responses.
LEMMA AlikeSound ==
    ASSUME NEW s, Sound(s), NEW q \in SessionType,
           q.t = s.t, q.sent = s.sent, q.stored = s.stored, q.made = s.made,
           q.must = s.must, q.ops = s.ops, q.chan = s.chan, q.cons = s.cons,
           q.nested <= s.nested, q.waits => s.waits /\ (s.wake => q.wake)
    PROVE  Sound(q)
  <1>1. q.nested > 0 => s.nested > 0
    BY DEF Sound, SessionType
  <1>2. Ordered(q)
    BY DEF Sound, Ordered
  <1>3. Stored(q)
    BY DEF Sound, Stored
  <1>4. Turns(q)
    BY <1>1 DEF Sound, Turns
  <1> QED
    BY <1>2, <1>3, <1>4 DEF Sound

LEMMA ErrorSound ==
    ASSUME NEW s, Sound(s), NEW code \in {400, 500}
    PROVE  LET q == ProcessError(s, code)
           IN /\ Sound(q) /\ Kept(s, q)
              /\ s.t.writer # "none" \/ s.t.resp = Unsaid => ~q.cons /\ q.t.resp # Unsaid
              /\ s.t.writer = "none" /\ s.t.resp # Unsaid => q = s
  <1> DEFINE e == OnEnd(s, FALSE)
             q == ProcessError(s, code)
  <1>1. CASE s.t.writer = "none"
    <2>1. e = s
      BY <1>1 DEF OnEnd
    <2>2. CASE s.t.resp = Unsaid
      <3>1. q = Refused(s, code)
        BY <2>1, <2>2 DEF ProcessError, Refused
      <3> HIDE DEF q
      <3>2. Sound(q) /\ Kept(s, q) /\ ~q.cons /\ q.t.resp # Unsaid
        BY <3>1, RefusedSound
      <3> QED
        BY <2>2, <3>2 DEF q
    <2>3. CASE s.t.resp # Unsaid
      BY <1>1, <2>1, <2>3, ZenonT(60) DEF ProcessError, Kept
    <2> QED
      BY <2>2, <2>3
  <1>2. CASE s.t.writer # "none"
    <2>1. e = Refused(s, 500)
      BY <1>2 DEF OnEnd, Refused
    <2> HIDE DEF e
    <2>2. Sound(e) /\ Kept(s, e) /\ e.t.resp # Unsaid /\ ~e.cons
      BY <2>1, RefusedSound
    <2>3. q = e
      BY <2>2 DEF ProcessError, e
    <2> QED
      BY <1>2, <2>2, <2>3
  <1> QED
    BY <1>1, <1>2

LEMMA EndOfMessageSound ==
    ASSUME NEW s, Sound(s),
           Whole(kinds[s.t.num]) /\ s.t.writer = "file" /\ s.t.resp = Unsaid => s.stored[s.t.num] = 2
    PROVE  LET q == EndOfMessage(s)
           IN /\ Sound(q) /\ q.t.got /\ q.t.num = s.t.num /\ q.p = NewParser
              /\ q.cons => s.cons
  <1> DEFINE t == [s.t EXCEPT !.got = TRUE]
             a == Turned(s, t, NewParser)
             b == OnEnd(a, TRUE)
  <1>1. s \in SessionType /\ Ordered(s) /\ Stored(s) /\ Turns(s)
    BY DEF Sound
  <1>2. EndOfMessage(s) = Accept(b)
    <2>1. a = [s EXCEPT !.p = NewParser, !.t.got = TRUE]
      BY <1>1 DEF SessionType, Turned
    <2> QED
      BY <2>1 DEF EndOfMessage
  <1>3. /\ t \in TransactionType /\ t.resp = s.t.resp /\ t.code = s.t.code /\ t.got
        /\ t.num = s.t.num /\ t.writer = s.t.writer /\ t.wants = s.t.wants
    <2>1. s.t \in TransactionType
      BY <1>1 DEF SessionType
    <2>2. t \in TransactionType
      BY <2>1 DEF TransactionType
    <2> QED
      BY <2>1, <2>2 DEF TransactionType
  <1>4. NewParser \in ParserType
    BY DEF NewParser, ParserType
  <1> HIDE DEF t, a
  <1>5. /\ Sound(a) /\ a.t = t /\ a.p = NewParser /\ a.stored = s.stored /\ a.cons = s.cons
    BY <1>3, <1>4, TurnedSound DEF a
  <1>6. a \in SessionType
    BY <1>5 DEF Sound
  <1>7. Sound(b) /\ b.t.got /\ b.t.num = s.t.num /\ b.p = NewParser /\ (b.cons => s.cons)
    <2>1. CASE s.t.writer = "none"
      <3>1. b = a
        BY <1>3, <1>5, <2>1 DEF OnEnd
      <3> QED
        BY <1>3, <1>5, <3>1
    <2>2. CASE s.t.writer = "file"
      <3>1. b = Reply(a, a.t.num, 204, FALSE)
        BY <1>3, <1>5, <2>2 DEF OnEnd
      <3> HIDE DEF b
      <3>2. Whole(kinds[a.t.num]) /\ 204 = 204 /\ a.t.resp = Unsaid => a.stored[a.t.num] = 2
        BY <1>3, <1>5, <2>2
      <3>3. Sound(b) /\ Kept(a, b)
        <4>1. 204 \in Nat \ {0} /\ FALSE \in BOOLEAN
          OBVIOUS
        <4> QED
          BY ONLY <1>5, <3>1, <3>2, <4>1, ReplySound
      <3> QED
        BY <1>3, <1>5, <3>3 DEF Kept
    <2>3. CASE s.t.writer = "string"
      <3>1. b = [a EXCEPT !.ops = @ \cup {a.made}]
        BY <1>3, <1>5, <2>3 DEF OnEnd
      <3> HIDE DEF b
      <3>2. /\ b \in SessionType /\ b.t = a.t /\ b.sent = a.sent /\ b.p = a.p
            /\ b.nested = a.nested /\ b.chan = a.chan /\ b.cons = a.cons /\ b.must = a.must
            /\ b.waits = a.waits /\ b.wake = a.wake
            /\ b.made = a.made /\ b.stored = a.stored /\ b.ops = a.ops \cup {a.made}
        BY <1>6, <3>1 DEF SessionType
      <3>3. Ordered(b)
        BY <1>5, <3>2 DEF Sound, Ordered
      <3>4. Stored(b)
        BY <1>5, <3>2 DEF Sound, Stored
      <3>5. Turns(b)
        <4>1. a.made \in Nat \ {0} /\ a.ops \subseteq 1 .. a.made
          BY <1>5 DEF Sound, SessionType, TransactionType, Turns, Requests
        <4>2. b.ops \subseteq 1 .. b.made
          BY <3>2, <4>1
        <4> QED
          BY <1>3, <1>5, <3>2, <4>2 DEF Sound, Turns
      <3> QED
        BY <1>3, <1>5, <3>2, <3>3, <3>4, <3>5 DEF Sound
    <2> QED
      BY <1>1, <2>1, <2>2, <2>3 DEF SessionType, TransactionType
  <1> HIDE DEF b
  <1>8. Sound(Accept(b)) /\ Kept(b, Accept(b))
    BY <1>7, AcceptSound
  <1> QED
    BY <1>2, <1>7, <1>8 DEF Kept
(***************************************************************************)
(* The pieces of the requests, and the parser before each of them.         *)
(***************************************************************************)

LEMMA Lengths ==
    ASSUME NEW k \in Kinds
    PROVE  /\ Len(Message[k]) \in 1 .. 6
           /\ DOMAIN Message[k] = 1 .. Len(Message[k])
           /\ k \in {"get", "last"} =>
                 /\ Len(Message[k]) = 2
                 /\ Message[k][1] = "start" /\ Message[k][2] = "end"
           /\ k = "put" =>
                 /\ Len(Message[k]) = 4
                 /\ Message[k][1] = "start" /\ Message[k][2] = "end" /\ Message[k][3] = "data"
                 /\ Message[k][4] = "data"
           /\ k = "chunked" =>
                 /\ Len(Message[k]) = 6
                 /\ Message[k][1] = "start" /\ Message[k][2] = "end" /\ Message[k][3] = "data"
                 /\ Message[k][4] = "data" /\ Message[k][5] = "zero" /\ Message[k][6] = "end"
           /\ k = "badline" =>
                 /\ Len(Message[k]) = 3
                 /\ Message[k][1] = "start" /\ Message[k][2] = "bad" /\ Message[k][3] = "end"
           /\ k = "badchunk" =>
                 /\ Len(Message[k]) = 5
                 /\ Message[k][1] = "start" /\ Message[k][2] = "end" /\ Message[k][3] = "bad"
                 /\ Message[k][4] = "zero" /\ Message[k][5] = "end"
           /\ k = "junk" =>
                 /\ Len(Message[k]) = 1
                 /\ Message[k][1] = "junk"
           /\ k \in {"get", "last", "put", "chunked", "badline", "badchunk", "junk"}
  <1>1. k \in {"get", "last", "put", "chunked", "badline", "badchunk", "junk"}
    BY KindsAssumption DEF Message
  <1>2. CASE k = "get" \/ k = "last"
    <2>1. Message[k] = <<"start", "end">>
      BY <1>2 DEF Message
    <2> QED
      BY <1>2, <2>1
  <1>3. CASE k = "put"
    <2>1. Message[k] = <<"start", "end", "data", "data">>
      BY <1>3 DEF Message
    <2> QED
      BY <1>3, <2>1
  <1>4. CASE k = "chunked"
    <2>1. Message[k] = <<"start", "end", "data", "data", "zero", "end">>
      BY <1>4 DEF Message
    <2> QED
      BY <1>4, <2>1
  <1>5. CASE k = "badline"
    <2>1. Message[k] = <<"start", "bad", "end">>
      BY <1>5 DEF Message
    <2> QED
      BY <1>5, <2>1
  <1>6. CASE k = "badchunk"
    <2>1. Message[k] = <<"start", "end", "bad", "zero", "end">>
      BY <1>6 DEF Message
    <2> QED
      BY <1>6, <2>1
  <1>7. CASE k = "junk"
    <2>1. Message[k] = <<"junk">>
      BY <1>7 DEF Message
    <2> QED
      BY <1>7, <2>1
  <1> QED
    BY <1>1, <1>2, <1>3, <1>4, <1>5, <1>6, <1>7

LEMMA LengthOf ==
    ASSUME NEW k \in Kinds
    PROVE  /\ Len(Message[k]) \in 1 .. 6 /\ DOMAIN Message[k] = 1 .. Len(Message[k])
           /\ k \in {"get", "last"} => Len(Message[k]) = 2
           /\ k = "put" => Len(Message[k]) = 4
           /\ k = "chunked" => Len(Message[k]) = 6
           /\ k = "badchunk" => Len(Message[k]) = 5
  BY Lengths, SMTT(30)

LEMMA PiecesOf ==
    ASSUME NEW k \in Kinds, NEW j \in DOMAIN Message[k], NEW x, x = Message[k][j]
    PROVE  /\ j \in 1 .. Len(Message[k]) /\ Len(Message[k]) \in 1 .. 6
           /\ \/ /\ k \in {"get", "last"} /\ Len(Message[k]) = 2
                 /\ \/ j = 1 /\ x = "start"
                    \/ j = 2 /\ x = "end"
              \/ /\ k = "put" /\ Len(Message[k]) = 4
                 /\ \/ j = 1 /\ x = "start"
                    \/ j = 2 /\ x = "end"
                    \/ j \in {3, 4} /\ x = "data"
              \/ /\ k = "chunked" /\ Len(Message[k]) = 6
                 /\ \/ j = 1 /\ x = "start"
                    \/ j = 2 /\ x = "end"
                    \/ j \in {3, 4} /\ x = "data"
                    \/ j = 5 /\ x = "zero"
                    \/ j = 6 /\ x = "end"
              \/ /\ k = "badline" /\ Len(Message[k]) = 3
                 /\ \/ j = 1 /\ x = "start"
                    \/ j = 2 /\ x = "bad"
                    \/ j = 3 /\ x = "end"
              \/ /\ k = "badchunk" /\ Len(Message[k]) = 5
                 /\ \/ j = 1 /\ x = "start"
                    \/ j = 2 /\ x = "end"
                    \/ j = 3 /\ x = "bad"
                    \/ j = 4 /\ x = "zero"
                    \/ j = 5 /\ x = "end"
              \/ /\ k = "junk" /\ Len(Message[k]) = 1
                 /\ j = 1 /\ x = "junk"
  <1>1. k \in {"get", "last", "put", "chunked", "badline", "badchunk", "junk"}
    BY Lengths
  <1>2. j \in 1 .. Len(Message[k]) /\ Len(Message[k]) \in 1 .. 6
    BY Lengths
  <1>3. CASE k \in {"get", "last"}
    <2>1. Len(Message[k]) = 2 /\ Message[k][1] = "start" /\ Message[k][2] = "end"
      BY <1>3, Lengths
    <2> QED
      BY <1>2, <1>3, <2>1
  <1>4. CASE k = "put"
    <2>1. /\ Len(Message[k]) = 4
          /\ Message[k][1] = "start" /\ Message[k][2] = "end" /\ Message[k][3] = "data"
          /\ Message[k][4] = "data"
      BY <1>4, Lengths
    <2>2. j = 1 \/ j = 2 \/ j = 3 \/ j = 4
      BY <1>2, <2>1
    <2> QED
      BY <1>2, <1>4, <2>1, <2>2
  <1>5. CASE k = "chunked"
    <2>1. /\ Len(Message[k]) = 6
          /\ Message[k][1] = "start" /\ Message[k][2] = "end" /\ Message[k][3] = "data"
          /\ Message[k][4] = "data" /\ Message[k][5] = "zero" /\ Message[k][6] = "end"
      BY <1>5, Lengths
    <2>2. j = 1 \/ j = 2 \/ j = 3 \/ j = 4 \/ j = 5 \/ j = 6
      BY <1>2, <2>1
    <2> QED
      BY <1>2, <1>5, <2>1, <2>2
  <1>6. CASE k = "badline"
    <2>1. /\ Len(Message[k]) = 3
          /\ Message[k][1] = "start" /\ Message[k][2] = "bad" /\ Message[k][3] = "end"
      BY <1>6, Lengths
    <2>2. j = 1 \/ j = 2 \/ j = 3
      BY <1>2, <2>1
    <2> QED
      BY <1>2, <1>6, <2>1, <2>2
  <1>7. CASE k = "badchunk"
    <2>1. /\ Len(Message[k]) = 5
          /\ Message[k][1] = "start" /\ Message[k][2] = "end" /\ Message[k][3] = "bad"
          /\ Message[k][4] = "zero" /\ Message[k][5] = "end"
      BY <1>7, Lengths
    <2>2. j = 1 \/ j = 2 \/ j = 3 \/ j = 4 \/ j = 5
      BY <1>2, <2>1
    <2> QED
      BY <1>2, <1>7, <2>1, <2>2
  <1>8. CASE k = "junk"
    <2>1. /\ Len(Message[k]) = 1
          /\ Message[k][1] = "junk"
      BY <1>8, Lengths
    <2>2. j = 1
      BY <1>2, <2>1
    <2> QED
      BY <1>2, <1>8, <2>1, <2>2
  <1> QED
    BY <1>1, <1>3, <1>4, <1>5, <1>6, <1>7, <1>8

LEMMA PositionsAre ==
    ASSUME kinds \in [Requests -> Kinds], NEW u \in Positions, u # End
    PROVE  /\ u = <<u[1], u[2]>> /\ u[1] \in Requests /\ kinds[u[1]] \in Kinds
           /\ u[2] \in DOMAIN Message[kinds[u[1]]]
  BY DEF Positions, Requests

\* The parser does not overtake the client.
LEMMA FollowingOrdered ==
    ASSUME kinds \in [Requests -> Kinds], NEW u \in Positions, u # End
    PROVE  /\ Following(u) \in Positions /\ NotBefore(Following(u), u)
           /\ \A v \in Positions : NotBefore(v, u) /\ v # u => NotBefore(v, Following(u))
  <1>1. /\ u = <<u[1], u[2]>> /\ u[1] \in Requests /\ kinds[u[1]] \in Kinds
        /\ u[2] \in DOMAIN Message[kinds[u[1]]]
    BY PositionsAre
  <1> DEFINE l == Len(Message[kinds[u[1]]])
             f == Following(u)
  <1>2. u[2] \in 1 .. l /\ l \in 1 .. 6 /\ DOMAIN Message[kinds[u[1]]] = 1 .. l
    BY <1>1, Lengths
  <1>3. f = IF u[2] < l THEN <<u[1], u[2] + 1>> ELSE <<u[1] + 1, 1>>
    BY DEF Following
  <1>4. MaxRequests \in Nat /\ MaxRequests >= 1
    BY BoundsAssumption
  <1>5. f \in Positions
    <2>1. CASE u[2] < l
      <3>1. f = <<u[1], u[2] + 1>> /\ u[2] + 1 \in 1 .. l /\ u[2] + 1 \in 1 .. 6
        <4>1. f = <<u[1], u[2] + 1>>
          BY <1>3, <2>1
        <4> HIDE DEF f, l
        <4> QED
          BY <1>2, <2>1, <4>1
      <3> QED
        BY <1>1, <1>2, <3>1 DEF Positions
    <2>2. CASE ~(u[2] < l)
      <3>1. f = <<u[1] + 1, 1>>
        BY <1>3, <2>2
      <3>2. CASE u[1] = MaxRequests
        BY <3>1, <3>2 DEF Positions, End
      <3>3. CASE u[1] # MaxRequests
        <4>1. u[1] + 1 \in Requests
          BY <1>1, <1>4, <3>3 DEF Requests
        <4>2. 1 \in DOMAIN Message[kinds[u[1] + 1]] /\ 1 \in 1 .. 6
          BY <4>1, KindsAssumption DEF Message
        <4> QED
          BY <3>1, <4>1, <4>2 DEF Positions
      <3> QED
        BY <3>2, <3>3
    <2> QED
      BY <2>1, <2>2
  <1>6. ASSUME NEW v \in Positions
        PROVE  v = <<v[1], v[2]>> /\ v[1] \in Nat /\ v[2] \in Nat /\ v[2] >= 1
               /\ (v[1] = u[1] => v[2] <= l)
    <2>1. CASE v = End
      BY <1>1, <1>4, <2>1 DEF End, Requests
    <2>2. CASE v # End
      BY <1>1, <1>2, <2>2 DEF Positions, Requests
    <2> QED
      BY <2>1, <2>2
  <1>7. NotBefore(f, u)
    BY <1>1, <1>2, <1>3 DEF NotBefore, Requests
  <1>8. ASSUME NEW v \in Positions, NotBefore(v, u), v # u
        PROVE  NotBefore(v, f)
    BY <1>1, <1>2, <1>3, <1>6, <1>8 DEF NotBefore, Requests
  <1> QED
    BY <1>5, <1>7, <1>8
\* What a handler does with a request whose head has been read: it has
\* responded, or it waits for the body.
LEMMA HandleSound ==
    ASSUME NEW s, Sound(s), ~s.t.got, s.t.resp = Unsaid, s.t.writer = "none", s.p.left = 0,
           NEW h \in Handlers(kinds[s.t.num])
    PROVE  LET q == Handle(s, h)
           IN /\ Sound(q) /\ ~q.t.got /\ q.t.num = s.t.num /\ q.stored = s.stored
              /\ q.p.left = 0 /\ (q.cons => s.cons)
              /\ q.t.writer # "none" => q.t.resp = Unsaid /\ q.p.eats
              /\ kinds[s.t.num] \in {"get", "last"} => q.t.writer = "none"
  <1> DEFINE q == Handle(s, h)
  <1>1. /\ s \in SessionType /\ s.t \in TransactionType /\ s.p \in ParserType
        /\ s.t.num \in Requests
    BY DEF Sound, SessionType, TransactionType
  <1>2. h \in {"now", "close", "stream", "file", "auth"}
    BY DEF Handlers
  <1>3. ~s.must
    BY DEF Sound, Turns
  <1>4. CASE Sound(q) /\ Kept(s, q)
    BY <1>4 DEF Kept
  <1>5. CASE h = "now"
    <2>1. q = Told(s, 404)
      BY <1>5 DEF Handle, Told
    <2> QED
      BY <1>4, <2>1, RefusedSound
  <1>6. CASE h = "close"
    <2>1. q = Refused(s, 400)
      BY <1>6 DEF Handle, Refused
    <2> QED
      BY <1>4, <2>1, RefusedSound
  <1>7. CASE h = "stream"
    <2>1. q = SendStream(SendStatus(s, 200), s.t.num)
      BY <1>7 DEF Handle
    <2> QED
      BY <1>3, <1>4, <2>1, StreamSound
  <1>8. CASE h \in {"file", "auth"}
    <2> PICK w \in {"file", "string"} : w = IF h = "file" THEN "file" ELSE "string"
      OBVIOUS
    <2> DEFINE t == [s.t EXCEPT !.writer = w]
               p == [s.p EXCEPT !.eats = TRUE, !.left = 0]
    <2>1. q = [s EXCEPT !.t.writer = w, !.p.eats = TRUE, !.p.left = 0]
      BY <1>8 DEF Handle
    <2>2. q = Turned(s, t, p)
      BY <1>1, <2>1 DEF SessionType, Turned
    <2>3. /\ t \in TransactionType /\ t.resp = s.t.resp /\ t.code = s.t.code /\ t.got = s.t.got
          /\ t.num = s.t.num /\ t.wants = s.t.wants /\ t.writer = w
      BY <1>1 DEF TransactionType
    <2>4. p \in ParserType /\ p.left = 0 /\ p.eats
      <3>1. 0 \in 0..2 /\ TRUE \in BOOLEAN
        OBVIOUS
      <3> QED
        BY <1>1, <3>1 DEF ParserType
    <2> HIDE DEF t, p, q
    <2>5. /\ Sound(q) /\ q.t = t /\ q.p = p /\ q.stored = s.stored /\ q.cons = s.cons
      BY <2>2, <2>3, <2>4, TurnedSound
    <2>6. kinds[s.t.num] \notin {"get", "last"}
      BY <1>8 DEF Handlers
    <2> QED
      BY <2>3, <2>4, <2>5, <2>6 DEF q
  <1> QED
    BY <1>2, <1>5, <1>6, <1>7, <1>8

\* A write of a part of the body.
LEMMA WroteSound ==
    ASSUME NEW s, Sound(s), s.cons, s.t.writer # "none" => s.t.resp = Unsaid,
           NEW n \in 0 .. s.p.left
    PROVE  LET q == Wrote(s, n)
           IN /\ Sound(q) /\ q.t = s.t /\ q.cons = s.cons
              /\ q.p \in ParserType /\ q.p.at = s.p.at /\ q.p.rem = s.p.rem /\ q.p.eats = s.p.eats
              /\ q.p.left = s.p.left - n
              /\ q.stored[s.t.num] =
                    s.stored[s.t.num] + (IF s.t.writer = "file" THEN n ELSE 0)
  <1> DEFINE q == Wrote(s, n)
             r == s.t.num
             m == IF s.t.writer = "file" THEN s.stored[r] + n ELSE s.stored[r]
             p == [s.p EXCEPT !.left = @ - n]
             new == [s.stored EXCEPT ![r] = m]
  <1>1. /\ s \in SessionType /\ s.t \in TransactionType /\ s.p \in ParserType
        /\ r \in Requests /\ s.stored \in [Requests -> Nat] /\ Requests \subseteq Nat
    BY DEF Sound, SessionType, TransactionType, Requests
  <1>2. q = [s EXCEPT !.p = p, !.stored = new]
    BY <1>1 DEF Wrote, SessionType
  <1>3. n \in Nat /\ m \in Nat /\ s.p.left \in 0..2 /\ s.p.left - n \in 0..2
    <2>1. s.p.left \in 0..2
      BY <1>1 DEF ParserType
    <2>2. n \in Nat /\ s.p.left - n \in 0..2
      BY <2>1
    <2>3. s.stored[r] \in Nat
      BY <1>1
    <2> QED
      BY <2>1, <2>2, <2>3
  <1>4. /\ p \in ParserType /\ p.at = s.p.at /\ p.rem = s.p.rem /\ p.left = s.p.left - n
        /\ p.eats = s.p.eats
    BY <1>1, <1>3 DEF ParserType
  <1>5. /\ new \in [Requests -> Nat] /\ new[r] = m
        /\ \A i \in Requests : i # r => new[i] = s.stored[i]
        /\ s.t.writer # "file" => new = s.stored
    BY <1>1, <1>3
  <1>6. m = s.stored[r] + (IF s.t.writer = "file" THEN n ELSE 0)
    BY <1>1, <1>3
  <1> HIDE DEF p, new, q, m
  <1>7. /\ q \in SessionType /\ q.p = p /\ q.stored = new /\ q.t = s.t /\ q.must = s.must
        /\ q.cons = s.cons /\ q.chan = s.chan /\ q.sent = s.sent /\ q.ops = s.ops
        /\ q.made = s.made /\ q.nested = s.nested /\ q.waits = s.waits /\ q.wake = s.wake
    BY <1>1, <1>2, <1>4, <1>5 DEF SessionType
  <1>8. Ordered(q) /\ Turns(q)
    BY <1>7 DEF Sound, Ordered, Turns
  <1>9. Stored(q)
    <2>1. CASE s.t.writer # "file"
      BY <1>5, <1>7, <2>1 DEF Sound, Stored
    <2>2. CASE s.t.writer = "file"
      <3>1. s.t.resp = Unsaid
        BY <2>2
      <3>2. s.sent \in Seq(ResponseType) /\ Len(s.sent) = r - 1 /\ s.t.code = 0
        BY <1>1, <3>1 DEF Sound, SessionType, TransactionType, Ordered
      <3>3. \A i \in DOMAIN s.sent : i \in Requests /\ i # r
        <4>1. DOMAIN s.sent = 1 .. r - 1 /\ r \in 1 .. MaxRequests /\ MaxRequests \in Nat
          BY <1>1, <3>2, BoundsAssumption DEF Requests
        <4> QED
          BY <4>1 DEF Requests
      <3>4. \A i \in Requests : i > r => i # r
        <4>1. r \in Nat
          BY <1>1
        <4> QED
          BY <4>1 DEF Requests
      <3> QED
        BY <1>5, <1>7, <3>2, <3>3, <3>4 DEF Sound, Stored
    <2> QED
      BY <2>1, <2>2
  <1> QED
    BY <1>4, <1>5, <1>6, <1>7, <1>8, <1>9 DEF Sound, q
\* The parser of s is about to read x, piece j of a request of kind k.
About(s, k, j, x) ==
    /\ Sound(s) /\ s.cons /\ ~s.t.got
    /\ kinds \in [Requests -> Kinds] /\ used \in Positions /\ used # End
    /\ used = <<s.t.num, j>> /\ k = kinds[s.t.num] /\ x = Message[k][j]
    /\ Stage(k, j, s.p, s.t.writer, s.stored[s.t.num])
    /\ s.t.writer # "none" => s.t.resp = Unsaid /\ s.p.eats
    /\ j < 3 => s.t.resp = Unsaid /\ s.t.writer = "none" /\ s.stored[s.t.num] = 0

LEMMA AboutIs ==
    ASSUME NEW s, NEW k, NEW j, NEW x, About(s, k, j, x)
    PROVE  /\ k \in Kinds /\ j \in DOMAIN Message[k] /\ j \in 1 .. 6
           /\ s \in SessionType /\ s.t \in TransactionType /\ s.p \in ParserType
           /\ s.stored[s.t.num] \in Nat /\ s.p.left \in 0 .. 2 /\ s.p.rem \in 0 .. 2
           /\ j < Len(Message[k]) => Following(used) = <<s.t.num, j + 1>>
           /\ j = Len(Message[k]) => Following(used) = <<s.t.num + 1, 1>>
  <1>1. /\ s \in SessionType /\ s.t \in TransactionType /\ s.p \in ParserType
        /\ s.stored \in [Requests -> Nat] /\ s.t.num \in Requests
        /\ s.p.left \in 0 .. 2 /\ s.p.rem \in 0 .. 2
    BY DEF About, Sound, SessionType, TransactionType, ParserType
  <1>2. used[1] = s.t.num /\ used[2] = j
    BY DEF About
  <1>3. k \in Kinds /\ j \in DOMAIN Message[k]
    BY <1>2, PositionsAre DEF About
  <1>4. j \in 1 .. Len(Message[k]) /\ Len(Message[k]) \in 1 .. 6
    BY <1>3, Lengths
  <1>5. Following(used) = IF j < Len(Message[k]) THEN <<s.t.num, j + 1>> ELSE <<s.t.num + 1, 1>>
    BY <1>2 DEF Following, About
  <1>6. j = Len(Message[k]) => ~(j < Len(Message[k]))
    BY <1>4
  <1> QED
    BY <1>1, <1>3, <1>4, <1>5, <1>6

\* In the body of a request, or behind it.
LEMMA BodyReading ==
    ASSUME NEW q, NEW n, NEW j \in 3 .. 6, q.t.num = n, ~q.t.got,
           Stage(kinds[n], j, q.p, q.t.writer, q.stored[n]),
           q.t.writer # "none" => q.t.resp = Unsaid /\ q.p.eats
    PROVE  Reading(q, <<n, j>>)
  <1>1. ~(j < 3)
    OBVIOUS
  <1> QED
    BY <1>1 DEF Reading

LEMMA StartRead ==
    ASSUME NEW s, NEW k, NEW j, About(s, k, j, "start"), s.p.at = "start"
    PROVE  LET q == StartLine(s, s.t.num, TRUE) IN Sound(q) /\ Reading(q, Following(used))
  <1> DEFINE q == StartLine(s, s.t.num, TRUE)
             c == kinds[s.t.num] = "last"
             t == [s.t EXCEPT !.num = s.t.num, !.closes = c]
             p == [s.p EXCEPT !.at = "headers"]
             a == Turned(s, t, p)
  <1>1. /\ k \in Kinds /\ j \in DOMAIN Message[k] /\ "start" = Message[k][j]
        /\ s \in SessionType /\ s.t \in TransactionType /\ s.p \in ParserType
        /\ j < Len(Message[k]) => Following(used) = <<s.t.num, j + 1>>
    BY AboutIs DEF About
  <1>2. j = 1 /\ s.p = NewParser
    <2>1. j \in 1 .. 6 /\ Stage(k, j, s.p, s.t.writer, s.stored[s.t.num])
      BY AboutIs DEF About
    <2> QED
      BY <2>1 DEF Stage
  <1>3. Following(used) = <<s.t.num, 2>>
    <2>1. Len(Message[k]) \in 2 .. 6
      BY <1>1, PiecesOf
    <2>2. j < Len(Message[k]) /\ j + 1 = 2
      <3>1. \A l \in 2 .. 6 : 1 < l /\ 1 + 1 = 2
        OBVIOUS
      <3> QED
        BY <1>2, <2>1, <3>1
    <2> QED
      BY <1>1, <2>2
  <1>4. q = [s EXCEPT !.keep = FALSE, !.act = TRUE, !.p = p, !.t = t]
    BY <1>1 DEF StartLine, SessionType
  <1>5. /\ t \in TransactionType /\ t.resp = s.t.resp /\ t.code = s.t.code /\ t.got = s.t.got
        /\ t.num = s.t.num /\ t.wants = s.t.wants /\ t.writer = s.t.writer
    <2>1. c \in BOOLEAN
      OBVIOUS
    <2> HIDE DEF c
    <2> QED
      BY <1>1, <2>1 DEF TransactionType
  <1>6. p \in ParserType /\ p.at = "headers" /\ p.left = 0
    <2>1. s.p.left = 0
      BY <1>2 DEF NewParser
    <2> QED
      BY <1>1, <2>1 DEF ParserType
  <1> HIDE DEF t, p, a, q
  <1>7. /\ Sound(a) /\ a.t = t /\ a.p = p /\ a.stored = s.stored
    BY <1>5, <1>6, TurnedSound DEF a, About
  <1>8. /\ q \in SessionType /\ q.t = a.t /\ q.p = a.p /\ q.stored = a.stored /\ q.must = a.must
        /\ q.cons = a.cons /\ q.chan = a.chan /\ q.sent = a.sent /\ q.ops = a.ops
        /\ q.made = a.made /\ q.nested = a.nested /\ q.waits = a.waits /\ q.wake = a.wake
        /\ q.nested <= a.nested
    <2>1. q \in SessionType
      BY <1>1, <1>4, <1>5, <1>6 DEF SessionType
    <2>2. /\ q.t = t /\ q.p = p /\ q.stored = s.stored /\ q.must = s.must
          /\ q.cons = s.cons /\ q.chan = s.chan /\ q.sent = s.sent /\ q.ops = s.ops
          /\ q.made = s.made /\ q.nested = s.nested /\ q.waits = s.waits /\ q.wake = s.wake
      BY <1>1, <1>4 DEF SessionType
    <2>3. /\ a.t = t /\ a.p = p /\ a.stored = s.stored /\ a.must = s.must
          /\ a.cons = s.cons /\ a.chan = s.chan /\ a.sent = s.sent /\ a.ops = s.ops
          /\ a.made = s.made /\ a.nested = s.nested /\ a.waits = s.waits /\ a.wake = s.wake
      BY <1>1 DEF SessionType, Turned, a
    <2>4. q.nested <= q.nested
      BY <2>1 DEF SessionType
    <2> QED
      BY <2>1, <2>2, <2>3, <2>4
  <1>9. Sound(q)
    BY <1>7, <1>8, AlikeSound
  <1>10. Stage(k, 2, q.p, q.t.writer, q.stored[q.t.num])
    BY <1>6, <1>7, <1>8 DEF Stage
  <1>11. Reading(q, <<s.t.num, 2>>)
    BY <1>2, <1>5, <1>7, <1>8, <1>10 DEF Reading, About
  <1> QED
    BY <1>3, <1>9, <1>11 DEF q

LEMMA BadRead ==
    ASSUME NEW s, NEW k, NEW j, About(s, k, j, "bad"), s.p.at # "start"
    PROVE  LET q == ProcessError(s, 400) IN Sound(q) /\ Reading(q, Following(used))
  <1> DEFINE q == ProcessError(s, 400)
  <1>1. /\ k \in Kinds /\ j \in DOMAIN Message[k] /\ "bad" = Message[k][j] /\ j \in 1 .. 6
        /\ j < Len(Message[k]) => Following(used) = <<s.t.num, j + 1>>
    BY AboutIs DEF About
  <1>2. /\ Sound(q)
        /\ s.t.writer # "none" \/ s.t.resp = Unsaid => ~q.cons
        /\ s.t.writer = "none" /\ s.t.resp # Unsaid => q = s
    BY ErrorSound DEF About
  <1> HIDE DEF q
  <1>3. CASE s.t.writer # "none" \/ s.t.resp = Unsaid
    BY <1>2, <1>3 DEF Reading, q
  <1>4. CASE s.t.writer = "none" /\ s.t.resp # Unsaid
    <2>1. q = s /\ j >= 3
      BY <1>1, <1>2, <1>4 DEF About
    <2>2. k = "badchunk" /\ j = 3 /\ Len(Message[k]) = 5
      BY <1>1, <2>1, PiecesOf
    <2>3. s.p.at = "size" /\ s.p.left = 0
      BY <2>2 DEF About, Stage
    <2>4. Stage(k, 4, s.p, s.t.writer, s.stored[s.t.num])
      BY <1>4, <2>2, <2>3 DEF Stage
    <2>5. Following(used) = <<s.t.num, 4>>
      BY <1>1, <2>2
    <2>6. Reading(s, <<s.t.num, 4>>)
      BY <1>4, <2>4 DEF About, Reading
    <2> QED
      BY <1>2, <2>1, <2>5, <2>6 DEF q
  <1> QED
    BY <1>3, <1>4
LEMMA HeadersRead ==
    ASSUME NEW s, NEW k, NEW j, About(s, k, j, "end"), s.p.at = "headers",
           NEW h \in Handlers(k)
    PROVE  LET q == EndOfHeaders(s, h) IN Sound(q) /\ Reading(q, Following(used))
  <1> DEFINE t == Handle(s, h)
             q == EndOfHeaders(s, h)
             n == s.t.num
  <1>1. /\ k \in Kinds /\ j \in DOMAIN Message[k] /\ "end" = Message[k][j] /\ j \in 1 .. 6
        /\ j < Len(Message[k]) => Following(used) = <<n, j + 1>>
        /\ j = Len(Message[k]) => Following(used) = <<n + 1, 1>>
        /\ k = kinds[n]
    BY AboutIs DEF About
  <1>2. j = 2 /\ s.p.left = 0
    <2>1. Stage(k, j, s.p, s.t.writer, s.stored[s.t.num])
      BY DEF About
    <2> QED
      BY <2>1 DEF Stage, NewParser
  <1>3. /\ \/ k \in {"get", "last"} /\ Len(Message[k]) = 2
           \/ k \in {"put", "chunked", "badchunk"} /\ Len(Message[k]) > 2
    <2>1. k \in {"get", "last", "put", "chunked", "badchunk"}
      BY <1>1, <1>2, PiecesOf
    <2>2. k \in {"get", "last"} => Len(Message[k]) = 2
      BY <1>1, LengthOf, SMTT(30)
    <2>3. CASE k = "put"
      <3>1. Len(Message[k]) = 4
        BY <1>1, <2>3, LengthOf, SMTT(30)
      <3> QED
        BY <2>3, <3>1
    <2>4. CASE k = "chunked"
      <3>1. Len(Message[k]) = 6
        BY <1>1, <2>4, LengthOf, SMTT(30)
      <3> QED
        BY <2>4, <3>1
    <2>5. CASE k = "badchunk"
      <3>1. Len(Message[k]) = 5
        BY <1>1, <2>5, LengthOf, SMTT(30)
      <3> QED
        BY <2>5, <3>1
    <2> QED
      BY <2>1, <2>2, <2>3, <2>4, <2>5
  <1>4. /\ Sound(s) /\ ~s.t.got /\ s.cons
        /\ s.t.resp = Unsaid /\ s.t.writer = "none" /\ s.stored[n] = 0
    BY <1>2 DEF About
  <1>5. /\ Sound(t) /\ ~t.t.got /\ t.t.num = n /\ t.stored = s.stored
        /\ t.p.left = 0
        /\ t.t.writer # "none" => t.t.resp = Unsaid /\ t.p.eats
        /\ k \in {"get", "last"} => t.t.writer = "none"
    BY <1>1, <1>2, <1>4, HandleSound
  <1> HIDE DEF t
  <1>6. CASE k \in {"get", "last"}
    <2>1. q = EndOfMessage(t) /\ Following(used) = <<n + 1, 1>>
      BY <1>1, <1>2, <1>3, <1>6 DEF EndOfHeaders, t
    <2> HIDE DEF q
    <2>2. Sound(q) /\ q.t.got /\ q.t.num = n /\ q.p = NewParser
      BY <1>5, <1>6, <2>1, EndOfMessageSound
    <2> QED
      BY <2>1, <2>2 DEF Reading, q
  <1>7. CASE k \in {"put", "chunked", "badchunk"}
    <2> DEFINE p == IF k = "put" THEN [t.p EXCEPT !.at = "body", !.rem = 2]
                    ELSE [t.p EXCEPT !.at = "size"]
    <2>1. t \in SessionType /\ t.p \in ParserType
      BY <1>5 DEF Sound, SessionType
    <2>2. q = [t EXCEPT !.p = p]
      BY <1>1, <1>7, <2>1 DEF EndOfHeaders, t, SessionType
    <2>3. /\ p \in ParserType /\ p.left = 0 /\ (t.p.eats => p.eats)
          /\ k = "put" => p.at = "body" /\ p.rem = 2
          /\ k # "put" => p.at = "size"
      <3>1. CASE k = "put"
        <4>1. 2 \in 0 .. 2
          OBVIOUS
        <4> QED
          BY <1>5, <2>1, <3>1, <4>1 DEF ParserType
      <3>2. CASE k # "put"
        BY <1>5, <2>1, <3>2 DEF ParserType
      <3> QED
        BY <3>1, <3>2
    <2> HIDE DEF p, q
    <2>4. Sound(q) /\ q.t = t.t /\ q.p = p /\ q.stored = s.stored
      BY <1>5, <2>2, <2>3, MovedSound
    <2>5. Following(used) = <<n, 3>>
      <3>1. j < Len(Message[k]) /\ j + 1 = 3
        BY <1>2, <1>3, <1>7
      <3> QED
        BY <1>1, <3>1
    <2>6. Stage(k, 3, q.p, q.t.writer, q.stored[n])
      BY <1>4, <1>7, <2>3, <2>4 DEF Stage
    <2>7. q.t.num = n /\ ~q.t.got /\ (q.t.writer # "none" => q.t.resp = Unsaid /\ q.p.eats)
      BY <1>5, <2>3, <2>4
    <2>8. Reading(q, <<n, 3>>)
      <3>1. 3 \in 3 .. 6 /\ k = kinds[n]
        BY <1>1
      <3> QED
        BY <2>6, <2>7, <3>1, BodyReading
    <2> QED
      BY <2>4, <2>5, <2>8 DEF q
  <1> QED
    BY <1>3, <1>6, <1>7

LEMMA TrailerRead ==
    ASSUME NEW s, NEW k, NEW j, About(s, k, j, "end"), s.p.at = "trailer"
    PROVE  LET q == EndOfMessage(s) IN Sound(q) /\ Reading(q, Following(used))
  <1> DEFINE q == EndOfMessage(s)
             n == s.t.num
  <1>1. /\ k \in Kinds /\ j \in DOMAIN Message[k] /\ "end" = Message[k][j] /\ j \in 1 .. 6
        /\ j = Len(Message[k]) => Following(used) = <<n + 1, 1>>
        /\ s.stored[n] \in Nat
    BY AboutIs DEF About
  <1>2. /\ \/ k = "chunked" /\ j = 6
           \/ k = "badchunk" /\ j = 5
        /\ s.t.writer = "file" => s.stored[n] = 2
    <2>1. Stage(k, j, s.p, s.t.writer, s.stored[n])
      BY DEF About
    <2> QED
      BY <1>1, <2>1 DEF Stage, NewParser
  <1>3. Following(used) = <<n + 1, 1>>
    BY <1>1, <1>2, LengthOf
  <1>4. Sound(q) /\ q.t.got /\ q.t.num = n /\ q.p = NewParser
    BY <1>2, EndOfMessageSound DEF About
  <1> HIDE DEF q
  <1> QED
    BY <1>3, <1>4 DEF Reading, q

LEMMA ZeroRead ==
    ASSUME NEW s, NEW k, NEW j, About(s, k, j, "zero")
    PROVE  LET q == ZeroChunk(s) IN Sound(q) /\ Reading(q, Following(used))
  <1> DEFINE q == ZeroChunk(s)
             n == s.t.num
             p == [s.p EXCEPT !.at = IF s.p.left = 0 THEN "trailer" ELSE "finish"]
  <1>1. /\ k \in Kinds /\ j \in DOMAIN Message[k] /\ "zero" = Message[k][j] /\ j \in 1 .. 6
        /\ j < Len(Message[k]) => Following(used) = <<n, j + 1>>
        /\ s \in SessionType /\ s.p \in ParserType /\ s.stored[n] \in Nat /\ s.p.left \in 0 .. 2
    BY AboutIs DEF About
  <1>2. \/ k = "chunked" /\ j = 5
        \/ k = "badchunk" /\ j = 4
    BY <1>1, PiecesOf
  <1>3. Following(used) = <<n, j + 1>>
    <2>1. j < Len(Message[k])
      BY <1>1, <1>2, Lengths
    <2> QED
      BY <1>1, <2>1
  <1>4. /\ k = "chunked" /\ s.t.writer = "file" => s.stored[n] + s.p.left = 2
        /\ k = "badchunk" => s.p.left = 0 /\ s.t.writer = "none"
    <2>1. Stage(k, j, s.p, s.t.writer, s.stored[n])
      BY DEF About
    <2> QED
      BY <1>2, <2>1 DEF Stage, NewParser
  <1>5. q = [s EXCEPT !.p = p]
    BY <1>1 DEF ZeroChunk, SessionType
  <1>6. /\ p \in ParserType /\ p.left = s.p.left /\ (s.p.eats => p.eats)
        /\ p.at = IF s.p.left = 0 THEN "trailer" ELSE "finish"
    BY <1>1 DEF ParserType
  <1> HIDE DEF p, q
  <1>7. Sound(q) /\ q.t = s.t /\ q.p = p /\ q.stored = s.stored
    BY <1>5, <1>6, MovedSound DEF About
  <1>8. Stage(k, j + 1, q.p, q.t.writer, q.stored[n])
    BY <1>2, <1>4, <1>6, <1>7 DEF Stage
  <1>9. q.t.num = n /\ ~q.t.got /\ (q.t.writer # "none" => q.t.resp = Unsaid /\ q.p.eats)
    BY <1>6, <1>7 DEF About
  <1>10. j + 1 \in 3 .. 6 /\ k = kinds[n]
    BY <1>2 DEF About
  <1>11. Reading(q, <<n, j + 1>>)
    BY <1>8, <1>9, <1>10, BodyReading
  <1> QED
    BY <1>3, <1>7, <1>11 DEF q
LEMMA WritesAre ==
    ASSUME NEW s, s.p.left \in 0 .. 2, NEW w \in Writes(s)
    PROVE  /\ w.n \in 0 .. s.p.left /\ w.fails \in BOOLEAN
           /\ w.fails => s.t.writer = "file"
           /\ ~w.fails /\ (s.t.writer = "file" => kinds[s.t.num] \notin ShortWrites) =>
                 w.n = s.p.left
  <1> PICK l \in 0 .. 2 : l = s.p.left
    OBVIOUS
  <1>1. \/ w = [n |-> l, fails |-> FALSE]
        \/ s.t.writer = "file" /\ w = [n |-> 0, fails |-> TRUE]
        \/ /\ s.t.writer = "file" /\ kinds[s.t.num] \in ShortWrites
           /\ \E m \in 0 .. l : w = [n |-> m, fails |-> FALSE]
    <2>1. CASE s.t.writer # "file"
      BY <2>1 DEF Writes
    <2>2. CASE s.t.writer = "file"
      BY <2>2 DEF Writes
    <2> QED
      BY <2>1, <2>2
  <1>2. l \in 0 .. l /\ 0 \in 0 .. l
    OBVIOUS
  <1>3. CASE w = [n |-> l, fails |-> FALSE]
    BY <1>2, <1>3
  <1>4. CASE s.t.writer = "file" /\ w = [n |-> 0, fails |-> TRUE]
    BY <1>2, <1>4
  <1>5. CASE /\ s.t.writer = "file" /\ kinds[s.t.num] \in ShortWrites
             /\ \E m \in 0 .. l : w = [n |-> m, fails |-> FALSE]
    BY <1>5
  <1> QED
    BY <1>1, <1>3, <1>4, <1>5

\* n of the pieces in the buffer are stored, or the writer has failed and the
\* session ends.
LEMMA ConsumeSound ==
    ASSUME NEW s, Sound(s), s.cons, NEW w \in Writes(s),
           s.t.writer # "none" => s.t.resp = Unsaid /\ s.p.eats
    PROVE  LET c == ConsumeBody(s, w.n, w.fails)
           IN /\ Sound(c) /\ c.t.num = s.t.num /\ c.t.got = s.t.got /\ c.t.writer = s.t.writer
              /\ c.p \in ParserType /\ c.p.at = s.p.at /\ c.p.rem = s.p.rem /\ c.p.eats = s.p.eats
              /\ \/ ~c.cons /\ c.t.resp # Unsaid
                 \/ /\ c.t = s.t
                    /\ c.p.left = s.p.left - w.n
                    /\ c.stored[s.t.num] =
                          s.stored[s.t.num] + (IF s.t.writer = "file" THEN w.n ELSE 0)
                    /\ s.t.writer # "file" \/ kinds[s.t.num] \notin ShortWrites =>
                          w.n = s.p.left
  <1> DEFINE c == ConsumeBody(s, w.n, w.fails)
  <1>1. s.p \in ParserType /\ s.p.left \in 0 .. 2
    BY DEF Sound, SessionType, ParserType
  <1>2. /\ w.n \in 0 .. s.p.left /\ w.fails \in BOOLEAN
        /\ w.fails => s.t.writer = "file"
        /\ ~w.fails /\ (s.t.writer = "file" => kinds[s.t.num] \notin ShortWrites) =>
              w.n = s.p.left
    BY <1>1, WritesAre
  <1>3. CASE w.fails
    <2>1. c = ProcessError(s, 500)
      BY <1>3 DEF ConsumeBody
    <2> HIDE DEF c
    <2>2. Sound(c) /\ Kept(s, c) /\ ~c.cons /\ c.t.resp # Unsaid
      BY <1>2, <1>3, <2>1, ErrorSound
    <2> QED
      BY <1>1, <2>2 DEF Kept, c
  <1>4. CASE ~w.fails
    <2>1. c = Wrote(s, w.n)
      BY <1>4 DEF ConsumeBody
    <2> HIDE DEF c
    <2>2. /\ Sound(c) /\ c.t = s.t
          /\ c.p \in ParserType /\ c.p.at = s.p.at /\ c.p.rem = s.p.rem /\ c.p.eats = s.p.eats
          /\ c.p.left = s.p.left - w.n
          /\ c.stored[s.t.num] =
                s.stored[s.t.num] + (IF s.t.writer = "file" THEN w.n ELSE 0)
      BY <1>2, <2>1, WroteSound
    <2>3. s.t.writer # "file" \/ kinds[s.t.num] \notin ShortWrites => w.n = s.p.left
      BY <1>2, <1>4
    <2> QED
      BY <2>2, <2>3 DEF c
  <1> QED
    BY <1>3, <1>4

LEMMA FinishRead ==
    ASSUME NEW s, NEW k, NEW j, NEW x, About(s, k, j, x), s.p.at = "finish",
           NEW w \in Writes(s)
    PROVE  LET q == FinishBody(s, w) IN Sound(q) /\ Reading(q, used)
  <1> DEFINE c == ConsumeBody(s, w.n, w.fails)
             q == FinishBody(s, w)
             n == s.t.num
  <1>1. /\ s.stored[n] \in Nat /\ s.p.left \in 0 .. 2 /\ used = <<n, j>> /\ k = kinds[n]
    BY AboutIs DEF About
  <1>2. k = "chunked" /\ j = 6 /\ (s.t.writer = "file" => s.stored[n] + s.p.left = 2)
    <2>1. Stage(k, j, s.p, s.t.writer, s.stored[n])
      BY DEF About
    <2> QED
      BY <2>1 DEF Stage, NewParser
  <1>3. w.n \in 0 .. s.p.left
    BY <1>1, WritesAre
  <1>4. /\ Sound(c) /\ c.t.num = n /\ ~c.t.got /\ c.t.writer = s.t.writer
        /\ c.p \in ParserType /\ c.p.at = s.p.at /\ c.p.eats = s.p.eats
        /\ \/ ~c.cons
           \/ /\ c.t = s.t
              /\ c.p.left = s.p.left - w.n
              /\ c.stored[n] = s.stored[n] + (IF s.t.writer = "file" THEN w.n ELSE 0)
    BY ConsumeSound DEF About
  <1>5. q = IF c.p.left = 0 THEN [c EXCEPT !.p.at = "trailer"] ELSE c
    BY DEF FinishBody
  <1> HIDE DEF c, q
  <1>6. PICK p \in ParserType :
           /\ p.left = c.p.left /\ p.eats = c.p.eats
           /\ p.at \in {"finish", "trailer"} /\ (p.at = "trailer" => p.left = 0)
           /\ q = [c EXCEPT !.p = p]
    <2>1. c \in SessionType
      BY <1>4 DEF Sound
    <2>2. CASE c.p.left = 0
      <3> DEFINE p == [c.p EXCEPT !.at = "trailer"]
      <3>1. q = [c EXCEPT !.p = p]
        BY <1>5, <2>1, <2>2 DEF SessionType
      <3>2. p \in ParserType /\ p.left = c.p.left /\ p.eats = c.p.eats /\ p.at = "trailer"
        BY <1>4 DEF ParserType
      <3> HIDE DEF p
      <3> QED
        BY <2>2, <3>1, <3>2
    <2>3. CASE c.p.left # 0
      <3>1. q = [c EXCEPT !.p = c.p]
        BY <1>5, <2>1, <2>3 DEF SessionType
      <3> QED
        BY <1>4, <2>3, <3>1
    <2> QED
      BY <2>2, <2>3
  <1>7. Sound(q) /\ q.t = c.t /\ q.p = p /\ q.stored = c.stored /\ q.cons = c.cons
    BY <1>4, <1>6, MovedSound
  <1>8. CASE ~c.cons
    BY <1>7, <1>8 DEF Reading, q
  <1>9. CASE /\ c.t = s.t
             /\ c.p.left = s.p.left - w.n
             /\ c.stored[n] = s.stored[n] + (IF s.t.writer = "file" THEN w.n ELSE 0)
    <2>1. s.t.writer = "file" => q.stored[n] + p.left = 2
      BY <1>1, <1>2, <1>3, <1>6, <1>7, <1>9
    <2>2. Stage(k, 6, q.p, q.t.writer, q.stored[n])
      BY <1>2, <1>6, <1>7, <1>9, <2>1 DEF Stage
    <2>3. q.t.num = n /\ ~q.t.got /\ (q.t.writer # "none" => q.t.resp = Unsaid /\ q.p.eats)
      BY <1>4, <1>6, <1>7, <1>9 DEF About
    <2>4. Reading(q, <<n, j>>)
      <3>1. 6 \in 3 .. 6
        OBVIOUS
      <3> QED
        BY <1>1, <1>2, <2>2, <2>3, <3>1, BodyReading
    <2> QED
      BY <1>1, <1>7, <2>4 DEF q
  <1> QED
    BY <1>4, <1>8, <1>9
LEMMA DataRead ==
    ASSUME NEW s, NEW k, NEW j, About(s, k, j, "data"), s.p.at # "finish",
           NEW w \in Writes([s EXCEPT !.p.left = @ + 1])
    PROVE  LET q == BodyPiece(s, w) IN Sound(q) /\ Reading(q, Following(used))
  <1> DEFINE n == s.t.num
             p == [s.p EXCEPT !.left = @ + 1]
             a == [s EXCEPT !.p.left = @ + 1]
             c == IF s.p.eats THEN ConsumeBody(a, w.n, w.fails) ELSE s
             d == [c EXCEPT !.p.rem = @ - 1]
             q == BodyPiece(s, w)
  <1>1. /\ k \in Kinds /\ j \in DOMAIN Message[k] /\ "data" = Message[k][j] /\ j \in 1 .. 6
        /\ j < Len(Message[k]) => Following(used) = <<n, j + 1>>
        /\ j = Len(Message[k]) => Following(used) = <<n + 1, 1>>
        /\ s \in SessionType /\ s.p \in ParserType /\ s.stored[n] \in Nat /\ s.p.left \in 0 .. 2
        /\ k = kinds[n] /\ s.p.rem \in 0 .. 2
    BY AboutIs DEF About
  <1>2. j \in {3, 4} /\ k \in {"put", "chunked"}
    BY <1>1, PiecesOf
  <1>3. /\ s.p.left \in 0 .. j - 3 /\ s.p.left + 1 \in 0 .. 2
        /\ k = "put" => /\ s.p.at = "body" /\ s.p.rem = 5 - j
                        /\ Whole(k) /\ s.t.writer = "file" => s.p.left = 0 /\ s.stored[n] = j - 3
        /\ k = "chunked" => /\ s.p.at = "size"
                            /\ s.t.writer = "file" => s.stored[n] + s.p.left = j - 3
    <2>1. Stage(k, j, s.p, s.t.writer, s.stored[n])
      BY DEF About
    <2>2. CASE k = "put"
      BY <1>1, <1>2, <2>1, <2>2 DEF Stage, NewParser
    <2>3. CASE k = "chunked"
      BY <1>1, <1>2, <2>1, <2>3 DEF Stage, NewParser
    <2> QED
      BY <1>2, <2>2, <2>3
  <1>4. Sound(s) /\ s.cons /\ ~s.t.got /\ (s.t.writer # "none" => s.t.resp = Unsaid /\ s.p.eats)
    BY DEF About
  <1>5. /\ Sound(a) /\ a.t = s.t /\ a.stored = s.stored /\ a.cons
        /\ a.p.left = s.p.left + 1 /\ a.p.at = s.p.at /\ a.p.rem = s.p.rem /\ a.p.eats = s.p.eats
    <2>1. /\ p \in ParserType /\ p.left = s.p.left + 1
          /\ p.at = s.p.at /\ p.rem = s.p.rem /\ p.eats = s.p.eats
      BY <1>1, <1>3 DEF ParserType
    <2>2. a = [s EXCEPT !.p = p]
      BY <1>1 DEF SessionType
    <2> HIDE DEF p, a
    <2> QED
      BY <1>4, <2>1, <2>2, MovedSound
  <1> HIDE DEF a
  \* What is left in the buffer, and what has been stored, after this piece.
  <1>6. /\ Sound(c) /\ c.t.num = n /\ ~c.t.got /\ c.t.writer = s.t.writer
        /\ c.p \in ParserType /\ c.p.at = s.p.at /\ c.p.rem = s.p.rem /\ c.p.eats = s.p.eats
        /\ \/ ~c.cons /\ c.t.resp # Unsaid
           \/ /\ c.t = s.t /\ c.p.left \in 0 .. j - 2
              /\ s.t.writer = "file" =>
                    /\ c.stored[n] + c.p.left = s.stored[n] + s.p.left + 1
                    /\ k \notin ShortWrites => c.p.left = 0
    <2>1. CASE ~s.p.eats
      <3>1. c = s /\ s.t.writer # "file"
        BY <1>4, <2>1
      <3> HIDE DEF c
      <3> QED
        BY <1>1, <1>2, <1>3, <1>4, <3>1, SMTT(30)
    <2>2. CASE s.p.eats
      <3>1. c = ConsumeBody(a, w.n, w.fails) /\ w \in Writes(a)
        BY <2>2 DEF a
      <3>2. w.n \in 0 .. a.p.left
        BY <1>3, <1>5, <3>1, WritesAre
      <3> HIDE DEF c
      <3>3. /\ Sound(c) /\ c.t.num = n /\ c.t.got = s.t.got /\ c.t.writer = s.t.writer
            /\ c.p \in ParserType /\ c.p.at = s.p.at /\ c.p.rem = s.p.rem /\ c.p.eats = s.p.eats
            /\ \/ ~c.cons /\ c.t.resp # Unsaid
               \/ /\ c.t = s.t
                  /\ c.p.left = (s.p.left + 1) - w.n
                  /\ c.stored[n] = s.stored[n] + (IF s.t.writer = "file" THEN w.n ELSE 0)
                  /\ s.t.writer # "file" \/ k \notin ShortWrites => w.n = s.p.left + 1
        <4> DEFINE b == ConsumeBody(a, w.n, w.fails)
        <4>1. a.t.writer # "none" => a.t.resp = Unsaid /\ a.p.eats
          BY <1>4, <1>5
        <4>2. /\ Sound(b) /\ b.t.num = a.t.num /\ b.t.got = a.t.got /\ b.t.writer = a.t.writer
              /\ b.p \in ParserType /\ b.p.at = a.p.at /\ b.p.rem = a.p.rem /\ b.p.eats = a.p.eats
              /\ \/ ~b.cons /\ b.t.resp # Unsaid
                 \/ /\ b.t = a.t
                    /\ b.p.left = a.p.left - w.n
                    /\ b.stored[a.t.num] =
                          a.stored[a.t.num] + (IF a.t.writer = "file" THEN w.n ELSE 0)
                    /\ a.t.writer # "file" \/ kinds[a.t.num] \notin ShortWrites =>
                          w.n = a.p.left
          BY <1>5, <3>1, <4>1, ConsumeSound
        <4> HIDE DEF b
        <4>3. c = b
          BY <3>1 DEF b
        <4> QED
          <5>1. /\ Sound(c) /\ c.t.num = n /\ c.t.got = s.t.got /\ c.t.writer = s.t.writer
                /\ c.p \in ParserType /\ c.p.at = s.p.at /\ c.p.rem = s.p.rem
                /\ c.p.eats = s.p.eats
            BY <1>5, <4>2, <4>3
          <5>2. CASE ~b.cons /\ b.t.resp # Unsaid
            BY <4>3, <5>1, <5>2
          <5>3. CASE /\ b.t = a.t
                     /\ b.p.left = a.p.left - w.n
                     /\ b.stored[a.t.num] =
                           a.stored[a.t.num] + (IF a.t.writer = "file" THEN w.n ELSE 0)
                     /\ a.t.writer # "file" \/ kinds[a.t.num] \notin ShortWrites =>
                           w.n = a.p.left
            <6>0. c.t = b.t /\ c.p.left = b.p.left
              BY <4>3
            <6>1. c.t = s.t /\ c.p.left = (s.p.left + 1) - w.n
              BY <1>5, <5>3, <6>0
            <6>2. c.stored[n] = s.stored[n] + (IF s.t.writer = "file" THEN w.n ELSE 0)
              BY <1>5, <4>3, <5>3, Zenon
            <6>3. s.t.writer # "file" \/ k \notin ShortWrites => w.n = s.p.left + 1
              BY <1>1, <1>5, <5>3
            <6> QED
              BY <5>1, <6>1, <6>2, <6>3
          <5> QED
            BY <4>2, <5>2, <5>3
      <3>4. CASE ~c.cons /\ c.t.resp # Unsaid
        BY <1>4, <3>3, <3>4
      <3>5. CASE /\ c.t = s.t
                 /\ c.p.left = (s.p.left + 1) - w.n
                 /\ c.stored[n] = s.stored[n] + (IF s.t.writer = "file" THEN w.n ELSE 0)
                 /\ s.t.writer # "file" \/ k \notin ShortWrites => w.n = s.p.left + 1
        <4>1. w.n \in 0 .. s.p.left + 1
          BY <1>5, <3>2
        <4>2. c.p.left \in 0 .. j - 2
          <5> PICK l \in 0 .. j - 3, m \in 0 .. s.p.left + 1 : l = s.p.left /\ m = w.n
            BY <1>3, <4>1
          <5>1. c.p.left = (l + 1) - m /\ m \in 0 .. l + 1
            BY <3>5
          <5> QED
            BY <1>2, <5>1
        <4>3. s.t.writer = "file" =>
                    /\ c.stored[n] + c.p.left = s.stored[n] + s.p.left + 1
                    /\ k \notin ShortWrites => c.p.left = 0
          <5> PICK l \in 0 .. 2, m \in 0 .. s.p.left + 1, i \in Nat :
                 l = s.p.left /\ m = w.n /\ i = s.stored[n]
            BY <1>1, <4>1
          <5>1. c.p.left = (l + 1) - m /\ (k \notin ShortWrites => m = l + 1)
            BY <3>5
          <5>2. s.t.writer = "file" => c.stored[n] = i + m
            BY <3>5
          <5>3. k \notin ShortWrites => c.p.left = 0
            BY <5>1
          <5>4. s.t.writer = "file" => c.stored[n] + c.p.left = i + l + 1
            BY <5>1, <5>2
          <5> QED
            BY <5>3, <5>4
        <4> QED
          BY <1>4, <3>3, <3>5, <4>2, <4>3
      <3> QED
        BY <3>3, <3>4, <3>5
    <2> QED
      BY <2>1, <2>2
  <1>7. q = IF s.p.at = "size" THEN c ELSE IF d.p.rem > 0 THEN d ELSE EndOfMessage(d)
    BY DEF BodyPiece, a
  <1>8. c \in SessionType
    BY <1>6 DEF Sound
  <1> HIDE DEF c, q
  <1>9. CASE k = "chunked"
    <2>1. q = c
      BY <1>3, <1>7, <1>9
    <2>2. Following(used) = <<n, j + 1>>
      <3>1. j < Len(Message[k])
        BY <1>2, <1>9, <1>1, Lengths
      <3> QED
        BY <1>1, <3>1
    <2>3. CASE ~c.cons
      BY <1>6, <2>1, <2>3 DEF Reading, q
    <2>4. CASE /\ c.t = s.t /\ c.p.left \in 0 .. j - 2
               /\ s.t.writer = "file" => c.stored[n] + c.p.left = s.stored[n] + s.p.left + 1
      <3>1. Stage(k, j + 1, c.p, c.t.writer, c.stored[n])
        BY <1>2, <1>3, <1>6, <1>9, <2>4 DEF Stage
      <3>2. j + 1 \in 3 .. 6 /\ (c.t.writer # "none" => c.t.resp = Unsaid /\ c.p.eats)
        BY <1>2, <1>4, <1>6, <2>4
      <3>3. Reading(c, <<n, j + 1>>)
        BY <1>1, <1>6, <3>1, <3>2, BodyReading
      <3> QED
        BY <1>6, <2>1, <2>2, <3>3 DEF q
    <2> QED
      BY <1>6, <2>3, <2>4
  <1>10. CASE k = "put"
    <2> DEFINE e == [c.p EXCEPT !.rem = @ - 1]
    <2>1. /\ e \in ParserType /\ e.left = c.p.left /\ e.rem = 4 - j
          /\ e.at = "body" /\ e.eats = c.p.eats
      <3>1. c.p.rem - 1 = 4 - j /\ 4 - j \in 0 .. 2
        BY <1>2, <1>3, <1>6, <1>10
      <3> QED
        BY <1>3, <1>6, <1>10, <3>1 DEF ParserType
    <2>2. d = [c EXCEPT !.p = e]
      BY <1>8 DEF SessionType
    <2> HIDE DEF d, e
    <2>3. Sound(d) /\ d.t = c.t /\ d.p = e /\ d.stored = c.stored /\ d.cons = c.cons
      BY <1>6, <2>1, <2>2, MovedSound
    <2>4. CASE j = 3
      <3>1. q = d
        BY <1>3, <1>7, <1>10, <2>1, <2>3, <2>4
      <3>2. Following(used) = <<n, 4>>
        <4>1. j < Len(Message[k]) /\ j + 1 = 4
          BY <1>1, <1>10, <2>4, Lengths
        <4> QED
          BY <1>1, <4>1
      <3>3. CASE ~c.cons
        BY <2>3, <3>1, <3>3 DEF Reading, q
      <3>4. CASE /\ c.t = s.t /\ c.p.left \in 0 .. j - 2
                 /\ s.t.writer = "file" =>
                       /\ c.stored[n] + c.p.left = s.stored[n] + s.p.left + 1
                       /\ k \notin ShortWrites => c.p.left = 0
        <4>1. Whole(k) /\ s.t.writer = "file" => c.p.left = 0 /\ c.stored[n] = 1
          <5>1. c.stored[n] \in Nat
            BY <1>1, <1>8 DEF SessionType, About, Sound, TransactionType
          <5> QED
            BY <1>3, <1>10, <2>4, <3>4, <5>1 DEF Whole
        <4>2. Stage(k, 4, d.p, d.t.writer, d.stored[n])
          BY <1>6, <1>10, <2>1, <2>3, <2>4, <3>4, <4>1 DEF Stage
        <4>3. 4 \in 3 .. 6 /\ (d.t.writer # "none" => d.t.resp = Unsaid /\ d.p.eats)
          BY <1>4, <1>6, <2>1, <2>3, <3>4
        <4>4. Reading(d, <<n, 4>>)
          BY <1>1, <1>6, <2>3, <4>2, <4>3, BodyReading
        <4> QED
          BY <2>3, <3>1, <3>2, <4>4 DEF q
      <3> QED
        BY <1>6, <3>3, <3>4
    <2>5. CASE j = 4
      <3>1. q = EndOfMessage(d)
        BY <1>3, <1>7, <1>10, <2>1, <2>3, <2>5
      <3>2. Following(used) = <<n + 1, 1>>
        BY <1>1, <1>10, <2>5, Lengths
      <3>3. Whole(kinds[d.t.num]) /\ d.t.writer = "file" /\ d.t.resp = Unsaid => d.stored[n] = 2
        <4>1. c.stored[n] \in Nat
          BY <1>1, <1>8 DEF SessionType, About, Sound, TransactionType
        <4> QED
          <5>1. d.t.num = n /\ (Whole(k) => k \notin ShortWrites)
            BY <1>6, <1>10, <2>3 DEF Whole
          <5>2. kinds[d.t.num] = k
            BY <1>1, <5>1
          <5>3. Whole(k) /\ s.t.writer = "file" =>
                   /\ s.p.left = 0 /\ s.stored[n] = 1
                   /\ k \notin ShortWrites
            BY <1>3, <1>10, <2>5, <5>1
          <5> QED
            BY <1>6, <2>3, <4>1, <5>2, <5>3
      <3>4. Sound(q) /\ q.t.got /\ q.t.num = n /\ q.p = NewParser
        BY <1>6, <2>3, <3>1, <3>3, EndOfMessageSound
      <3> QED
        BY <3>2, <3>4 DEF Reading, q
    <2> QED
      BY <1>2, <2>4, <2>5
  <1> QED
    BY <1>2, <1>9, <1>10

\* One step of the parser.
LEMMA ParseRead ==
    ASSUME NEW s, NEW k, NEW j, NEW x, About(s, k, j, x), Parse(s, s.t.num, x)
    PROVE  /\ Sound(z') /\ Reading(z', used')
           /\ used' \in {used, Following(used)}
  <1>1. k \in Kinds /\ j \in DOMAIN Message[k] /\ x = Message[k][j] /\ k = kinds[s.t.num]
    BY AboutIs DEF About
  <1>2. Sound(s)
    BY DEF About
  <1>3. ASSUME s.p.at = "finish", used' = used,
               NEW w \in Writes(s), z' = FinishBody(s, w)
        PROVE  Sound(z') /\ Reading(z', used')
    <2>1. Sound(FinishBody(s, w)) /\ Reading(FinishBody(s, w), used)
      BY <1>3, FinishRead
    <2> QED
      BY <1>3, <2>1
  <1>4. ASSUME x = "junk", z' = ChannelDone(s)
        PROVE  Sound(z') /\ Reading(z', used')
    <2>1. Sound(ChannelDone(s)) /\ ~ChannelDone(s).cons
      BY <1>2, DoneSound
    <2> QED
      BY <1>4, <2>1 DEF Reading
  <1>5. ASSUME x \in {"start", "bad"}, s.p.at = "start", used' = Following(used),
               z' = StartLine(s, s.t.num, x = "start")
        PROVE  Sound(z') /\ Reading(z', used')
    <2>1. j = 1
      <3>1. Stage(k, j, s.p, s.t.writer, s.stored[s.t.num])
        BY DEF About
      <3> QED
        BY <1>5, <3>1 DEF Stage
    <2>2. x = "start"
      BY <1>1, <1>5, <2>1, PiecesOf
    <2>3. Sound(StartLine(s, s.t.num, TRUE)) /\ Reading(StartLine(s, s.t.num, TRUE), Following(used))
      BY <1>5, <2>2, StartRead
    <2>4. z' = StartLine(s, s.t.num, TRUE)
      <3>1. (x = "start") = TRUE
        BY <2>2
      <3> QED
        BY <1>5, <3>1
    <2> QED
      BY <1>5, <2>3, <2>4
  <1>6. ASSUME x = "bad", s.p.at # "start", used' = Following(used), z' = ProcessError(s, 400)
        PROVE  Sound(z') /\ Reading(z', used')
    <2>1. Sound(ProcessError(s, 400)) /\ Reading(ProcessError(s, 400), Following(used))
      BY <1>6, BadRead
    <2> QED
      BY <1>6, <2>1
  <1>7. ASSUME x = "end", s.p.at = "headers", used' = Following(used),
               NEW h \in Handlers(kinds[s.t.num]), z' = EndOfHeaders(s, h)
        PROVE  Sound(z') /\ Reading(z', used')
    <2>1. Sound(EndOfHeaders(s, h)) /\ Reading(EndOfHeaders(s, h), Following(used))
      BY <1>1, <1>7, HeadersRead
    <2> QED
      BY <1>7, <2>1
  <1>8. ASSUME x = "end", s.p.at = "trailer", used' = Following(used), z' = EndOfMessage(s)
        PROVE  Sound(z') /\ Reading(z', used')
    <2>1. Sound(EndOfMessage(s)) /\ Reading(EndOfMessage(s), Following(used))
      BY <1>8, TrailerRead
    <2> QED
      BY <1>8, <2>1
  <1>9. ASSUME x = "zero", used' = Following(used), z' = ZeroChunk(s)
        PROVE  Sound(z') /\ Reading(z', used')
    <2>1. Sound(ZeroChunk(s)) /\ Reading(ZeroChunk(s), Following(used))
      BY <1>9, ZeroRead
    <2> QED
      BY <1>9, <2>1
  <1>10. ASSUME x = "data", s.p.at # "finish", used' = Following(used),
                NEW w \in Writes([s EXCEPT !.p.left = @ + 1]), z' = BodyPiece(s, w)
         PROVE  Sound(z') /\ Reading(z', used')
    <2>1. Sound(BodyPiece(s, w)) /\ Reading(BodyPiece(s, w), Following(used))
      BY <1>10, DataRead
    <2> QED
      BY <1>10, <2>1
  <1>11. CASE s.p.at = "finish" /\ used' = used /\ \E w \in Writes(s) : z' = FinishBody(s, w)
    BY <1>3, <1>11
  <1>12. CASE /\ s.p.at # "finish" /\ used' = Following(used)
              /\ \/ x = "junk" /\ z' = ChannelDone(s)
                 \/ /\ x \in {"start", "bad"} /\ s.p.at = "start"
                    /\ z' = StartLine(s, s.t.num, x = "start")
                 \/ x = "bad" /\ s.p.at # "start" /\ z' = ProcessError(s, 400)
                 \/ /\ x = "end" /\ s.p.at = "headers"
                    /\ \E h \in Handlers(kinds[s.t.num]) : z' = EndOfHeaders(s, h)
                 \/ x = "end" /\ s.p.at = "trailer" /\ z' = EndOfMessage(s)
                 \/ x = "zero" /\ z' = ZeroChunk(s)
                 \/ /\ x = "data"
                    /\ \E w \in Writes([s EXCEPT !.p.left = @ + 1]) : z' = BodyPiece(s, w)
    BY <1>4, <1>5, <1>6, <1>7, <1>8, <1>9, <1>10, <1>12
  <1> QED
    BY <1>11, <1>12, Zenon DEF Parse

(***************************************************************************)
(* The steps of the session.                                               *)
(***************************************************************************)

\* What the flags of the session and its timers are does not matter.
Alike(s, q) ==
    /\ q \in SessionType
    /\ q.t = s.t /\ q.sent = s.sent /\ q.stored = s.stored /\ q.made = s.made
    /\ q.must = s.must /\ q.ops = s.ops /\ q.chan = s.chan /\ q.cons = s.cons /\ q.p = s.p
    /\ q.nested <= s.nested /\ (q.waits => s.waits /\ (s.wake => q.wake))

\* A response may begin or end under the parser only when the body of its request
\* has been consumed, or nobody waits for it.
LEMMA KeptReading ==
    ASSUME NEW s, NEW q, NEW u, Kept(s, q), Reading(s, u),
           s.t.got \/ (s.t.resp # Unsaid /\ q.t.resp # Unsaid) \/ q.t.resp = s.t.resp \/ ~q.cons
    PROVE  Reading(q, u)
  <1>1. CASE ~q.cons
    BY <1>1 DEF Reading
  <1>2. CASE q.cons
    <2>1. /\ s.cons /\ q.p = s.p /\ q.stored = s.stored
          /\ q.t.num = s.t.num /\ q.t.got = s.t.got /\ q.t.writer = s.t.writer
      BY <1>2 DEF Kept
    <2>2. CASE s.t.got /\ u = <<s.t.num + 1, 1>> /\ s.p = NewParser
      BY <2>1, <2>2 DEF Reading
    <2>3. CASE /\ ~s.t.got /\ u[1] = s.t.num
               /\ Stage(kinds[s.t.num], u[2], s.p, s.t.writer, s.stored[s.t.num])
               /\ s.t.writer # "none" => s.t.resp = Unsaid /\ s.p.eats
               /\ u[2] < 3 => s.t.resp = Unsaid /\ s.t.writer = "none" /\ s.stored[s.t.num] = 0
      BY <1>2, <2>1, <2>3 DEF Reading
    <2> QED
      BY <2>1, <2>2, <2>3 DEF Reading
  <1> QED
    BY <1>1, <1>2

LEMMA AlikeKept ==
    ASSUME NEW s, NEW q, Sound(s), Alike(s, q)
    PROVE  /\ Sound(q) /\ Kept(s, q)
           /\ \A u : Reading(s, u) => Reading(q, u)
  <1>1. Sound(q)
    BY AlikeSound DEF Alike
  <1>2. Kept(s, q) /\ q.t.resp = s.t.resp
    BY DEF Alike, Kept
  <1> QED
    BY <1>1, <1>2, KeptReading

\* The parser has something to read: it is not at the end of the requests.
LEMMA SomethingCame ==
    ASSUME kinds \in [Requests -> Kinds], NEW u \in Positions, NEW c \in Positions,
           NotBefore(c, u), u # c
    PROVE  u # End
  <1> SUFFICES ASSUME u = End PROVE FALSE
    OBVIOUS
  <1>1. u[1] = MaxRequests + 1 /\ u[2] = 1 /\ MaxRequests \in Nat
    BY BoundsAssumption DEF End
  <1>2. c # End /\ c[1] \in Requests
    BY PositionsAre
  <1> QED
    BY <1>1, <1>2 DEF NotBefore, Requests

\* What the first piece of the next request finds.
Renewed(s, r) ==
    [s EXCEPT !.must = FALSE, !.made = @ + 1, !.t = [NewTransaction EXCEPT !.num = r]]

LEMMA RenewedAbout ==
    ASSUME kinds \in [Requests -> Kinds], used \in Positions, used # End,
           NEW s, Sound(s), Reading(s, used), s.cons, ~s.waits, s.must
    PROVE  About(Renewed(s, used[1]), kinds[used[1]], 1, Piece(used)) /\ used[2] = 1
  <1> DEFINE n == s.t.num
             r == used[1]
             t == [NewTransaction EXCEPT !.num = r]
             q == Renewed(s, r)
  <1>1. s \in SessionType /\ Ordered(s) /\ Stored(s) /\ Turns(s)
    BY DEF Sound
  <1>2. /\ s.t.got /\ s.chan = "open" /\ s.t.resp = Ended /\ s.nested = 0
        /\ n \in Requests /\ s.made = n
    BY <1>1 DEF Turns, SessionType, TransactionType
  <1>3. used = <<n + 1, 1>> /\ s.p = NewParser
    BY <1>2 DEF Reading
  <1>4. r = n + 1 /\ r \in Requests /\ used = <<r, 1>>
    BY <1>3, PositionsAre
  <1>5. /\ t \in TransactionType /\ t.num = r /\ ~t.got /\ t.resp = Unsaid /\ t.code = 0
        /\ t.writer = "none"
    <2>1. /\ 0 \in Nat /\ Unsaid \in Unsaid..Ended /\ FALSE \in BOOLEAN
          /\ "none" \in {"none", "file", "string"}
      OBVIOUS
    <2> QED
      BY <1>4, <2>1 DEF TransactionType, NewTransaction
  <1> HIDE DEF t
  <1>6. q = [s EXCEPT !.must = FALSE, !.made = s.made + 1, !.t = t]
    BY DEF Renewed, t
  <1> HIDE DEF q
  <1>7. /\ q \in SessionType /\ q.t = t /\ q.made = n + 1 /\ ~q.must
        /\ q.p = s.p /\ q.stored = s.stored /\ q.ops = s.ops /\ q.sent = s.sent
        /\ q.chan = s.chan /\ q.cons = s.cons /\ q.nested = s.nested /\ q.waits = s.waits
    <2>1. s.made + 1 \in Nat /\ s.made + 1 = n + 1
      BY <1>1, <1>2 DEF SessionType
    <2> QED
      BY <1>1, <1>5, <1>6, <2>1 DEF SessionType
  <1>8. n \in Nat /\ n >= 1 /\ Requests \subseteq Nat
    BY <1>2, BoundsAssumption DEF Requests
  <1>9. Ordered(q)
    <2>1. Len(s.sent) = n /\ \A i \in DOMAIN s.sent : s.sent[i].ended
      BY <1>1, <1>2 DEF Ordered
    <2>2. Len(q.sent) = q.t.num - 1
      BY <1>4, <1>5, <1>7, <1>8, <2>1
    <2> QED
      BY <1>1, <1>5, <1>7, <2>1, <2>2 DEF Ordered
  <1>10. Stored(q) /\ q.stored[r] = 0
    <2>1. \A i \in Requests : i >= r => s.stored[i] = 0
      BY <1>1, <1>4, <1>8 DEF Stored
    <2>2. r >= r
      BY <1>4, <1>8
    <2>3. \A i \in Requests : i > r => i >= r
      BY <1>4, <1>8
    <2> QED
      BY <1>1, <1>4, <1>5, <1>7, <2>1, <2>2, <2>3 DEF Stored
  <1>11. Turns(q)
    <2>1. s.ops \subseteq 1 .. n
      BY <1>1, <1>2 DEF Turns
    <2>2. q.ops \subseteq 1 .. q.made /\ q.made \notin q.ops /\ q.made = q.t.num
      BY <1>4, <1>5, <1>7, <1>8, <2>1
    <2>3. q.chan = "open" /\ q.nested = 0 /\ ~q.waits /\ ~q.must
      BY <1>2, <1>7
    <2> QED
      BY <2>2, <2>3 DEF Turns
  <1>12. Sound(q) /\ q.t.num = r /\ q.cons /\ ~q.t.got
    BY <1>5, <1>7, <1>9, <1>10, <1>11 DEF Sound
  <1>13. Stage(kinds[r], 1, q.p, q.t.writer, q.stored[r])
    BY <1>3, <1>7 DEF Stage
  <1>14. Piece(used) = Message[kinds[r]][1] /\ used[2] = 1
    <2>1. used[1] = r /\ used[2] = 1
      BY <1>4
    <2> QED
      BY <2>1 DEF Piece
  <1> QED
    BY <1>4, <1>5, <1>7, <1>10, <1>12, <1>13, <1>14 DEF About, q

\* The parser of the request under way.
LEMMA ReadingAbout ==
    ASSUME kinds \in [Requests -> Kinds], used \in Positions, used # End,
           NEW s, Sound(s), Reading(s, used), s.cons, ~s.t.got
    PROVE  /\ About(s, kinds[s.t.num], used[2], Piece(used))
           /\ used[1] = s.t.num
  <1>1. /\ used[1] = s.t.num
        /\ Stage(kinds[s.t.num], used[2], s.p, s.t.writer, s.stored[s.t.num])
        /\ s.t.writer # "none" => s.t.resp = Unsaid /\ s.p.eats
        /\ used[2] < 3 => s.t.resp = Unsaid /\ s.t.writer = "none" /\ s.stored[s.t.num] = 0
    BY DEF Reading
  <1>2. used = <<used[1], used[2]>>
    BY PositionsAre
  <1>3. Piece(used) = Message[kinds[s.t.num]][used[2]]
    BY <1>1 DEF Piece
  <1> QED
    BY <1>1, <1>2, <1>3 DEF About

\* The transaction waits for its response to end.
LEMMA Awaits ==
    ASSUME NEW s, Sound(s), s.cons, NEW u, Reading(s, u)
    PROVE  LET q == [s EXCEPT !.t.wants = TRUE, !.waits = TRUE] IN Sound(q) /\ Reading(q, u)
  <1> DEFINE t == [s.t EXCEPT !.wants = TRUE]
             q == [s EXCEPT !.t.wants = TRUE, !.waits = TRUE]
  <1>1. s \in SessionType /\ Ordered(s) /\ Stored(s) /\ Turns(s)
    BY DEF Sound
  <1>2. /\ t \in TransactionType /\ t.num = s.t.num /\ t.got = s.t.got /\ t.resp = s.t.resp
        /\ t.code = s.t.code /\ t.writer = s.t.writer /\ t.wants
    BY <1>1 DEF SessionType, TransactionType
  <1>3. q = [s EXCEPT !.t = t, !.waits = TRUE]
    BY <1>1 DEF SessionType
  <1> HIDE DEF t, q
  <1>4. /\ q \in SessionType /\ q.t = t /\ q.made = s.made /\ q.must = s.must
        /\ q.p = s.p /\ q.stored = s.stored /\ q.ops = s.ops /\ q.sent = s.sent
        /\ q.chan = s.chan /\ q.cons = s.cons /\ q.nested = s.nested
    BY <1>1, <1>2, <1>3 DEF SessionType
  <1>5. Ordered(q)
    BY <1>1, <1>2, <1>4 DEF Ordered
  <1>6. Stored(q)
    BY <1>1, <1>2, <1>4 DEF Stored
  <1>7. Turns(q)
    BY <1>1, <1>2, <1>4 DEF Turns
  <1>8. Kept(s, q)
    BY <1>2, <1>4 DEF Kept
  <1>9. Reading(q, u)
    BY <1>2, <1>4, <1>8, KeptReading
  <1> QED
    BY <1>4, <1>5, <1>6, <1>7, <1>9 DEF Sound, q

LEMMA ConsumeStep ==
    ASSUME Inv, Consume
    PROVE  Inv'
  <1>1. /\ kinds \in [Requests -> Kinds] /\ used \in Positions /\ came \in Positions
        /\ NotBefore(came, used) /\ Sound(z) /\ Reading(z, used)
        /\ kinds' = kinds /\ came' = came /\ z.cons /\ ~z.waits /\ used # came
    BY DEF Inv, Consume
  <1>2. used # End
    BY <1>1, SomethingCame
  <1>3. /\ Following(used) \in Positions /\ NotBefore(came, Following(used))
    BY <1>1, <1>2, FollowingOrdered
  <1>4. ASSUME z.must, Parse(Renewed(z, used[1]), used[1], Piece(used))
        PROVE  Sound(z') /\ Reading(z', used') /\ used' \in {used, Following(used)}
    <2> DEFINE s == Renewed(z, used[1])
    <2>1. About(s, kinds[used[1]], 1, Piece(used)) /\ used[2] = 1
      BY <1>1, <1>2, <1>4, RenewedAbout
    <2>2. s.t.num = used[1]
      BY <2>1 DEF About
    <2>3. Parse(s, s.t.num, Piece(used))
      BY <1>4, <2>2
    <2> HIDE DEF s
    <2> QED
      BY <2>1, <2>3, ParseRead
  <1>5. ASSUME ~z.t.got, Parse(z, used[1], Piece(used))
        PROVE  Sound(z') /\ Reading(z', used') /\ used' \in {used, Following(used)}
    <2>1. About(z, kinds[z.t.num], used[2], Piece(used)) /\ used[1] = z.t.num
      BY <1>1, <1>2, <1>5, ReadingAbout
    <2>2. Parse(z, z.t.num, Piece(used))
      BY <1>5, <2>1
    <2> QED
      BY <2>1, <2>2, ParseRead
  <1>6. ASSUME z' = [z EXCEPT !.t.wants = TRUE, !.waits = TRUE], used' = used
        PROVE  Sound(z') /\ Reading(z', used') /\ used' \in {used, Following(used)}
    BY <1>1, <1>6, Awaits
  <1>7. Sound(z') /\ Reading(z', used') /\ used' \in {used, Following(used)}
    BY <1>4, <1>5, <1>6 DEF Consume, MustWait, Renewed
  <1>8. used' \in Positions /\ NotBefore(came, used')
    BY <1>1, <1>3, <1>7
  <1>9. Sound(z)' /\ Reading(z, used)' /\ Positions' = Positions
    BY <1>1, <1>7 DEF Sound, Ordered, Stored, Turns, Reading, Positions
  <1>10. NotBefore(came, used)'
    BY <1>1, <1>8 DEF NotBefore
  <1> QED
    BY <1>1, <1>8, <1>9, <1>10 DEF Inv

\* An authentication is answered.
Without(s, i) == [s EXCEPT !.ops = @ \ {i}]

LEMMA AnswerSound ==
    ASSUME NEW s, Sound(s), NEW u, Reading(s, u), NEW i \in s.ops
    PROVE  /\ Sound(Without(s, i)) /\ Reading(Without(s, i), u)
           /\ i = s.made => /\ Sound(SendTokens(Without(s, i))) /\ Reading(SendTokens(Without(s, i)), u)
                            /\ Sound(Told(Without(s, i), 401)) /\ Reading(Told(Without(s, i), 401), u)
  <1> DEFINE a == Without(s, i)
  <1>1. s \in SessionType /\ Ordered(s) /\ Stored(s) /\ Turns(s)
    BY DEF Sound
  <1>2. /\ a \in SessionType /\ a.ops \subseteq s.ops
        /\ a.t = s.t /\ a.made = s.made /\ a.must = s.must /\ a.p = s.p /\ a.stored = s.stored
        /\ a.sent = s.sent /\ a.chan = s.chan /\ a.cons = s.cons /\ a.nested = s.nested
        /\ a.waits = s.waits /\ a.wake = s.wake
    <2>1. s.ops \ {i} \in SUBSET Nat
      BY <1>1 DEF SessionType
    <2> QED
      BY <1>1, <2>1 DEF SessionType, Without
  <1> HIDE DEF a
  <1>3. Ordered(a) /\ Stored(a)
    BY <1>1, <1>2 DEF Ordered, Stored
  <1>4. Turns(a)
    BY <1>1, <1>2 DEF Turns
  <1>5. Sound(a)
    BY <1>2, <1>3, <1>4 DEF Sound
  <1>6. Reading(a, u)
    BY <1>2 DEF Reading
  <1>7. ASSUME i = s.made
        PROVE  /\ Sound(SendTokens(a)) /\ Reading(SendTokens(a), u)
               /\ Sound(Told(a, 401)) /\ Reading(Told(a, 401), u)
    <2>1. a.t.got
      BY <1>1, <1>2, <1>7 DEF Turns
    <2>2. Sound(SendTokens(a)) /\ Kept(a, SendTokens(a))
      BY <1>5, TokensSound
    <2>3. Sound(Told(a, 401)) /\ Kept(a, Told(a, 401))
      BY <1>5, RefusedSound
    <2> QED
      BY <1>6, <2>1, <2>2, <2>3, KeptReading
  <1> QED
    BY <1>5, <1>6, <1>7 DEF a

LEMMA AnswerStep ==
    ASSUME NEW i, Answer(i), Sound(z), NEW u, Reading(z, u)
    PROVE  Sound(z') /\ Reading(z', u)
  <1>1. /\ i \in z.ops
        /\ \/ z' = Without(z, i)
           \/ /\ i = z.made
              /\ \E ok \in BOOLEAN :
                    z' = IF ok THEN SendTokens(Without(z, i)) ELSE Told(Without(z, i), 401)
    BY DEF Answer, Without, Told
  <1>2. /\ Sound(Without(z, i)) /\ Reading(Without(z, i), u)
        /\ i = z.made => /\ Sound(SendTokens(Without(z, i))) /\ Reading(SendTokens(Without(z, i)), u)
                         /\ Sound(Told(Without(z, i), 401)) /\ Reading(Told(Without(z, i), 401), u)
    BY <1>1, AnswerSound
  <1> QED
    BY <1>1, <1>2

\* A session that closes no longer reads.
LEMMA ClosedReading ==
    ASSUME NEW s, Sound(s), NEW u
    PROVE  /\ Sound(Shutdown(s)) /\ Reading(Shutdown(s), u)
           /\ Sound(ChannelDone(s)) /\ Reading(ChannelDone(s), u)
           /\ Sound(Refused(s, 408)) /\ Reading(Refused(s, 408), u)
  <1>1. Sound(Shutdown(s)) /\ ~Shutdown(s).cons
    BY ShutdownSound
  <1>2. Sound(ChannelDone(s)) /\ ~ChannelDone(s).cons
    BY DoneSound
  <1>3. Sound(Refused(s, 408)) /\ ~Refused(s, 408).cons
    BY RefusedSound
  <1> QED
    BY <1>1, <1>2, <1>3 DEF Reading

\* What only touches the flags of the session.
LEMMA FlagsAlike ==
    ASSUME NEW s, Sound(s)
    PROVE  /\ Alike(s, [s EXCEPT !.keep = FALSE])
           /\ Alike(s, [s EXCEPT !.act = FALSE])
           /\ Alike(s, [s EXCEPT !.busy = FALSE])
           /\ Alike(s, [s EXCEPT !.busy = TRUE])
           /\ Alike(s, [s EXCEPT !.wake = FALSE, !.waits = FALSE])
           /\ Alike(s, [s EXCEPT !.unsent = FALSE, !.busy = TRUE])
           /\ s.nested > 1 => Alike(s, [s EXCEPT !.nested = @ - 1, !.unsent = TRUE])
  <1>1. s \in SessionType /\ s.nested \in 0 .. 2 /\ s.nested <= s.nested
    <2>1. s \in SessionType
      BY DEF Sound
    <2> QED
      BY <2>1 DEF SessionType
  <1>2. TRUE \in BOOLEAN /\ FALSE \in BOOLEAN
    OBVIOUS
  <1>3. Alike(s, [s EXCEPT !.keep = FALSE])
    BY <1>1, <1>2 DEF Alike, SessionType
  <1>4. Alike(s, [s EXCEPT !.act = FALSE])
    BY <1>1, <1>2 DEF Alike, SessionType
  <1>5. Alike(s, [s EXCEPT !.busy = FALSE])
    BY <1>1, <1>2 DEF Alike, SessionType
  <1>6. Alike(s, [s EXCEPT !.busy = TRUE])
    BY <1>1, <1>2 DEF Alike, SessionType
  <1>7. Alike(s, [s EXCEPT !.wake = FALSE, !.waits = FALSE])
    BY <1>1, <1>2 DEF Alike, SessionType
  <1>8. Alike(s, [s EXCEPT !.unsent = FALSE, !.busy = TRUE])
    BY <1>1, <1>2 DEF Alike, SessionType
  <1>9. ASSUME s.nested > 1
        PROVE  Alike(s, [s EXCEPT !.nested = @ - 1, !.unsent = TRUE])
    <2>1. s.nested - 1 \in 0 .. 2 /\ s.nested - 1 <= s.nested
      BY <1>1, <1>9
    <2> QED
      BY <1>1, <1>2, <2>1 DEF Alike, SessionType
  <1> QED
    BY <1>3, <1>4, <1>5, <1>6, <1>7, <1>8, <1>9

LEMMA TimersStep ==
    ASSUME Timers, Sound(z), NEW u, Reading(z, u)
    PROVE  Sound(z') /\ Reading(z', u)
  <1> DEFINE k == [z EXCEPT !.keep = FALSE]
             a == [z EXCEPT !.act = FALSE]
             b == [z EXCEPT !.busy = FALSE]
  <1>1. Alike(z, k) /\ Alike(z, a) /\ Alike(z, b)
    BY FlagsAlike
  <1>2. a.t.num = z.t.num
    BY <1>1 DEF Alike
  <1>3. \/ z' = Shutdown(k)
        \/ z' = b
        \/ z' = Refused(a, 408)
        \/ z' = Shutdown(a)
    BY <1>2 DEF Timers, Keepalive, Activity, Refused
  <1> HIDE DEF k, a, b
  <1>4. Sound(k) /\ Sound(a) /\ Sound(b) /\ Reading(b, u)
    BY <1>1, AlikeKept
  <1>5. /\ Sound(Shutdown(k)) /\ Reading(Shutdown(k), u)
        /\ Sound(Shutdown(a)) /\ Reading(Shutdown(a), u)
        /\ Sound(Refused(a, 408)) /\ Reading(Refused(a, 408), u)
    BY <1>4, ClosedReading
  <1> QED
    BY <1>3, <1>4, <1>5

\* The stream ends, and the response with it.
LEMMA StreamEndsStep ==
    ASSUME StreamEnds, Sound(z), NEW u, Reading(z, u)
    PROVE  Sound(z') /\ Reading(z', u)
  <1> DEFINE a == [z EXCEPT !.t.resp = Sent, !.nested = 0]
  <1>1. /\ z \in SessionType /\ z.t \in TransactionType /\ z.t.resp >= Body
        /\ z.must => z.chan # "open"
    <2>1. z \in SessionType /\ z.t \in TransactionType /\ Turns(z)
      BY DEF Sound, SessionType
    <2>2. z.nested = 1
      BY DEF StreamEnds
    <2> QED
      BY <2>1, <2>2 DEF Turns, TransactionType
  <1>2. z' = SendEnd(a, z.t.num)
    BY <1>1 DEF StreamEnds, Session, SessionType
  <1> HIDE DEF a
  <1>3. Sound(a) /\ Kept(z, a) /\ a.t.resp = Sent /\ a.nested = 0
    <2>1. Sent \in {Sending, Sent} /\ 0 \in 0 .. 2
      OBVIOUS
    <2> QED
      BY <1>1, <2>1, BodySound DEF a
  <1>4. /\ Sound(SendEnd(a, a.t.num)) /\ Kept(a, SendEnd(a, a.t.num))
        /\ SendEnd(a, a.t.num).t.resp = Ended
    BY <1>3, EndSound
  <1>5. z' = SendEnd(a, a.t.num)
    BY <1>2, <1>3 DEF Kept
  <1>6. Sound(z') /\ Kept(z, z') /\ z'.t.resp # Unsaid /\ z.t.resp # Unsaid
    <2>1. z.t.resp # Unsaid
      BY <1>1 DEF TransactionType
    <2> QED
      BY <1>3, <1>4, <1>5, <2>1, KeptTransitive
  <1> QED
    BY <1>6, KeptReading

LEMMA DestroyStep ==
    ASSUME Destroy, Sound(z), NEW u, Reading(z, u)
    PROVE  Sound(z') /\ Reading(z', u)
  <1> DEFINE t == [z.t EXCEPT !.gone = TRUE]
             a == Turned(z, t, z.p)
  <1>1. z \in SessionType /\ z.t \in TransactionType /\ z.p \in ParserType /\ Turns(z)
    BY DEF Sound, SessionType
  <1>2. z' = [a EXCEPT !.keep = FALSE, !.act = FALSE]
    BY <1>1 DEF Destroy, Session, Detached, Turned, SessionType
  <1>3. /\ t \in TransactionType /\ t.resp = z.t.resp /\ t.code = z.t.code /\ t.num = z.t.num
        /\ t.wants = z.t.wants /\ t.got = z.t.got
    BY <1>1 DEF TransactionType
  <1> HIDE DEF t, a
  <1>4. Sound(a) /\ a.cons = z.cons
    BY <1>1, <1>3, TurnedSound DEF a
  <1>5. ~z.cons
    BY <1>1 DEF Destroy, Turns
  <1>6. Alike(a, z') /\ ~z'.cons
    <2>1. a \in SessionType
      BY <1>4 DEF Sound
    <2>2. a.nested <= a.nested
      BY <2>1 DEF SessionType
    <2>3. z' \in SessionType
      BY <1>2, <2>1 DEF SessionType
    <2> QED
      BY <1>2, <1>4, <1>5, <2>1, <2>2, <2>3 DEF Alike, SessionType
  <1>7. Sound(z')
    BY <1>4, <1>6, AlikeKept
  <1> QED
    BY <1>6, <1>7 DEF Reading

LEMMA PositionsInNat ==
    ASSUME kinds \in [Requests -> Kinds], NEW u \in Positions
    PROVE  u[1] \in Nat /\ u[2] \in Nat
  <1>1. MaxRequests \in Nat
    BY BoundsAssumption
  <1>2. CASE u = End
    BY <1>1, <1>2 DEF End
  <1>3. CASE u # End
    <2>1. u[1] \in Requests /\ kinds[u[1]] \in Kinds /\ u[2] \in DOMAIN Message[kinds[u[1]]]
      BY <1>3, PositionsAre
    <2>2. u[2] \in 1 .. Len(Message[kinds[u[1]]]) /\ Len(Message[kinds[u[1]]]) \in 1 .. 6
      BY <2>1, Lengths
    <2> QED
      BY <1>1, <2>1, <2>2 DEF Requests
  <1> QED
    BY <1>2, <1>3

LEMMA InitSound ==
    ASSUME Init
    PROVE  Inv
  <1>1. /\ kinds \in [Requests -> Kinds] /\ came = <<1, 1>> /\ used = <<1, 1>> /\ z = Fresh
    BY DEF Init
  <1>2. 1 \in Requests /\ MaxRequests \in Nat /\ Requests \subseteq Nat
    BY BoundsAssumption DEF Requests
  <1>3. <<1, 1>> \in Positions
    <2>1. PICK l \in 1 .. 6 : DOMAIN Message[kinds[1]] = 1 .. l
      <3>1. kinds[1] \in Kinds
        BY <1>1, <1>2
      <3> QED
        BY <3>1, LengthOf
    <2>2. 1 \in DOMAIN Message[kinds[1]]
      BY <2>1
    <2> QED
      BY <1>2, <2>2 DEF Positions
  <1>4. NotBefore(came, used)
    BY <1>1 DEF NotBefore
  <1>5. /\ NewTransaction \in TransactionType /\ NewParser \in ParserType
    BY <1>2 DEF NewTransaction, NewParser, TransactionType, ParserType
  <1>6. /\ Fresh \in SessionType /\ Fresh.t = NewTransaction /\ Fresh.p = NewParser
        /\ Fresh.made = 1 /\ ~Fresh.must /\ Fresh.cons /\ Fresh.chan = "open" /\ ~Fresh.waits
        /\ Fresh.nested = 0 /\ Fresh.ops = {} /\ Fresh.sent = <<>>
        /\ Fresh.stored \in [Requests -> Nat] /\ \A r \in Requests : Fresh.stored[r] = 0
    <2>1. <<>> \in Seq(ResponseType) /\ [r \in Requests |-> 0] \in [Requests -> Nat]
      OBVIOUS
    <2> QED
      BY <1>5, <2>1 DEF Fresh, SessionType
  <1>7. /\ Fresh.t.num = 1 /\ Fresh.t.resp = Unsaid /\ Fresh.t.code = 0 /\ ~Fresh.t.got
        /\ Fresh.t.writer = "none"
    BY <1>6 DEF NewTransaction
  <1>8. Ordered(Fresh)
    BY <1>6, <1>7 DEF Ordered
  <1>9. Stored(Fresh)
    BY <1>6, <1>7 DEF Stored
  <1>10. Turns(Fresh)
    BY <1>6, <1>7 DEF Turns
  <1>11. Reading(Fresh, <<1, 1>>)
    <2>1. Stage(kinds[1], 1, NewParser, "none", 0)
      BY DEF Stage
    <2>2. Stage(kinds[Fresh.t.num], 1, Fresh.p, Fresh.t.writer, Fresh.stored[Fresh.t.num])
      BY <1>2, <1>6, <1>7, <2>1
    <2> QED
      BY <1>2, <1>6, <1>7, <2>2 DEF Reading
  <1> HIDE DEF Fresh
  <1> QED
    BY <1>1, <1>3, <1>4, <1>6, <1>8, <1>9, <1>10, <1>11 DEF Inv, Sound

\* Every step of the session, its timers, its channel and its client.
LEMMA NextSound ==
    ASSUME Inv, [Next]_vars
    PROVE  Inv'
  <1>1. /\ kinds \in [Requests -> Kinds] /\ used \in Positions /\ came \in Positions
        /\ NotBefore(came, used) /\ Sound(z) /\ Reading(z, used)
    BY DEF Inv
  <1>2. ASSUME Sound(z'), Reading(z', used), UNCHANGED <<kinds, came, used>>
        PROVE  Inv'
    <2>1. Sound(z)' /\ Reading(z, used)' /\ Positions' = Positions
      BY <1>2 DEF Sound, Ordered, Stored, Turns, Reading, Positions
    <2>2. NotBefore(came, used)'
      BY <1>1, <1>2 DEF NotBefore
    <2> QED
      BY <1>1, <1>2, <2>1, <2>2 DEF Inv
  <1>3. CASE Consume
    BY <1>3, ConsumeStep
  <1>4. ASSUME NEW i \in 1 .. z.made, Answer(i)
        PROVE  Inv'
    <2>1. Sound(z') /\ Reading(z', used)
      BY <1>1, <1>4, AnswerStep
    <2> QED
      BY <1>2, <1>4, <2>1 DEF Answer
  <1>5. CASE Timers
    <2>1. Sound(z') /\ Reading(z', used)
      BY <1>1, <1>5, TimersStep
    <2> QED
      BY <1>2, <1>5, <2>1 DEF Timers, Keepalive, Activity
  <1>6. CASE Wake \/ Flush \/ StreamPiece
    <2>1. Alike(z, z')
      BY <1>1, <1>6, FlagsAlike DEF Wake, Flush, StreamPiece, Session
    <2>2. Sound(z') /\ Reading(z', used)
      BY <1>1, <2>1, AlikeKept
    <2> QED
      BY <1>2, <1>6, <2>2 DEF Wake, Flush, StreamPiece, Session
  <1>7. CASE StreamEnds
    <2>1. Sound(z') /\ Reading(z', used)
      BY <1>1, <1>7, StreamEndsStep
    <2> QED
      BY <1>2, <1>7, <2>1 DEF StreamEnds, Session
  <1>8. CASE StreamFails \/ ShutdownEnds \/ Break
    <2>1. z' = ChannelDone(z) /\ UNCHANGED <<kinds, came, used>>
      BY <1>8 DEF StreamFails, ShutdownEnds, Break, Session
    <2>2. Sound(z') /\ Reading(z', used)
      BY <1>1, <2>1, ClosedReading
    <2> QED
      BY <1>2, <2>1, <2>2
  <1>9. CASE Destroy
    <2>1. Sound(z') /\ Reading(z', used)
      BY <1>1, <1>9, DestroyStep
    <2> QED
      BY <1>2, <1>9, <2>1 DEF Destroy, Session
  <1>10. CASE Receive
    <2>1. /\ came # End /\ came' = Following(came) /\ z' = [z EXCEPT !.busy = TRUE]
          /\ kinds' = kinds /\ used' = used
      BY <1>10 DEF Receive
    <2>2. Sound(z') /\ Reading(z', used)
      <3>1. Alike(z, z')
        BY <1>1, <2>1, FlagsAlike
      <3> QED
        BY <1>1, <3>1, AlikeKept
    <2>3. Following(came) \in Positions /\ NotBefore(Following(came), came)
      BY <1>1, <2>1, FollowingOrdered
    <2>4. NotBefore(Following(came), used)
      <3> PICK f \in Positions : f = Following(came)
        BY <2>3
      <3>1. /\ f[1] \in Nat /\ f[2] \in Nat /\ came[1] \in Nat /\ came[2] \in Nat
            /\ used[1] \in Nat /\ used[2] \in Nat
        BY <1>1, PositionsInNat
      <3>2. NotBefore(f, came)
        BY <2>3
      <3> QED
        BY <1>1, <3>1, <3>2 DEF NotBefore
    <2>5. Sound(z)' /\ Reading(z, used)' /\ Positions' = Positions
      BY <2>1, <2>2 DEF Sound, Ordered, Stored, Turns, Reading, Positions
    <2>6. NotBefore(came, used)'
      BY <2>1, <2>4 DEF NotBefore
    <2> QED
      BY <1>1, <2>1, <2>3, <2>5, <2>6 DEF Inv
  <1>11. CASE UNCHANGED vars
    BY <1>1, <1>2, <1>11 DEF vars
  <1> QED
    BY <1>3, <1>4, <1>5, <1>6, <1>7, <1>8, <1>9, <1>10, <1>11 DEF Next

LEMMA Invariant == Spec => []Inv
  <1>1. Init => Inv
    BY InitSound
  <1>2. Inv /\ [Next]_vars => Inv'
    BY NextSound
  <1> QED
    BY <1>1, <1>2, PTL DEF Spec

(***************************************************************************)
(* What it shows.                                                          *)
(***************************************************************************)

(* Every component of the session stays in its range; the parser never     *)
(* overtakes the client, there are no more transactions than requests, and *)
(* while the channel waits for the consumer, either the transaction knows  *)
(* that it has to tell it or it has told it already.                       *)
THEOREM HttpTyped == Spec => []TypeOK
  <1>1. Inv => TypeOK
    <2> SUFFICES ASSUME Inv PROVE TypeOK
      OBVIOUS
    <2>1. /\ z \in SessionType /\ z.t \in TransactionType /\ z.p \in ParserType /\ Turns(z)
          /\ used \in Positions /\ came \in Positions /\ NotBefore(came, used)
      BY DEF Inv, Sound, SessionType
    <2>2. z.made \in Requests
      BY <2>1 DEF Turns, TransactionType
    <2>3. z.made <= MaxRequests
      BY <2>2, BoundsAssumption DEF Requests
    <2>4. /\ z.nested \in 0 .. 2 /\ z.chan \in {"open", "shut", "done"}
      BY <2>1 DEF SessionType
    <2>5. z.t.resp \in Unsaid..Ended /\ z.t.writer \in {"none", "file", "string"}
      BY <2>1 DEF TransactionType
    <2>6. /\ z.p.at \in {"start", "headers", "size", "body", "finish", "trailer"}
          /\ z.p.left \in 0 .. 2 /\ z.p.rem \in 0 .. 2
      BY <2>1 DEF ParserType
    <2> QED
      BY <2>1, <2>3, <2>4, <2>5, <2>6 DEF TypeOK, Turns, NotBefore
  <1> QED
    BY <1>1, Invariant, PTL

(* For any number of pipelined requests of any kinds, whatever of them has *)
(* arrived, whenever the handlers answer, whatever the parser refuses and  *)
(* whichever timer fires: the responses on the connection are one for each *)
(* request, in their order, each complete before the next begins, and no   *)
(* bytes follow the end of one unless the session is closing.              *)
THEOREM ResponsesOrdered == Spec => []ResponsesInOrder
  <1>1. Inv => ResponsesInOrder
    BY DEF Inv, Sound, Ordered, ResponsesInOrder
  <1> QED
    BY <1>1, Invariant, PTL

(* Whatever the writes come to, a response 204 to a request with a chunked *)
(* body means that every piece of it is in the file: the parser waits for  *)
(* what is left of the body before it reads on.  For a body of known       *)
(* length the same holds if "put" is not among the ShortWrites.            *)
THEOREM ChunkedStored ==
    Spec => [](\A i \in DOMAIN z.sent :
                  z.sent[i].code = 204 /\ Whole(kinds[z.sent[i].req]) =>
                     z.stored[z.sent[i].req] = 2)
  <1>1. Inv => \A i \in DOMAIN z.sent :
                  z.sent[i].code = 204 /\ Whole(kinds[z.sent[i].req]) =>
                     z.stored[z.sent[i].req] = 2
    BY DEF Inv, Sound, Ordered, Stored
  <1> QED
    BY <1>1, Invariant, PTL

(* As long as a write to the file of a body of known length takes all of a *)
(* piece or fails, a response 204 in any of the responses means that every *)
(* piece of the body of its request is in the file.                        *)
THEOREM UploadsStored ==
    ASSUME "put" \notin ShortWrites
    PROVE  Spec => []UploadIsStored
  <1>1. Inv => UploadIsStored
    BY DEF Inv, Sound, Ordered, Stored, Whole, UploadIsStored
  <1> QED
    BY <1>1, Invariant, PTL
=============================================================================
