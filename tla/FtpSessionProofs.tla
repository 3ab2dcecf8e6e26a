-------------------------- MODULE FtpSessionProofs --------------------------
(* Proofs about FtpSession, for every client and any options and bounds.    *)
(* What a handler does to the state is stated as a relation between two     *)
(* records; an action composes a few of them.                               *)
EXTENDS FtpSession, SequenceTheorems, TLAPS

Fields == {"inbox", "stalled", "wake", "open", "cur", "queued", "recv", "ops", "nested",
           "rename", "file", "epsvOnly", "timer", "user", "authOp", "fails", "owed", "torn",
           "overtaken", "tls", "authed", "protP", "authing", "lsn", "port", "sock", "lookup",
           "info", "xfer", "chan", "done", "shutting", "shutErr", "prev", "ended"}

Types(s) ==
    /\ s.inbox \in Seq(AllCmds) /\ s.stalled \in BOOLEAN /\ s.wake \in BOOLEAN
    /\ s.open \in {"open", "shut", "done"} /\ s.cur \in AllCmds \cup {None}
    /\ s.queued \in BOOLEAN /\ s.recv \in {"idle", "pending", "aborting"}
    /\ s.ops \in Seq(AsyncCmds)
    /\ s.nested \in BOOLEAN /\ s.rename \in BOOLEAN /\ s.file \in BOOLEAN
    /\ s.epsvOnly \in BOOLEAN /\ s.timer \in {"none", "login", "activity"}
    /\ s.user \in BOOLEAN /\ s.authOp \in BOOLEAN /\ s.fails \in 0..6 /\ s.owed \in -1..2
    /\ s.torn \in BOOLEAN /\ s.overtaken \in BOOLEAN
    /\ s.tls \in {"clear", "securing", "secured"}
    /\ s.authed \in BOOLEAN /\ s.protP \in BOOLEAN /\ s.authing \in Nat
    /\ s.lsn \in {"none", "created", "listening"} /\ s.port \in {"none", "waiting", "connected"}
    /\ s.sock \in {"none", "fresh", "connecting", "connected", "securing", "secured"}
    /\ s.lookup \in BOOLEAN /\ s.info \in BOOLEAN /\ s.xfer \in Transfers \cup {None}
    /\ s.chan \in BOOLEAN /\ s.done \in {"none", "ok", "err"} /\ s.shutting \in BOOLEAN
    /\ s.shutErr \in BOOLEAN /\ s.prev \in BOOLEAN /\ s.ended \in BOOLEAN

IsState(s) == DOMAIN s = Fields /\ Types(s)

\* The step from s to t leaves all but these fields alone.
Same(s, t, fields) == \A f \in Fields \ fields : t[f] = s[f]

-----------------------------------------------------------------------------
(* The invariant.                                                           *)

\* Something is still promised to the client, unless the session is to end.
Going(s) == s.open = "open" /\ ~s.overtaken

\* The parts of the data connection agree, and nothing is under way while the
\* TLS handshake of the control connection is, until a command is overtaken.
DataOK(s) ==
    /\ ~s.overtaken =>
         /\ s.chan \/ s.done # "none" => s.sock # "none" /\ s.xfer # None
         /\ s.prev => s.sock = "none" /\ s.lsn = "none"
         /\ s.lsn # "none" => s.sock = "none"
         /\ s.chan => (s.tls = "secured") = (s.sock = "secured")
         /\ s.protP \/ s.sock \in {"securing", "secured"} => s.tls = "secured"
         /\ s.tls = "securing" => s.ops = <<>> /\ s.xfer = None
    /\ PortRange /\ s.lsn = "listening" => s.port = "waiting"
    /\ s.tls = "securing" => s.inbox = <<>>

\* The lines and the bounds.  While an operation is being aborted ABOR waits.
LineOK(s) ==
    /\ s.wake \/ s.queued => s.stalled
    /\ ~ (s.wake /\ s.queued)
    /\ s.recv = "aborting" => ~s.wake /\ ~s.queued /\ (s.open = "open" => s.stalled)
    /\ Len(s.inbox) <= MaxInbox /\ Len(s.ops) <= MaxOps /\ s.authing <= MaxOps

\* What the session is doing for the command, one thing at a time.
WorkOK(s) ==
    /\ s.ops # <<>> => /\ s.ops = <<s.cur>>
                       /\ s.xfer = None /\ ~s.nested /\ s.authing = 0 /\ ~s.lookup
    /\ s.xfer # None => s.cur = s.xfer /\ ~s.nested /\ s.authing = 0 /\ ~s.lookup
    /\ s.nested => s.cur = "STAT" /\ s.authing = 0 /\ ~s.lookup
    /\ s.authing # 0 => s.authing = 1 /\ s.cur \in Login /\ ~s.authed /\ ~s.lookup
    /\ s.lookup => s.cur = "PASV"
    /\ s.file => s.cur \in FileCmds /\ s.ops = <<>>

\* Nothing is under way.
Idle(s) ==
    s.ops = <<>> /\ s.xfer = None /\ ~s.nested /\ s.authing = 0 /\ ~s.lookup /\ ~s.file

\* Nothing is under way for the command, and its answer is owed.
Free(s) == Going(s) => s.owed = 1 /\ Idle(s)

TimerOK(s) ==
    /\ ~s.authed /\ s.authing = 0 => s.timer = "login"
    /\ s.authed => s.timer = "activity"

\* What holds as long as something is promised.
OpenOK(s) == s.owed = (IF s.cur = None THEN 0 ELSE 1) /\ WorkOK(s)

Timed(s) == s.open = "open" /\ ~s.ended => TimerOK(s)
Sound(s) == IsState(s) /\ DataOK(s) /\ LineOK(s)
Good(s)  == Sound(s) /\ Timed(s) /\ (Going(s) => OpenOK(s))

\* A session that is shut down, ended or past its promises stays so.
Onward(s, r) ==
    /\ r.open = "open" => s.open = "open"
    /\ s.ended => r.ended
    /\ s.overtaken => r.overtaken

\* Past its promises a session need only be sound and timed.
LEMMA Unpromised ==
    ASSUME NEW s, Sound(s), Timed(s), ~Going(s)
    PROVE  Good(s)
  BY DEF Good

LEMMA OnwardTwice ==
    ASSUME NEW s, NEW t, NEW r, Onward(s, t), Onward(t, r)
    PROVE  Onward(s, r)
  BY DEF Onward

LEMMA Constants ==
    /\ None \notin AllCmds /\ None \notin Transfers /\ Transfers \subseteq AsyncCmds
    /\ AsyncCmds \subseteq AllCmds \ {"ABOR"} /\ FileCmds \subseteq Transfers
    /\ Login \subseteq AllCmds \ AsyncCmds /\ "STAT" \notin Transfers
    /\ "STAT" \in AsyncCmds /\ "PASV" \in AllCmds \ (AsyncCmds \cup Login)
    /\ MaxInbox \in Nat \ {0} /\ MaxOps \in Nat \ {0}
  <1>1. Transfers \subseteq AsyncCmds /\ AsyncCmds \subseteq AllCmds
    BY DEF AsyncCmds, AllCmds, NeedsAuth
  <1>2. "ABOR" \notin AsyncCmds /\ "STAT" \in AsyncCmds /\ "STAT" \notin Transfers
    BY DEF AsyncCmds, PathOps, Transfers, FileCmds, ListCmds
  <1>3. FileCmds \subseteq Transfers /\ Login \subseteq AllCmds
    BY DEF Transfers, AllCmds
  <1>4. Login \cap AsyncCmds = {} /\ "PASV" \notin AsyncCmds \cup Login
    BY DEF AsyncCmds, PathOps, Transfers, FileCmds, ListCmds, Login
  <1>5. "PASV" \in AllCmds
    BY DEF AllCmds, NeedsAuth, Passive
  <1>6. None \notin AllCmds /\ MaxInbox \in Nat \ {0} /\ MaxOps \in Nat \ {0}
    BY CmdsAssumption, FlagsAssumption
  <1> QED
    BY <1>1, <1>2, <1>3, <1>4, <1>5, <1>6

-----------------------------------------------------------------------------
(* Replies.                                                                 *)

\* The control channel is as before, or it is shut down.
Kept(s, r) ==
    \/ /\ r.open = s.open /\ r.inbox = s.inbox /\ r.stalled = s.stalled
       /\ r.wake = s.wake /\ r.queued = s.queued
    \/ s.open = "open" /\ r.open = "shut" /\ r.inbox = <<>> /\ ~r.wake /\ ~r.queued

ChannelFields == {"open", "inbox", "stalled", "wake", "queued"}

LEMMA ShutdownFacts ==
    ASSUME NEW s, IsState(s), NEW r, r = Shutdown(s)
    PROVE  IsState(r) /\ Same(s, r, ChannelFields) /\ Kept(s, r) /\ r.open # "open"
  <1>1. CASE s.open # "open"
    BY <1>1 DEF IsState, Types, Same, Kept, Shutdown
  <1>2. CASE s.open = "open"
    <2>1. r = [s EXCEPT !.open = "shut", !.inbox = <<>>, !.stalled = FALSE, !.wake = FALSE,
                        !.queued = FALSE]
      BY <1>2 DEF Shutdown
    <2>2. DOMAIN r = Fields /\ r.open = "shut" /\ r.inbox = <<>> /\ ~r.stalled /\ ~r.wake /\ ~r.queued
      BY <2>1 DEF IsState, Fields
    <2>3. Same(s, r, ChannelFields)
      BY <2>1 DEF IsState, Same, Fields, ChannelFields
    <2>4. Types(r)
      BY <2>1 DEF IsState, Types, Fields
    <2> QED
      BY <1>2, <2>2, <2>3, <2>4 DEF IsState, Kept
  <1> QED
    BY <1>1, <1>2

LEMMA CountFailureFacts ==
    ASSUME NEW s, IsState(s), NEW class, NEW r, r = CountFailure(s, class)
    PROVE  IsState(r) /\ Same(s, r, ChannelFields \cup {"fails"}) /\ Kept(s, r)
  <1>1. CASE \E n \in 0..6 : r = [s EXCEPT !.fails = n]
    <2> PICK n \in 0..6 : r = [s EXCEPT !.fails = n]
      BY <1>1
    <2>1. DOMAIN r = Fields /\ Types(r)
      BY DEF IsState, Types, Fields
    <2>2. Same(s, r, {"fails"})
      BY DEF IsState, Same, Fields
    <2> QED
      BY <2>1, <2>2 DEF IsState, Same, Fields, ChannelFields, Kept
  <1>2. CASE r = s
    BY <1>2 DEF Same, Kept
  <1>3. CASE \E n \in 0..6 : r = Shutdown([s EXCEPT !.fails = n])
    <2> PICK n \in 0..6 : r = Shutdown([s EXCEPT !.fails = n])
      BY <1>3
    <2> PICK t : t = [s EXCEPT !.fails = n]
      OBVIOUS
    <2>1. IsState(t)
      BY DEF IsState, Types, Fields
    <2>2. Same(s, t, {"fails"})
      BY DEF IsState, Same, Fields
    <2>3. IsState(r) /\ Same(t, r, ChannelFields) /\ Kept(t, r)
      BY <2>1, ShutdownFacts
    <2>4. Same(s, r, ChannelFields \cup {"fails"})
      BY <2>2, <2>3 DEF Same
    <2>5. t.open = s.open /\ t.inbox = s.inbox /\ t.stalled = s.stalled /\ t.wake = s.wake
          /\ t.queued = s.queued
      BY <2>2 DEF Same, Fields
    <2> QED
      BY <2>3, <2>4, <2>5 DEF Kept
  <1>4. s.fails \in 0..6
    BY DEF IsState, Types
  <1> QED
    BY <1>1, <1>2, <1>3, <1>4 DEF CountFailure

ReplyFields == ChannelFields \cup {"cur", "file", "fails", "owed", "torn"}

\* What a reply makes of the channel: a line that waits for it is taken up, or
\* the channel is shut down.
Resumed(s, r) ==
    \/ /\ r.open = s.open /\ r.inbox = s.inbox /\ r.stalled = s.stalled
       /\ \/ r.wake = s.wake /\ r.queued = s.queued
          \/ s.queued /\ r.wake /\ ~r.queued
    \/ s.open = "open" /\ r.open = "shut" /\ r.inbox = <<>> /\ ~r.wake /\ ~r.queued

\* What a final reply makes of the command.
Ends(s, r, class) ==
    /\ r.cur = None /\ r.owed = IF s.open = "open" /\ s.owed > -1 THEN s.owed - 1 ELSE s.owed
    /\ r.file => class = 3 /\ s.file

\* r is what a reply of the class makes of s.
ReplyOf(s, r, class) ==
    /\ IsState(r) /\ Same(s, r, ReplyFields) /\ Resumed(s, r)
    /\ class = 1 => r.cur = s.cur /\ r.owed = s.owed /\ r.file = s.file
    /\ class # 1 => Ends(s, r, class)

LEMMA RepliedFacts ==
    ASSUME NEW s, IsState(s), NEW class, NEW r, r = Replied(s, class)
    PROVE  ReplyOf(s, r, class)
  <1>1. CASE class = 1
    <2>1. IsState(r) /\ Same(s, r, ChannelFields \cup {"fails"}) /\ Kept(s, r)
      <3>1. r = CountFailure(s, 1)
        BY <1>1 DEF Replied
      <3> QED
        BY <3>1, CountFailureFacts
    <2>2. r.cur = s.cur /\ r.owed = s.owed /\ r.file = s.file
      BY <2>1 DEF Same, Fields, ChannelFields
    <2>3. Same(s, r, ReplyFields)
      BY <2>1 DEF Same, ReplyFields
    <2> QED
      BY <1>1, <2>1, <2>2, <2>3 DEF ReplyOf, Kept, Resumed
  <1>2. CASE class # 1
    <2> PICK d : d = Dequeue(s)
      OBVIOUS
    <2>1. /\ IsState(d) /\ Same(s, d, {"queued", "wake"})
          /\ \/ d.wake = s.wake /\ d.queued = s.queued
             \/ s.queued /\ d.wake /\ ~d.queued
      <3>1. CASE ~s.queued
        BY <3>1 DEF Dequeue, Same
      <3>2. CASE s.queued
        <4>1. d = [s EXCEPT !.queued = FALSE, !.wake = TRUE]
          BY <3>2 DEF Dequeue
        <4>2. DOMAIN d = Fields /\ d.wake /\ ~d.queued
          BY <4>1 DEF IsState, Fields
        <4>3. Types(d)
          BY <4>1 DEF IsState, Types, Fields
        <4>4. Same(s, d, {"queued", "wake"})
          BY <4>1 DEF IsState, Same, Fields
        <4> QED
          BY <3>2, <4>2, <4>3, <4>4 DEF IsState
      <3> QED
        BY <3>1, <3>2
    <2> PICK owed : owed = IF s.open = "open" /\ s.owed > -1 THEN s.owed - 1 ELSE s.owed
      OBVIOUS
    <2>2. owed \in -1..2
      BY DEF IsState, Types
    <2>3. d.owed = s.owed /\ d.open = s.open /\ d.inbox = s.inbox /\ d.stalled = s.stalled
          /\ d.file = s.file
      BY <2>1 DEF Same, Fields
    <2> PICK e : e = [d EXCEPT !.cur = None, !.owed = owed]
      OBVIOUS
    <2>4. DOMAIN e = Fields /\ e.cur = None /\ e.owed = owed
      BY <2>1 DEF IsState, Fields
    <2>5. Types(e)
      BY <2>1, <2>2 DEF IsState, Types, Fields
    <2>6. Same(d, e, {"cur", "owed"})
      BY <2>1 DEF IsState, Same, Fields
    <2> PICK f : f = IF class = 3 THEN e ELSE [e EXCEPT !.file = FALSE]
      OBVIOUS
    <2>7. /\ IsState(f) /\ Same(e, f, {"file"})
          /\ (f.file => class = 3 /\ s.file)
      <3>1. CASE class = 3
        <4>1. e.file = s.file
          BY <2>3, <2>6 DEF Same, Fields
        <4> QED
          BY <2>4, <2>5, <3>1, <4>1 DEF IsState, Same, Types
      <3>2. CASE class # 3
        <4>1. f = [e EXCEPT !.file = FALSE]
          BY <3>2
        <4>2. DOMAIN f = Fields /\ f.file = FALSE
          BY <2>4, <4>1 DEF Fields
        <4>3. Types(f)
          BY ONLY <2>4, <2>5, <4>1 DEF Types, Fields
        <4>4. Same(e, f, {"file"})
          BY <2>4, <4>1 DEF Same, Fields
        <4> QED
          BY <3>2, <4>2, <4>3, <4>4 DEF IsState
      <3> QED
        BY <3>1, <3>2
    <2>8. r = CountFailure(f, class)
      <3>1. e = [Dequeue(s) EXCEPT !.cur = None, !.owed = IF s.open = "open" /\ @ > -1 THEN @ - 1 ELSE @]
        BY <2>3
      <3> QED
        BY <1>2, <3>1 DEF Replied
    <2>9. IsState(r) /\ Same(f, r, ChannelFields \cup {"fails"}) /\ Kept(f, r)
      BY <2>7, <2>8, CountFailureFacts
    <2>10. Same(s, r, ReplyFields)
      BY <2>1, <2>6, <2>7, <2>9 DEF Same, ReplyFields, ChannelFields
    <2>11. /\ f.open = s.open /\ f.inbox = s.inbox /\ f.stalled = s.stalled
           /\ f.wake = d.wake /\ f.queued = d.queued /\ f.cur = None /\ f.owed = owed
      BY <2>3, <2>4, <2>6, <2>7 DEF Same, Fields
    <2>12. r.cur = None /\ r.owed = owed /\ r.file = f.file
      BY ZenonT(60), <2>9, <2>11 DEF Same, Fields, ChannelFields
    <2>13. \/ /\ r.open = s.open /\ r.inbox = s.inbox /\ r.stalled = s.stalled
              /\ r.wake = d.wake /\ r.queued = d.queued
           \/ s.open = "open" /\ r.open = "shut" /\ r.inbox = <<>> /\ ~r.wake /\ ~r.queued
      BY <2>9, <2>11 DEF Kept
    <2>14. Resumed(s, r)
      BY ONLY <2>1, <2>13 DEF Resumed
    <2>15. Ends(s, r, class)
      BY <2>7, <2>12 DEF Ends
    <2> QED
      BY ONLY <1>2, <2>9, <2>10, <2>14, <2>15 DEF ReplyOf
  <1> QED
    BY <1>1, <1>2

LEMMA ReplyFacts ==
    ASSUME NEW s, IsState(s), NEW class, NEW r, r = Reply(s, class)
    PROVE  ReplyOf(s, r, class)
  <1> PICK t : t = [s EXCEPT !.torn = @ \/ s.nested]
    OBVIOUS
  <1>1. DOMAIN t = Fields /\ Types(t)
    BY DEF IsState, Types, Fields
  <1>2. Same(s, t, {"torn"})
    BY DEF IsState, Same, Fields
  <1>3. r = Replied(t, class)
    BY DEF Reply
  <1>4. ReplyOf(t, r, class)
    BY <1>1, <1>3, RepliedFacts DEF IsState
  <1>5. /\ t.open = s.open /\ t.inbox = s.inbox /\ t.stalled = s.stalled /\ t.wake = s.wake
        /\ t.queued = s.queued /\ t.cur = s.cur /\ t.owed = s.owed /\ t.file = s.file
    BY <1>2 DEF Same, Fields
  <1>6. Same(s, r, ReplyFields)
    BY <1>2, <1>4 DEF ReplyOf, Same, ReplyFields
  <1> QED
    BY <1>4, <1>5, <1>6 DEF ReplyOf, Resumed, Ends

\* A reply leaves the data connection alone.
LEMMA ReplyKeeps ==
    ASSUME NEW s, Sound(s), NEW class, NEW r, ReplyOf(s, r, class)
    PROVE  /\ Sound(r) /\ Onward(s, r) /\ r.xfer = s.xfer /\ r.ended = s.ended
           /\ r.ops = s.ops /\ r.nested = s.nested /\ r.authing = s.authing
           /\ r.lookup = s.lookup /\ r.authed = s.authed /\ r.timer = s.timer
           /\ r.overtaken = s.overtaken
  <1>1. /\ r.chan = s.chan /\ r.done = s.done /\ r.sock = s.sock /\ r.xfer = s.xfer
        /\ r.prev = s.prev /\ r.lsn = s.lsn /\ r.port = s.port /\ r.tls = s.tls
        /\ r.protP = s.protP /\ r.ops = s.ops /\ r.ended = s.ended
        /\ r.overtaken = s.overtaken /\ r.recv = s.recv /\ r.authing = s.authing
    BY DEF ReplyOf, Same, Fields, ReplyFields, ChannelFields
  <1>2. r.inbox = s.inbox \/ r.inbox = <<>>
    BY DEF ReplyOf, Resumed
  <1>3. DataOK(r)
    BY <1>1, <1>2 DEF Sound, DataOK
  <1>4. LineOK(r)
    <2>1. Len(r.inbox) <= MaxInbox /\ Len(r.ops) <= MaxOps /\ r.authing <= MaxOps
      BY <1>1, <1>2, Constants DEF Sound, LineOK
    <2>2. (r.wake \/ r.queued => r.stalled) /\ ~ (r.wake /\ r.queued)
      BY DEF Sound, LineOK, ReplyOf, Resumed
    <2>3. r.recv = "aborting" => ~r.wake /\ ~r.queued /\ (r.open = "open" => r.stalled)
      BY <1>1 DEF Sound, LineOK, ReplyOf, Resumed
    <2> QED
      BY <2>1, <2>2, <2>3 DEF LineOK
  <1>5. /\ r.nested = s.nested /\ r.lookup = s.lookup /\ r.authed = s.authed
        /\ r.timer = s.timer
    BY DEF ReplyOf, Same, Fields, ReplyFields, ChannelFields
  <1>6. Onward(s, r)
    BY <1>1 DEF Onward, ReplyOf, Resumed
  <1> QED
    BY <1>1, <1>3, <1>4, <1>5, <1>6 DEF Sound, ReplyOf

\* A reply to a command that was overtaken, or on a channel that is shut down.
LEMMA ReplyUnpromised ==
    ASSUME NEW s, Good(s), ~Going(s), NEW class, NEW r, ReplyOf(s, r, class)
    PROVE  Good(r) /\ ~Going(r) /\ Onward(s, r)
  <1>1. /\ Sound(r) /\ Onward(s, r) /\ r.authing = s.authing /\ r.authed = s.authed
        /\ r.timer = s.timer
    BY ReplyKeeps DEF Good
  <1>2. ~Going(r) /\ Timed(r)
    BY <1>1 DEF Good, Going, Timed, TimerOK, Onward
  <1> QED
    BY <1>1, <1>2, Unpromised

\* A final reply ends a command of which no work is under way.
LEMMA AnswerEnds ==
    ASSUME NEW s, Sound(s), Free(s), NEW class, class # 1, NEW r, ReplyOf(s, r, class)
    PROVE  /\ Sound(r) /\ Onward(s, r) /\ r.cur = None /\ r.xfer = s.xfer
           /\ Going(r) => r.owed = 0 /\ WorkOK(r) /\ Idle(r)
           /\ r.authed = s.authed /\ r.authing = s.authing /\ r.timer = s.timer
  <1>1. /\ Sound(r) /\ Onward(s, r) /\ r.xfer = s.xfer
        /\ r.ops = s.ops /\ r.nested = s.nested /\ r.authing = s.authing
        /\ r.lookup = s.lookup /\ r.authed = s.authed /\ r.timer = s.timer
    BY ReplyKeeps
  <1>2. Ends(s, r, class)
    BY DEF ReplyOf
  <1>3. ASSUME Going(r) PROVE r.owed = 0 /\ WorkOK(r) /\ Idle(r)
    <2>1. s.open = "open" /\ s.owed = 1 /\ Idle(s)
      BY <1>1, <1>3 DEF Onward, Free, Going
    <2>2. r.cur = None /\ r.owed = 0 /\ ~r.file
      BY <1>2, <2>1 DEF Ends, Idle
    <2>3. Idle(r)
      BY <1>1, <2>1, <2>2 DEF Idle
    <2> QED
      BY <2>2, <2>3 DEF WorkOK, Idle
  <1> QED
    BY <1>1, <1>2, <1>3 DEF Ends

LEMMA AnswerGood ==
    ASSUME NEW s, Sound(s), Timed(s), Free(s), NEW class, class # 1, NEW r,
           ReplyOf(s, r, class)
    PROVE  Good(r) /\ Onward(s, r) /\ r.cur = None /\ r.xfer = s.xfer
  <1>1. /\ Sound(r) /\ Onward(s, r) /\ r.cur = None /\ r.xfer = s.xfer
        /\ Going(r) => r.owed = 0 /\ WorkOK(r)
        /\ r.authed = s.authed /\ r.authing = s.authing /\ r.timer = s.timer
    BY AnswerEnds
  <1>2. Timed(r)
    BY <1>1 DEF Timed, TimerOK, Onward
  <1> QED
    BY <1>1, <1>2 DEF Good, OpenOK

LEMMA ShutdownGood ==
    ASSUME NEW s, Sound(s), NEW r, r = Shutdown(s)
    PROVE  Good(r) /\ r.open # "open" /\ Onward(s, r)
  <1>1. Same(s, r, ChannelFields) /\ Kept(s, r) /\ r.open # "open" /\ IsState(r)
    BY ShutdownFacts DEF Sound
  <1>2. r.ended = s.ended /\ r.ops = s.ops /\ r.authing = s.authing /\ r.recv = s.recv
        /\ r.overtaken = s.overtaken
    BY <1>1 DEF Same, Fields, ChannelFields
  <1>3. r.inbox = s.inbox \/ r.inbox = <<>>
    BY <1>1 DEF Kept
  <1>4. DataOK(r)
    BY <1>1, <1>3 DEF Sound, DataOK, Same, Fields, ChannelFields
  <1>5. Len(r.inbox) <= MaxInbox /\ Len(r.ops) <= MaxOps /\ r.authing <= MaxOps
    BY <1>2, <1>3, Constants DEF Sound, LineOK
  <1>6. (r.wake \/ r.queued => r.stalled) /\ ~ (r.wake /\ r.queued)
    BY <1>1 DEF Sound, LineOK, Kept
  <1>7. r.recv = "aborting" => ~r.wake /\ ~r.queued /\ (r.open = "open" => r.stalled)
    BY <1>1, <1>2 DEF Sound, LineOK, Kept
  <1>8. Sound(r)
    BY <1>1, <1>4, <1>5, <1>6, <1>7 DEF Sound, LineOK
  <1> QED
    BY <1>1, <1>2, <1>8 DEF Good, Timed, Going, Onward

-----------------------------------------------------------------------------
(* The data connection.                                                     *)

CloseFields == {"done", "chan", "sock", "lsn", "port", "info", "xfer", "shutting"}

LEMMA CloseFacts ==
    ASSUME NEW s, IsState(s), NEW r, r = CloseDataConnection(s)
    PROVE  /\ IsState(r) /\ Same(s, r, CloseFields)
           /\ r.done = "none" /\ ~r.chan /\ r.sock = "none" /\ r.lsn = "none" /\ r.xfer = None
  <1>1. r = [s EXCEPT !.done = "none", !.chan = FALSE, !.sock = "none", !.lsn = "none",
                      !.port = "none", !.info = FALSE, !.xfer = None, !.shutting = FALSE]
    BY DEF CloseDataConnection
  <1>2. /\ DOMAIN r = Fields /\ r.done = "none" /\ ~r.chan /\ r.sock = "none"
        /\ r.lsn = "none" /\ r.xfer = None
    BY <1>1 DEF IsState, Fields
  <1>3. Types(r)
    BY <1>1 DEF IsState, Types, Fields
  <1>4. Same(s, r, CloseFields)
    BY <1>1 DEF IsState, Same, Fields, CloseFields
  <1> QED
    BY <1>2, <1>3, <1>4 DEF IsState

\* The session goes on with its command and its transfer, or has answered it
\* and is done with the transfer.
Settled(s, r) ==
    /\ Onward(s, r)
    /\ Going(r) =>
         \/ r.cur = s.cur /\ r.xfer = s.xfer
         \/ s.cur # None /\ s.xfer # None /\ r.cur = None /\ r.xfer = None

\* The same fields make the same timers.
LEMMA TimedSame ==
    ASSUME NEW s, NEW r, Timed(s), Onward(s, r), r.timer = s.timer, r.authed = s.authed,
           r.authing = s.authing
    PROVE  Timed(r)
  BY DEF Timed, TimerOK, Onward

\* Closing the data connection.
LEMMA CloseGood ==
    ASSUME NEW s, Sound(s), NEW r, r = CloseDataConnection(s)
    PROVE  /\ Sound(r) /\ Onward(s, r) /\ Same(s, r, CloseFields) /\ r.xfer = None
           /\ Timed(s) => Timed(r)
  <1>1. /\ IsState(r) /\ Same(s, r, CloseFields)
        /\ r.done = "none" /\ ~r.chan /\ r.sock = "none" /\ r.lsn = "none" /\ r.xfer = None
    BY CloseFacts DEF Sound
  <1>2. DataOK(r)
    BY <1>1 DEF Sound, DataOK, Same, Fields, CloseFields
  <1>3. LineOK(r)
    BY <1>1 DEF Sound, LineOK, Same, Fields, CloseFields
  <1>4. /\ r.open = s.open /\ r.ended = s.ended /\ r.overtaken = s.overtaken
        /\ r.timer = s.timer /\ r.authed = s.authed /\ r.authing = s.authing
    BY <1>1 DEF Same, Fields, CloseFields
  <1>5. Onward(s, r)
    BY <1>4 DEF Onward
  <1>6. Timed(s) => Timed(r)
    BY <1>4, <1>5, TimedSame
  <1> QED
    BY <1>1, <1>2, <1>3, <1>5, <1>6 DEF Sound

\* What is kept of the last transfer's failure.
LEMMA KeptError ==
    ASSUME NEW s, Sound(s), NEW err \in BOOLEAN, NEW r, r = [s EXCEPT !.prev = err]
    PROVE  DOMAIN r = Fields /\ Types(r) /\ Same(s, r, {"prev"}) /\ r.prev = err
  <1>1. DOMAIN r = Fields /\ r.prev = err
    BY DEF Sound, IsState, Fields
  <1>2. Types(r)
    BY DEF Sound, IsState, Types, Fields
  <1>3. Same(s, r, {"prev"})
    BY DEF Sound, IsState, Same, Fields
  <1> QED
    BY <1>1, <1>2, <1>3

\* Closing the data connection of a session that keeps an error.
LEMMA KeptAndClosed ==
    ASSUME NEW s, Sound(s), Timed(s), NEW err \in BOOLEAN, NEW r,
           r = CloseDataConnection([s EXCEPT !.prev = err])
    PROVE  /\ Sound(r) /\ Timed(r) /\ Onward(s, r)
           /\ Same(s, r, CloseFields \cup {"prev"}) /\ r.xfer = None
  <1> PICK t : t = [s EXCEPT !.prev = err]
    OBVIOUS
  <1>1. DOMAIN t = Fields /\ Types(t) /\ Same(s, t, {"prev"}) /\ t.prev = err
    BY KeptError
  <1>2. /\ IsState(r) /\ Same(t, r, CloseFields)
        /\ r.done = "none" /\ ~r.chan /\ r.sock = "none" /\ r.lsn = "none" /\ r.xfer = None
    BY <1>1, CloseFacts DEF IsState
  <1>3. Same(s, r, CloseFields \cup {"prev"})
    BY <1>1, <1>2 DEF Same
  <1>4. DataOK(r)
    BY <1>2, <1>3 DEF Sound, DataOK, Same, Fields, CloseFields
  <1>5. LineOK(r)
    BY <1>3 DEF Sound, LineOK, Same, Fields, CloseFields
  <1>6. /\ r.open = s.open /\ r.ended = s.ended /\ r.overtaken = s.overtaken
        /\ r.timer = s.timer /\ r.authed = s.authed /\ r.authing = s.authing
    BY <1>3 DEF Same, Fields, CloseFields
  <1>7. Onward(s, r)
    BY <1>6 DEF Onward
  <1>8. Timed(r)
    BY <1>6, <1>7, TimedSame
  <1> QED
    BY <1>2, <1>3, <1>4, <1>5, <1>7, <1>8 DEF Sound

\* Without a transfer to blame an error is kept, and the connection closed.
LEMMA NobodyTold ==
    ASSUME NEW s, Good(s), s.xfer = None, NEW status, NEW err \in BOOLEAN, NEW r,
           r = HandleDataTransfer(s, status, err)
    PROVE  Good(r) /\ Settled(s, r)
  <1>1. Sound(s) /\ Timed(s)
    BY DEF Good
  <1>2. CASE err \/ status = "stopped"
    <2>1. r = CloseDataConnection([s EXCEPT !.prev = err])
      BY <1>2 DEF HandleDataTransfer
    <2>2. /\ Sound(r) /\ Timed(r) /\ Onward(s, r) /\ Same(s, r, CloseFields \cup {"prev"})
          /\ r.xfer = None
      BY <1>1, <2>1, KeptAndClosed
    <2>3. Going(r) => OpenOK(r)
      BY <2>2 DEF Good, Going, OpenOK, WorkOK, Same, Fields, CloseFields
    <2>4. r.cur = s.cur
      BY <2>2 DEF Same, Fields, CloseFields
    <2> QED
      BY <2>2, <2>3, <2>4 DEF Good, Settled
  <1>3. CASE ~ (err \/ status = "stopped")
    <2>1. r = [s EXCEPT !.prev = err] /\ err = FALSE
      BY <1>3 DEF HandleDataTransfer
    <2>2. DOMAIN r = Fields /\ Types(r) /\ Same(s, r, {"prev"}) /\ r.prev = FALSE
      BY <1>1, <2>1, KeptError
    <2>3. DataOK(r) /\ LineOK(r) /\ Timed(r) /\ (Going(r) => OpenOK(r))
      BY <2>2 DEF Good, Sound, DataOK, LineOK, OpenOK, WorkOK, Timed, TimerOK, Going, Same, Fields
    <2>4. /\ r.open = s.open /\ r.cur = s.cur /\ r.ended = s.ended /\ r.xfer = s.xfer
          /\ r.overtaken = s.overtaken
      BY <2>2 DEF Same, Fields
    <2> QED
      BY <2>2, <2>3, <2>4 DEF Good, Sound, IsState, Settled, Onward
  <1> QED
    BY <1>2, <1>3

\* A transfer that ends answers the command that began it.
LEMMA TransferTold ==
    ASSUME NEW s, Good(s), s.xfer # None, NEW status, NEW err \in BOOLEAN, NEW r,
           r = HandleDataTransfer(s, status, err)
    PROVE  Good(r) /\ Settled(s, r)
  <1> PICK failed \in BOOLEAN : failed = (err \/ s.prev)
    OBVIOUS
  <1> PICK told : told = TransferReply(s, status, failed)
    OBVIOUS
  <1> PICK t : t = [told EXCEPT !.prev = FALSE]
    OBVIOUS
  <1>1. r = IF failed \/ status = "stopped" THEN CloseDataConnection(t) ELSE t
    BY DEF HandleDataTransfer
  <1>2. IsState(s) /\ Sound(s) /\ Timed(s)
    BY DEF Good, Sound
  <1>3. CASE failed \/ status = "stopped"
    <2> PICK class \in {2, 4} : told = Reply(s, class)
      BY <1>3 DEF TransferReply
    <2>1. ReplyOf(s, told, class)
      BY <1>2, ReplyFacts
    <2>2. /\ Sound(told) /\ Onward(s, told) /\ told.authing = s.authing
          /\ told.authed = s.authed /\ told.timer = s.timer
      BY <1>2, <2>1, ReplyKeeps
    <2>3. Ends(s, told, class)
      BY <2>1 DEF ReplyOf
    <2>4. Timed(told)
      BY <1>2, <2>2, TimedSame
    <2>5. r = CloseDataConnection([told EXCEPT !.prev = FALSE])
      BY <1>1, <1>3
    <2>6. /\ Sound(r) /\ Timed(r) /\ Onward(told, r) /\ Same(told, r, CloseFields \cup {"prev"})
          /\ r.xfer = None
      BY <2>2, <2>4, <2>5, KeptAndClosed
    <2>7. r.cur = None /\ r.owed = told.owed /\ r.file = told.file
      BY <2>3, <2>6 DEF Same, Fields, CloseFields, Ends
    <2>8. Same(s, r, ReplyFields \cup CloseFields \cup {"prev"})
      BY <2>1, <2>6 DEF ReplyOf, Same
    <2>9. Onward(s, r)
      BY <2>2, <2>6, OnwardTwice
    <2>10. ASSUME Going(r) PROVE OpenOK(r) /\ s.cur # None
      <3>1. s.open = "open" /\ OpenOK(s)
        BY <2>9, <2>10 DEF Good, Onward, Going
      <3>2. s.cur = s.xfer /\ s.owed = 1 /\ s.ops = <<>> /\ ~s.nested /\ s.authing = 0 /\ ~s.lookup
        BY <3>1, Constants DEF OpenOK, WorkOK
      <3>3. r.owed = 0 /\ ~r.file
        BY <2>3, <2>7, <3>1, <3>2 DEF Ends
      <3>4. /\ r.ops = s.ops /\ r.nested = s.nested /\ r.authing = s.authing
            /\ r.lookup = s.lookup
        BY <2>8 DEF Same, Fields, ReplyFields, ChannelFields, CloseFields
      <3>5. WorkOK(r)
        BY <2>6, <3>2, <3>3, <3>4 DEF WorkOK
      <3> QED
        BY <2>7, <3>2, <3>3, <3>5 DEF OpenOK
    <2> QED
      BY <2>6, <2>7, <2>9, <2>10 DEF Good, Settled
  <1>4. CASE ~ (failed \/ status = "stopped")
    <2>1. r = t
      BY <1>1, <1>4
    <2>2. ReplyOf(s, told, 1) \/ told = s
      BY <1>2, <1>4, ReplyFacts DEF TransferReply
    <2>3. /\ Sound(told) /\ Onward(s, told) /\ told.xfer = s.xfer /\ told.authing = s.authing
          /\ told.authed = s.authed /\ told.timer = s.timer
      BY <1>2, <2>2, ReplyKeeps DEF Onward
    <2>4. told.cur = s.cur /\ told.owed = s.owed /\ told.file = s.file
      BY <2>2 DEF ReplyOf
    <2>5. Same(s, told, ReplyFields)
      BY <2>2 DEF ReplyOf, Same
    <2>6. Going(told) => OpenOK(told)
      BY <2>3, <2>4, <2>5 DEF Good, Going, Onward, OpenOK, WorkOK, Same, Fields, ReplyFields,
         ChannelFields
    <2>7. Timed(told)
      BY <1>2, <2>3, TimedSame
    <2>8. DOMAIN t = Fields /\ Types(t) /\ Same(told, t, {"prev"}) /\ t.prev = FALSE
      BY <2>3, KeptError
    <2>9. DataOK(t) /\ LineOK(t) /\ Timed(t) /\ (Going(t) => OpenOK(t))
      BY <2>3, <2>6, <2>7, <2>8
      DEF Sound, DataOK, LineOK, OpenOK, WorkOK, Timed, TimerOK, Going, Same, Fields
    <2>10. /\ t.open = told.open /\ t.cur = s.cur /\ t.ended = told.ended /\ t.xfer = s.xfer
           /\ t.overtaken = told.overtaken
      BY <2>3, <2>4, <2>8 DEF Same, Fields
    <2>11. Onward(s, t)
      BY <2>3, <2>10 DEF Onward
    <2> QED
      BY <2>1, <2>8, <2>9, <2>10, <2>11 DEF Good, Sound, IsState, Settled
  <1> QED
    BY <1>3, <1>4

LEMMA HandleDataTransferFacts ==
    ASSUME NEW s, Good(s), NEW status, NEW err \in BOOLEAN, NEW r,
           r = HandleDataTransfer(s, status, err)
    PROVE  Good(r) /\ Settled(s, r)
  BY NobodyTold, TransferTold

\* The fields of the data connection but the transfer.
ConnectionFields == {"sock", "lsn", "port", "chan", "done", "info", "shutting", "shutErr", "prev"}

LEMMA DataChange ==
    ASSUME NEW s, Good(s), NEW r, IsState(r), Same(s, r, ConnectionFields), DataOK(r)
    PROVE  Good(r) /\ Settled(s, r)
  <1>1. /\ r.open = s.open /\ r.cur = s.cur /\ r.ended = s.ended /\ r.xfer = s.xfer
        /\ r.overtaken = s.overtaken /\ r.timer = s.timer /\ r.authed = s.authed
        /\ r.authing = s.authing
    BY DEF Same, Fields, ConnectionFields
  <1>2. LineOK(r)
    BY DEF Good, Sound, LineOK, Same, Fields, ConnectionFields
  <1>3. Going(s) => OpenOK(r)
    BY DEF Good, OpenOK, WorkOK, Same, Fields, ConnectionFields
  <1>4. Onward(s, r)
    BY <1>1 DEF Onward
  <1>5. Timed(r)
    BY <1>1, <1>4, TimedSame DEF Good
  <1> QED
    BY <1>1, <1>2, <1>3, <1>4, <1>5 DEF Good, Sound, Settled, Going

LEMMA SettledTwice ==
    ASSUME NEW s, NEW t, NEW r, Settled(s, t), Settled(t, r)
    PROVE  Settled(s, r)
  <1>1. Onward(s, r) /\ (Going(r) => Going(t))
    BY OnwardTwice DEF Settled, Going, Onward
  <1> QED
    BY <1>1 DEF Settled

LEMMA SetupFacts ==
    ASSUME NEW s, Good(s), NEW r, r = SetupDataChannel(s)
    PROVE  Good(r) /\ Settled(s, r)
  <1>0. DataOK(s) /\ DOMAIN s = Fields /\ Types(s)
    BY DEF Good, Sound, IsState
  <1>1. CASE \E sock \in {"connecting", "securing"} :
               /\ r = [s EXCEPT !.sock = sock] /\ s.sock \in {"fresh", "connected"}
               /\ sock = "securing" => s.protP
    <2> PICK sock \in {"connecting", "securing"} :
               /\ r = [s EXCEPT !.sock = sock] /\ s.sock \in {"fresh", "connected"}
               /\ sock = "securing" => s.protP
      BY <1>1
    <2>1. DOMAIN r = Fields /\ r.sock = sock
      BY <1>0 DEF Fields
    <2>2. Types(r)
      BY <1>0 DEF Types, Fields
    <2>3. Same(s, r, {"sock"})
      BY <1>0 DEF Same, Fields
    <2>4. DataOK(r)
      BY <1>0, <2>1, <2>3 DEF DataOK, Same, Fields
    <2>5. Same(s, r, ConnectionFields)
      BY <2>3 DEF Same, ConnectionFields
    <2> QED
      BY <2>1, <2>2, <2>4, <2>5, DataChange DEF IsState
  <1>2. CASE \E status : r = HandleDataTransfer(s, status, TRUE)
    BY <1>2, HandleDataTransferFacts
  <1>3. CASE /\ r = [s EXCEPT !.chan = (s.xfer # None)]
             /\ ~ProtCRefused(s)
             /\ s.sock = "secured" \/ (s.sock \in {"connecting", "connected"} /\ ~s.protP)
    <2>1. DOMAIN r = Fields /\ (r.chan => s.xfer # None)
      BY <1>0, <1>3 DEF Fields
    <2>2. Types(r)
      BY <1>0, <1>3 DEF Types, Fields
    <2>3. Same(s, r, {"chan"})
      BY <1>0, <1>3 DEF Same, Fields
    <2>4. s.sock # "none" /\ (~s.overtaken => (s.tls = "secured") = (s.sock = "secured"))
      BY <1>0, <1>3 DEF DataOK, ProtCRefused
    <2>5. DataOK(r)
      BY <1>0, <2>1, <2>3, <2>4 DEF DataOK, Same, Fields
    <2>6. Same(s, r, ConnectionFields)
      BY <2>3 DEF Same, ConnectionFields
    <2> QED
      BY <2>1, <2>2, <2>5, <2>6, DataChange DEF IsState
  <1>4. CASE r = s
    BY <1>4 DEF Settled, Onward
  <1> QED
    BY <1>1, <1>2, <1>3, <1>4 DEF SetupDataChannel

\* A transfer that begins is that of the command.
LEMMA StartFacts ==
    ASSUME NEW s, Sound(s), Timed(s), NEW c \in Transfers, NEW connects,
           ~s.overtaken => s.tls # "securing",
           Going(s) =>
             /\ s.owed = 1 /\ s.cur = c /\ s.ops = <<>> /\ s.xfer = None /\ ~s.nested
             /\ s.authing = 0 /\ ~s.lookup /\ (s.file => c \in FileCmds),
           NEW r, r = StartDataTransfer(s, c, connects)
    PROVE  /\ Good(r) /\ Onward(s, r)
           /\ Going(r) =>
                \/ r.cur = c /\ r.xfer = c
                \/ r.cur = None /\ r.xfer = None
  <1> PICK begun : begun = [s EXCEPT !.xfer = c]
    OBVIOUS
  <1>0. DataOK(s) /\ DOMAIN s = Fields /\ Types(s) /\ LineOK(s) /\ c # None /\ c \in AllCmds
    BY Constants DEF Sound, IsState
  <1>1. DOMAIN begun = Fields /\ begun.xfer = c
    BY <1>0 DEF Fields
  <1>2. Types(begun)
    BY <1>0 DEF Types, Fields
  <1>3. Same(s, begun, {"xfer"})
    BY <1>0 DEF Same, Fields
  <1>4. DataOK(begun) /\ LineOK(begun)
    BY <1>0, <1>1, <1>3 DEF DataOK, LineOK, Same, Fields
  <1>5. /\ begun.open = s.open /\ begun.cur = s.cur /\ begun.ended = s.ended
        /\ begun.overtaken = s.overtaken
    BY <1>3 DEF Same, Fields
  <1>6. Going(s) => OpenOK(begun)
    BY <1>0, <1>1, <1>3 DEF OpenOK, WorkOK, Same, Fields
  <1>7. Timed(begun) /\ Onward(s, begun) /\ (Going(begun) => Going(s))
    BY <1>3, <1>5 DEF Timed, TimerOK, Onward, Going, Same, Fields
  <1>8. Good(begun)
    BY <1>1, <1>2, <1>4, <1>6, <1>7 DEF Good, Sound, IsState
  <1>9. Good(r) /\ Settled(begun, r)
    <2>1. CASE r = HandleDataTransfer(begun, "connecting", TRUE)
      BY <1>8, <2>1, HandleDataTransferFacts
    <2>2. CASE r = SetupDataChannel(begun)
      BY <1>8, <2>2, SetupFacts
    <2>3. CASE r = HandleDataTransfer(SetupDataChannel(begun), "started", FALSE)
      <3> PICK t : t = SetupDataChannel(begun)
        OBVIOUS
      <3>1. Good(t) /\ Settled(begun, t)
        BY <1>8, SetupFacts
      <3>2. Good(r) /\ Settled(t, r)
        BY <2>3, <3>1, HandleDataTransferFacts
      <3> QED
        BY <3>1, <3>2, SettledTwice
    <2> QED
      BY <2>1, <2>2, <2>3 DEF StartDataTransfer
  <1>10. Onward(s, r) /\ (Going(r) => Going(s))
    BY <1>7, <1>9, OnwardTwice DEF Settled, Onward, Going
  <1> QED
    BY <1>0, <1>1, <1>5, <1>9, <1>10 DEF Settled

-----------------------------------------------------------------------------
(* The commands.                                                            *)

\* The command c has been begun, and nothing is under way for another.
Ready(s, c) ==
    /\ Good(s) /\ s.open = "open" /\ s.cur = c /\ c \in AllCmds /\ (Going(s) => Idle(s))
    /\ s.tls # "securing"

\* The session has answered the command, or is at work on it.
Taken(s, r) ==
    /\ Onward(s, r)
    /\ Going(r) => r.xfer = None /\ r.cur \in {s.cur, None}

\* The operations and logins in flight are not more than the instance allows.
InBounds(r) == Len(r.ops) <= MaxOps /\ r.authing <= MaxOps

LEMMA ReadyFacts ==
    ASSUME NEW s, NEW c, Ready(s, c)
    PROVE  /\ Sound(s) /\ DataOK(s) /\ LineOK(s) /\ DOMAIN s = Fields /\ Types(s) /\ Timed(s)
           /\ Free(s) /\ s.open = "open" /\ s.cur = c /\ c # None
  BY Constants DEF Ready, Good, Sound, IsState, OpenOK, Free

\* The answer to a command of which nothing is under way.
LEMMA AnswerTaken ==
    ASSUME NEW s, NEW m, Sound(m), Timed(m), Free(m), Onward(s, m), NEW class, class # 1,
           NEW r, r = Reply(m, class)
    PROVE  Good(r) /\ Taken(s, r)
  <1>1. ReplyOf(m, r, class)
    BY ReplyFacts DEF Sound
  <1>2. Good(r) /\ Onward(m, r) /\ r.cur = None /\ r.xfer = m.xfer
    BY <1>1, AnswerGood
  <1>3. Onward(s, r) /\ (Going(r) => Going(m))
    BY <1>2, OnwardTwice DEF Onward, Going
  <1> QED
    BY <1>2, <1>3 DEF Taken, Free, Idle

LEMMA Answered ==
    ASSUME NEW s, NEW c, Ready(s, c), NEW classes, 1 \notin classes, NEW r \in Answers(s, classes)
    PROVE  Good(r) /\ Taken(s, r)
  <1> PICK class \in classes : r = Reply(s, class)
    BY DEF Answers
  <1>1. class # 1 /\ Onward(s, s)
    BY DEF Onward
  <1> QED
    BY <1>1, ReadyFacts, AnswerTaken

LEMMA Asked ==
    ASSUME NEW s, NEW c, Ready(s, c), c \in AsyncCmds, NEW r, r = Ask(s, c), InBounds(r)
    PROVE  Good(r) /\ Taken(s, r)
  <1>0. /\ DataOK(s) /\ LineOK(s) /\ DOMAIN s = Fields /\ Types(s) /\ Timed(s) /\ Free(s)
        /\ s.open = "open" /\ s.cur = c /\ c # None /\ s.tls # "securing"
    BY ReadyFacts DEF Ready
  <1> PICK ops : ops = Append(s.ops, c)
    OBVIOUS
  <1>1. ops \in Seq(AsyncCmds) /\ (s.ops = <<>> => ops = <<c>>)
    <2>1. s.ops \in Seq(AsyncCmds)
      BY <1>0 DEF Types
    <2>2. ops \in Seq(AsyncCmds)
      BY <2>1
    <2>3. Append(<<>>, c) = <<c>>
      OBVIOUS
    <2> QED
      BY <2>2, <2>3
  <1>2. r = [s EXCEPT !.recv = "pending", !.ops = ops]
    BY DEF Ask
  <1>3. DOMAIN r = Fields /\ r.ops = ops /\ r.recv = "pending"
    BY <1>0, <1>2 DEF Fields
  <1>4. Types(r)
    BY ONLY <1>0, <1>1, <1>2 DEF Types, Fields
  <1>5. Same(s, r, {"recv", "ops"})
    BY <1>0, <1>2 DEF Same, Fields
  <1>6. DataOK(r)
    BY <1>0, <1>5 DEF DataOK, Same, Fields
  <1>7. LineOK(r)
    BY <1>0, <1>3, <1>5 DEF LineOK, Same, Fields, InBounds
  <1>8. /\ r.cur = c /\ r.owed = s.owed /\ r.xfer = s.xfer /\ r.ended = s.ended
        /\ r.open = s.open /\ r.overtaken = s.overtaken /\ r.timer = s.timer
        /\ r.authed = s.authed /\ r.authing = s.authing
    BY <1>0, <1>5 DEF Same, Fields
  <1>9. Onward(s, r) /\ (Going(r) => Going(s))
    BY <1>8 DEF Onward, Going
  <1>10. ASSUME Going(r) PROVE OpenOK(r) /\ r.xfer = None
    <2>1. s.owed = 1 /\ Idle(s)
      BY <1>0, <1>9, <1>10 DEF Free
    <2>2. r.ops = <<c>> /\ r.xfer = None
      BY <1>1, <1>3, <1>8, <2>1 DEF Idle
    <2>3. WorkOK(r)
      BY <1>5, <1>8, <2>1, <2>2 DEF WorkOK, Idle, Same, Fields
    <2> QED
      BY <1>0, <1>8, <2>1, <2>2, <2>3 DEF OpenOK
  <1>11. Timed(r)
    BY <1>0, <1>8, <1>9, TimedSame
  <1> QED
    BY <1>0, <1>3, <1>4, <1>6, <1>7, <1>8, <1>9, <1>10, <1>11 DEF Good, Sound, IsState, Taken

LEMMA QuitTaken ==
    ASSUME NEW s, Sound(s), Going(s) => OpenOK(s), NEW r, r = Quit(s)
    PROVE  Good(r) /\ r.ended /\ Same(s, r, {"ended"}) /\ Onward(s, r)
  <1>0. DataOK(s) /\ LineOK(s) /\ DOMAIN s = Fields /\ Types(s)
    BY DEF Sound, IsState
  <1>1. DOMAIN r = Fields /\ r.ended
    BY <1>0 DEF Quit, Fields
  <1>2. Types(r)
    BY <1>0 DEF Quit, Types, Fields
  <1>3. Same(s, r, {"ended"})
    BY <1>0 DEF Quit, Same, Fields
  <1>4. DataOK(r) /\ LineOK(r)
    BY <1>0, <1>3 DEF DataOK, LineOK, Same, Fields
  <1>5. Going(s) => OpenOK(r)
    BY <1>3 DEF OpenOK, WorkOK, Same, Fields
  <1>6. r.open = s.open /\ r.overtaken = s.overtaken
    BY <1>3 DEF Same, Fields
  <1> QED
    BY <1>1, <1>2, <1>3, <1>4, <1>5, <1>6 DEF Good, Sound, IsState, Timed, Going, Onward

LEMMA Closed ==
    ASSUME NEW s, NEW c, Ready(s, c), NEW class, NEW r, r = Shutdown(Reply(s, class))
    PROVE  Good(r) /\ Taken(s, r)
  <1> PICK t : t = Reply(s, class)
    OBVIOUS
  <1>1. ReplyOf(s, t, class)
    BY ReadyFacts, ReplyFacts DEF Sound
  <1>2. Sound(t) /\ Onward(s, t)
    BY <1>1, ReadyFacts, ReplyKeeps
  <1>3. Good(r) /\ r.open # "open" /\ Onward(t, r)
    BY <1>2, ShutdownGood
  <1> QED
    BY <1>2, <1>3, OnwardTwice DEF Taken, Going

\* AUTH: the handshake begins when nothing is left of what came in clear.
LEMMA SecureTaken ==
    ASSUME NEW s, Ready(s, "AUTH"), s.inbox = <<>>, NEW r \in Secure(s)
    PROVE  Good(r) /\ Taken(s, r)
  <1>1. CASE r \in Answers(s, {5})
    BY <1>1, Answered
  <1>2. CASE s.tls = "clear" /\ r = [Replied(s, 2) EXCEPT !.tls = "securing"]
    <2> PICK t : t = Replied(s, 2)
      OBVIOUS
    <2>0. /\ Sound(s) /\ IsState(s) /\ Free(s) /\ Timed(s) /\ s.inbox = <<>> /\ s.tls = "clear"
          /\ DataOK(s)
      BY <1>2, ReadyFacts DEF Sound, Ready
    <2>1. ReplyOf(s, t, 2)
      BY <2>0, RepliedFacts
    <2>2. Good(t) /\ Onward(s, t) /\ t.cur = None /\ t.xfer = s.xfer
      BY <2>0, <2>1, AnswerGood
    <2>3. t.tls = "clear" /\ t.ops = s.ops
      BY <2>0, <2>1 DEF ReplyOf, Same, Fields, ReplyFields, ChannelFields
    <2>4. t.inbox = <<>>
      BY <2>0, <2>1 DEF ReplyOf, Resumed
    <2>5. DataOK(t) /\ LineOK(t) /\ DOMAIN t = Fields /\ Types(t)
      BY <2>2 DEF Good, Sound, IsState
    <2>6. DOMAIN r = Fields /\ r.tls = "securing"
      BY <1>2, <2>5 DEF Fields
    <2>7. Types(r)
      BY <1>2, <2>5 DEF Types, Fields
    <2>8. Same(t, r, {"tls"})
      BY <1>2, <2>5 DEF Same, Fields
    <2>9. ~t.overtaken => t.ops = <<>> /\ t.xfer = None /\ ~t.chan
      <3>1. ~t.overtaken => ~s.overtaken
        BY <2>2 DEF Onward
      <3>2. ~s.overtaken => Idle(s)
        BY <2>0 DEF Ready, Going
      <3> QED
        BY <2>2, <2>3, <2>5, <3>1, <3>2 DEF Idle, DataOK, Types
    <2>10. DataOK(r)
      BY <2>4, <2>5, <2>6, <2>8, <2>9, <2>3 DEF DataOK, Same, Fields
    <2>11. LineOK(r)
      BY <2>5, <2>8 DEF LineOK, Same, Fields
    <2>12. /\ r.open = t.open /\ r.cur = None /\ r.xfer = t.xfer /\ r.ended = t.ended
           /\ r.overtaken = t.overtaken /\ r.timer = t.timer /\ r.authed = t.authed
           /\ r.authing = t.authing
      BY <2>2, <2>8 DEF Same, Fields
    <2>13. Going(t) => OpenOK(r)
      BY <2>2, <2>8 DEF Good, OpenOK, WorkOK, Same, Fields
    <2>14. Onward(t, r) /\ Onward(s, r) /\ (Going(r) => Going(t))
      BY <2>2, <2>12 DEF Onward, Going
    <2>15. Timed(r)
      BY <2>2, <2>12, <2>14, TimedSame DEF Good
    <2>16. Good(r)
      BY <2>6, <2>7, <2>10, <2>11, <2>13, <2>14, <2>15 DEF Good, Sound, IsState
    <2> QED
      BY <2>9, <2>12, <2>14, <2>16 DEF Taken, Going
  <1> QED
    BY <1>1, <1>2 DEF Secure

\* A small change that nothing depends on, then an answer.
LEMMA ChangedAnswer ==
    ASSUME NEW s, NEW c, Ready(s, c), NEW m, DOMAIN m = Fields, Types(m),
           Same(s, m, {"protP", "epsvOnly"}), DataOK(m), NEW class, class # 1,
           NEW r, r = Reply(m, class)
    PROVE  Good(r) /\ Taken(s, r)
  <1>0. LineOK(s) /\ Timed(s) /\ Free(s)
    BY ReadyFacts
  <1>1. LineOK(m) /\ Free(m) /\ Timed(m) /\ Onward(s, m)
    BY <1>0 DEF LineOK, Free, Idle, Going, Timed, TimerOK, Onward, Same, Fields
  <1>2. Sound(m)
    BY <1>1 DEF Sound, IsState
  <1> QED
    BY <1>1, <1>2, AnswerTaken

LEMMA ProtTaken ==
    ASSUME NEW s, Ready(s, "PROT"), s.tls = "secured", NEW r, r = Reply([s EXCEPT !.protP = TRUE], 2)
    PROVE  Good(r) /\ Taken(s, r)
  <1> PICK m : m = [s EXCEPT !.protP = TRUE]
    OBVIOUS
  <1>0. DataOK(s) /\ DOMAIN s = Fields /\ Types(s) /\ s.tls = "secured"
    BY ReadyFacts
  <1>1. DOMAIN m = Fields
    BY <1>0 DEF Fields
  <1>2. Types(m)
    BY <1>0 DEF Types, Fields
  <1>3. Same(s, m, {"protP", "epsvOnly"})
    BY <1>0 DEF Same, Fields
  <1>4. Same(s, m, {"protP"})
    BY <1>0 DEF Same, Fields
  <1>5. DataOK(m)
    BY <1>0, <1>4 DEF DataOK, Same, Fields
  <1>6. r = Reply(m, 2) /\ 2 # 1
    OBVIOUS
  <1> QED
    BY ONLY Ready(s, "PROT"), <1>1, <1>2, <1>3, <1>5, <1>6, ChangedAnswer

\* A login that fails is answered, and the client has its time again.
LEMMA RefusedEnds ==
    ASSUME NEW m, Sound(m), Free(m), NEW class, class # 1, NEW r, r = Refused(m, class)
    PROVE  /\ Sound(r) /\ Onward(m, r) /\ r.cur = None /\ r.timer = "login"
           /\ r.authed = m.authed
           /\ Going(r) => r.owed = 0 /\ WorkOK(r) /\ Idle(r)
  <1> PICK n : n = [m EXCEPT !.user = FALSE]
    OBVIOUS
  <1>0. DataOK(m) /\ LineOK(m) /\ DOMAIN m = Fields /\ Types(m)
    BY DEF Sound, IsState
  <1>1. DOMAIN n = Fields
    BY <1>0 DEF Fields
  <1>2. Types(n)
    BY <1>0 DEF Types, Fields
  <1>3. Same(m, n, {"user"})
    BY <1>0 DEF Same, Fields
  <1>4. DataOK(n) /\ LineOK(n) /\ Free(n) /\ Onward(m, n) /\ n.authed = m.authed
    BY <1>0, <1>3 DEF DataOK, LineOK, Free, Going, Idle, Onward, Same, Fields
  <1>5. Sound(n)
    BY <1>1, <1>2, <1>4 DEF Sound, IsState
  <1> PICK t : t = Reply(n, class)
    OBVIOUS
  <1>6. ReplyOf(n, t, class)
    BY <1>5, ReplyFacts DEF Sound
  <1>7. /\ Sound(t) /\ Onward(n, t) /\ t.cur = None
        /\ (Going(t) => t.owed = 0 /\ WorkOK(t) /\ Idle(t)) /\ t.authed = n.authed
    BY ONLY <1>4, <1>5, <1>6, class # 1, AnswerEnds
  <1>8. r = [t EXCEPT !.timer = "login"]
    BY DEF Refused
  <1>9. DataOK(t) /\ LineOK(t) /\ DOMAIN t = Fields /\ Types(t)
    BY <1>7 DEF Sound, IsState
  <1>10. DOMAIN r = Fields /\ r.timer = "login"
    BY <1>8, <1>9 DEF Fields
  <1>11. Types(r)
    BY <1>8, <1>9 DEF Types, Fields
  <1>12. Same(t, r, {"timer"})
    BY <1>8, <1>9 DEF Same, Fields
  <1>13. DataOK(r) /\ LineOK(r)
    BY ONLY <1>9, <1>12 DEF DataOK, LineOK, Same, Fields
  <1>14. /\ r.open = t.open /\ r.ended = t.ended /\ r.cur = None /\ r.owed = t.owed
         /\ r.authed = t.authed /\ r.overtaken = t.overtaken
    BY <1>7, <1>12 DEF Same, Fields
  <1>15. Onward(t, r) /\ (Going(r) => Going(t))
    BY <1>14 DEF Onward, Going
  <1>16. Going(t) => WorkOK(r) /\ Idle(r)
    BY <1>7, <1>12 DEF WorkOK, Idle, Same, Fields
  <1>17. Onward(m, r)
    BY <1>4, <1>7, <1>15, OnwardTwice
  <1>18. Sound(r)
    BY <1>10, <1>11, <1>13 DEF Sound, IsState
  <1> QED
    BY <1>4, <1>7, <1>10, <1>14, <1>15, <1>16, <1>17, <1>18

LEMMA RefusedTaken ==
    ASSUME NEW s, NEW m, Sound(m), Free(m), ~m.authed, Onward(s, m),
           NEW class, class # 1, NEW r, r = Refused(m, class)
    PROVE  Good(r) /\ Taken(s, r)
  <1>1. /\ Sound(r) /\ Onward(m, r) /\ r.cur = None /\ r.timer = "login"
        /\ r.authed = m.authed
        /\ Going(r) => r.owed = 0 /\ WorkOK(r) /\ Idle(r)
    BY RefusedEnds
  <1>2. Timed(r) /\ (Going(r) => OpenOK(r))
    BY <1>1 DEF Timed, TimerOK, OpenOK
  <1>3. Onward(s, r)
    BY <1>1, OnwardTwice
  <1> QED
    BY <1>1, <1>2, <1>3 DEF Good, Taken, Idle

\* The authenticator is asked, and the time it takes is not the client's.
LEMMA LoginAsked ==
    ASSUME NEW s, NEW c, Ready(s, c), c \in Login, ~s.authed, NEW r, DOMAIN r = Fields,
           Types(r), Same(s, r, {"timer", "user", "authOp", "authing"}),
           r.authing = s.authing + 1, InBounds(r)
    PROVE  Good(r) /\ Taken(s, r)
  <1>0. /\ DataOK(s) /\ LineOK(s) /\ DOMAIN s = Fields /\ Types(s) /\ Free(s)
        /\ s.open = "open" /\ s.cur = c /\ c # None
    BY ReadyFacts
  <1> PICK n : n = s.authing + 1
    OBVIOUS
  <1>1. n \in Nat /\ n # 0 /\ (s.authing = 0 => n = 1)
    BY <1>0 DEF Types
  <1>3. DOMAIN r = Fields /\ r.authing = n
    OBVIOUS
  <1>4. Types(r)
    OBVIOUS
  <1>5. Same(s, r, {"timer", "user", "authOp", "authing"})
    OBVIOUS
  <1>6. DataOK(r)
    BY <1>0, <1>5 DEF DataOK, Same, Fields
  <1>7. LineOK(r)
    BY <1>0, <1>5 DEF LineOK, Same, Fields, InBounds
  <1>8. /\ r.cur = c /\ r.owed = s.owed /\ r.xfer = s.xfer /\ r.ended = s.ended
        /\ r.open = s.open /\ r.overtaken = s.overtaken /\ r.authed = s.authed
    BY ONLY <1>0, <1>5 DEF Same, Fields
  <1>9. Onward(s, r) /\ (Going(r) => Going(s))
    BY <1>8 DEF Onward, Going
  <1>10. ASSUME Going(r) PROVE OpenOK(r) /\ r.xfer = None
    <2>1. s.owed = 1 /\ Idle(s) /\ n = 1
      BY <1>0, <1>1, <1>9, <1>10 DEF Free, Idle
    <2>2. WorkOK(r)
      BY <1>3, <1>5, <1>8, <2>1 DEF WorkOK, Idle, Same, Fields
    <2> QED
      BY <1>0, <1>8, <2>1, <2>2 DEF OpenOK, Idle
  <1>11. Timed(r)
    BY <1>1, <1>3, <1>8 DEF Timed, TimerOK
  <1> QED
    BY <1>0, <1>3, <1>4, <1>6, <1>7, <1>8, <1>9, <1>10, <1>11 DEF Good, Sound, IsState, Taken

LEMMA UserTaken ==
    ASSUME NEW s, Ready(s, "USER"), NEW r \in User(s), InBounds(r)
    PROVE  Good(r) /\ Taken(s, r)
  <1>1. CASE \E class \in {5} : r = Reply(s, class)
    <2>1. r \in Answers(s, {5})
      BY <1>1 DEF Answers
    <2> QED
      BY <2>1, Answered
  <1>2. CASE ~s.authed /\ r = [StopLoginTimer(s) EXCEPT !.user = TRUE, !.authOp = FALSE,
                                                        !.authing = @ + 1]
    <2>1. DOMAIN s = Fields /\ Types(s)
      BY ReadyFacts
    <2> PICK n : n = s.authing + 1
      OBVIOUS
    <2>2. n \in Nat
      BY <2>1 DEF Types
    <2>3. r = [s EXCEPT !.timer = "none", !.user = TRUE, !.authOp = FALSE, !.authing = n]
      BY <1>2, <2>1 DEF StopLoginTimer, Fields
    <2>4. DOMAIN r = Fields /\ r.authing = n
      BY ONLY <2>1, <2>3 DEF Fields
    <2>5. Types(r)
      BY ONLY <2>1, <2>2, <2>3 DEF Types, Fields
    <2>6. Same(s, r, {"timer", "user", "authOp", "authing"})
      BY ONLY <2>1, <2>3 DEF Same, Fields
    <2> QED
      BY <1>2, <2>4, <2>5, <2>6, LoginAsked DEF Login
  <1> QED
    BY <1>1, <1>2 DEF User, Answers

LEMMA PassTaken ==
    ASSUME NEW s, Ready(s, "PASS"), NEW r \in Pass(s), InBounds(r)
    PROVE  Good(r) /\ Taken(s, r)
  <1>0. /\ DataOK(s) /\ LineOK(s) /\ DOMAIN s = Fields /\ Types(s) /\ Free(s) /\ Sound(s)
        /\ Onward(s, s)
    BY ReadyFacts DEF Onward
  <1>1. CASE r \in Answers(s, {5})
    BY <1>1, Answered
  <1>2. CASE ~s.authed /\ r = Refused(s, 5)
    BY <1>0, <1>2, RefusedTaken
  <1>3. CASE ~s.authed /\ s.user /\ r = [StopLoginTimer(s) EXCEPT !.authOp = FALSE, !.authing = @ + 1]
    <2> PICK n : n = s.authing + 1
      OBVIOUS
    <2>2. n \in Nat
      BY <1>0 DEF Types
    <2>3. r = [s EXCEPT !.timer = "none", !.authOp = FALSE, !.authing = n]
      BY <1>0, <1>3 DEF StopLoginTimer, Fields
    <2>4. DOMAIN r = Fields /\ r.authing = n
      BY ONLY <1>0, <2>3 DEF Fields
    <2>5. Types(r)
      BY ONLY <1>0, <2>2, <2>3 DEF Types, Fields
    <2>6. Same(s, r, {"timer", "user", "authOp", "authing"})
      BY ONLY <1>0, <2>3 DEF Same, Fields
    <2> QED
      BY <1>3, <2>4, <2>5, <2>6, LoginAsked DEF Login
  <1>4. CASE ~s.authed /\ r = Refused([StopLoginTimer(s) EXCEPT !.authOp = FALSE], 5)
    <2> PICK m : m = [StopLoginTimer(s) EXCEPT !.authOp = FALSE]
      OBVIOUS
    <2>0. m = [s EXCEPT !.timer = "none", !.authOp = FALSE]
      BY <1>0 DEF StopLoginTimer, Fields
    <2>1. DOMAIN m = Fields
      BY <1>0, <2>0 DEF Fields
    <2>2. Types(m)
      BY ONLY <1>0, <2>0 DEF Types, Fields
    <2>3. Same(s, m, {"timer", "authOp"})
      BY <1>0, <2>0 DEF Same, Fields
    <2>4. DataOK(m) /\ LineOK(m) /\ Free(m) /\ Onward(s, m) /\ m.authed = s.authed
      BY ONLY <1>0, <2>3 DEF DataOK, LineOK, Free, Going, Idle, Onward, Same, Fields
    <2>5. Sound(m)
      BY <2>1, <2>2, <2>4 DEF Sound, IsState
    <2>6. r = Refused(m, 5) /\ 5 # 1 /\ ~m.authed
      BY <1>4, <2>4
    <2> QED
      BY ONLY <2>4, <2>5, <2>6, RefusedTaken
  <1> QED
    BY <1>1, <1>2, <1>3, <1>4 DEF Pass

\* ABOR: a listing that is being written belongs to a command that was overtaken.
LEMMA AborTaken ==
    ASSUME NEW s, Ready(s, "ABOR"), NEW r \in Abor(s)
    PROVE  Good(r) /\ Taken(s, r)
  <1>1. CASE ~s.nested
    <2>1. r \in Answers(s, {2})
      BY <1>1 DEF Abor
    <2> QED
      BY <2>1, Answered
  <1>2. CASE s.nested
    <2> PICK m : m = [s EXCEPT !.nested = FALSE]
      OBVIOUS
    <2>0. /\ DataOK(s) /\ LineOK(s) /\ DOMAIN s = Fields /\ Types(s) /\ Timed(s) /\ ~Going(s)
      BY <1>2, ReadyFacts DEF Free, Idle
    <2>1. DOMAIN m = Fields
      BY <2>0 DEF Fields
    <2>2. Types(m)
      BY <2>0 DEF Types, Fields
    <2>3. Same(s, m, {"nested"})
      BY <2>0 DEF Same, Fields
    <2>4. DataOK(m) /\ LineOK(m) /\ Timed(m) /\ ~Going(m) /\ Onward(s, m)
      BY <2>0, <2>3 DEF DataOK, LineOK, Timed, TimerOK, Going, Onward, Same, Fields
    <2>5. Good(m)
      BY <2>1, <2>2, <2>4, Unpromised DEF Sound, IsState
    <2> PICK a : a = Replied(m, 2)
      OBVIOUS
    <2>6. Good(a) /\ ~Going(a) /\ Onward(m, a)
      <3>1. ReplyOf(m, a, 2)
        BY <2>5, RepliedFacts DEF Good, Sound
      <3> QED
        BY <2>4, <2>5, <3>1, ReplyUnpromised
    <2> PICK b : b = CloseDataConnection(a)
      OBVIOUS
    <2>7. Good(b) /\ ~Going(b) /\ Onward(a, b)
      <3>1. Sound(b) /\ Timed(b) /\ Onward(a, b)
        BY <2>6, CloseGood DEF Good
      <3>2. ~Going(b)
        BY <2>6, <3>1 DEF Going, Onward
      <3> QED
        BY <3>1, <3>2, Unpromised
    <2> PICK d : d = Reply(b, 4)
      OBVIOUS
    <2>8. Good(d) /\ ~Going(d) /\ Onward(b, d)
      <3>1. ReplyOf(b, d, 4)
        BY <2>7, ReplyFacts DEF Good, Sound
      <3> QED
        BY <2>7, <3>1, ReplyUnpromised
    <2>9. r = Reply(d, 2)
      BY <1>2 DEF Abor
    <2>10. Good(r) /\ ~Going(r) /\ Onward(d, r)
      <3>1. ReplyOf(d, r, 2)
        BY <2>8, <2>9, ReplyFacts DEF Good, Sound
      <3> QED
        BY <2>8, <3>1, ReplyUnpromised
    <2>11. Onward(s, r)
      BY <2>4, <2>6, <2>7, <2>8, <2>10 DEF Onward
    <2> QED
      BY <2>10, <2>11 DEF Taken
  <1> QED
    BY <1>1, <1>2

\* A command replaces the data connection while no transfer runs on it.
LEMMA ConnectionReplaced ==
    ASSUME NEW s, NEW c, Ready(s, c), NEW m, DOMAIN m = Fields, Types(m),
           Same(s, m, {"prev", "sock", "lsn", "port"}), ~m.prev,
           m.sock \in {"none", "fresh"}, m.lsn # "none" => m.sock = "none",
           PortRange /\ m.lsn = "listening" => m.port = "waiting"
    PROVE  Good(m) /\ Ready(m, c) /\ Free(m) /\ Onward(s, m)
  <1>0. /\ DataOK(s) /\ LineOK(s) /\ DOMAIN s = Fields /\ Types(s) /\ Timed(s) /\ Free(s)
        /\ s.open = "open" /\ s.cur = c /\ c # None /\ s.tls # "securing" /\ c \in AllCmds
    BY ReadyFacts DEF Ready
  <1>1. LineOK(m) /\ Timed(m) /\ Free(m) /\ Onward(s, m)
    BY <1>0 DEF LineOK, Timed, TimerOK, Free, Going, Idle, Onward, Same, Fields
  <1>2. ~s.overtaken => ~s.chan /\ s.done = "none"
    BY <1>0 DEF DataOK, Free, Going, Idle, Types
  <1>3. DataOK(m)
    BY <1>0, <1>2 DEF DataOK, Same, Fields
  <1>4. m.cur = c /\ m.open = "open" /\ m.tls # "securing"
    BY <1>0 DEF Same, Fields
  <1>5. Going(m) => OpenOK(m)
    BY <1>0, <1>1, <1>4 DEF Free, OpenOK, WorkOK, Idle
  <1>6. Good(m)
    BY <1>1, <1>3, <1>5 DEF Good, Sound, IsState
  <1> QED
    BY <1>0, <1>1, <1>4, <1>6 DEF Ready, Free

LEMMA PeerTaken ==
    ASSUME NEW s, NEW c, Ready(s, c), NEW result \in PeerResults(s), NEW r,
           r = SetDataPeer(s, result)
    PROVE  Good(r) /\ Taken(s, r)
  <1>0. /\ DataOK(s) /\ LineOK(s) /\ DOMAIN s = Fields /\ Types(s) /\ Timed(s) /\ Free(s)
    BY ReadyFacts
  <1>1. CASE \E sock \in {"none", "fresh"}, class \in {2, 4} :
               r = Reply([[s EXCEPT !.prev = FALSE, !.lsn = "none"] EXCEPT !.sock = sock], class)
    <2> PICK sock \in {"none", "fresh"}, class \in {2, 4} :
               r = Reply([[s EXCEPT !.prev = FALSE, !.lsn = "none"] EXCEPT !.sock = sock], class)
      BY <1>1
    <2> PICK m : m = [[s EXCEPT !.prev = FALSE, !.lsn = "none"] EXCEPT !.sock = sock]
      OBVIOUS
    <2>1. DOMAIN m = Fields /\ ~m.prev /\ m.lsn = "none" /\ m.sock = sock
      BY <1>0 DEF Fields
    <2>2. Types(m)
      BY <1>0 DEF Types, Fields
    <2>3. Same(s, m, {"prev", "sock", "lsn", "port"})
      BY <1>0 DEF Same, Fields
    <2>4. Good(m) /\ Free(m) /\ Onward(s, m)
      BY ONLY Ready(s, c), <2>1, <2>2, <2>3, ConnectionReplaced
    <2>5. Sound(m) /\ Timed(m)
      BY <2>4 DEF Good
    <2>6. r = Reply(m, class) /\ class # 1
      OBVIOUS
    <2> QED
      BY ONLY <2>4, <2>5, <2>6, AnswerTaken
  <1>2. CASE r = Reply(Quit(s), 4)
    <2> PICK m : m = Quit(s)
      OBVIOUS
    <2>1. Good(m) /\ m.ended /\ Same(s, m, {"ended"}) /\ Onward(s, m)
      BY QuitTaken DEF Ready, Good
    <2>2. Free(m)
      BY <1>0, <2>1 DEF Free, Going, Idle, Same, Fields
    <2>3. r = Reply(m, 4) /\ 4 # 1 /\ Sound(m) /\ Timed(m)
      BY <1>2, <2>1 DEF Good
    <2> QED
      BY ONLY <2>1, <2>2, <2>3, AnswerTaken
  <1> QED
    BY <1>1, <1>2 DEF SetDataPeer, PeerResults

LEMMA ListenTaken ==
    ASSUME NEW s, NEW c, Ready(s, c), NEW resolve \in BOOLEAN, resolve => c = "PASV",
           NEW result \in ListenResults(s, resolve), NEW r,
           r = GetDataLocalInfo(s, resolve, result)
    PROVE  Good(r) /\ Taken(s, r)
  <1>0. /\ DataOK(s) /\ LineOK(s) /\ DOMAIN s = Fields /\ Types(s) /\ Timed(s) /\ Free(s)
        /\ c # None /\ PortRange \in BOOLEAN
    BY ReadyFacts, FlagsAssumption
  <1> PICK new : new = [s EXCEPT !.prev = FALSE, !.sock = "none", !.lsn = "created"]
    OBVIOUS
  <1>1. DOMAIN new = Fields /\ ~new.prev /\ new.sock = "none" /\ new.lsn = "created"
    BY <1>0 DEF Fields
  <1>2. Types(new)
    BY <1>0 DEF Types, Fields
  <1>3. Same(s, new, {"prev", "sock", "lsn", "port"})
    BY <1>0 DEF Same, Fields
  <1> PICK up : up = Listened(new, PortRange)
    OBVIOUS
  <1>4. up = [new EXCEPT !.lsn = "listening", !.port = IF PortRange THEN "waiting" ELSE "none"]
    BY DEF Listened
  <1>5. /\ DOMAIN up = Fields /\ ~up.prev /\ up.sock = "none" /\ up.lsn = "listening"
        /\ (PortRange => up.port = "waiting")
    BY <1>1, <1>4 DEF Fields
  <1>6. Types(up)
    BY ONLY <1>0, <1>1, <1>2, <1>4 DEF Types, Fields
  <1>7. Same(s, up, {"prev", "sock", "lsn", "port"})
    BY <1>1, <1>3, <1>4 DEF Same, Fields
  <1>8. Good(up) /\ Ready(up, c) /\ Free(up) /\ Onward(s, up)
    BY ONLY Ready(s, c), <1>5, <1>6, <1>7, ConnectionReplaced
  <1>9. Good(new) /\ Free(new) /\ Onward(s, new)
    BY ONLY Ready(s, c), <1>1, <1>2, <1>3, ConnectionReplaced
  <1>10. CASE r = Quit(s)
    <2>1. Good(r) /\ Same(s, r, {"ended"}) /\ Onward(s, r)
      BY <1>10, QuitTaken DEF Ready, Good
    <2>2. r.xfer = s.xfer /\ r.cur = s.cur /\ (Going(r) => Going(s))
      BY <2>1 DEF Same, Fields, Going
    <2> QED
      BY <1>0, <2>1, <2>2 DEF Taken, Free, Idle
  <1>11. CASE r = Reply(new, 4)
    <2>1. Sound(new) /\ Timed(new) /\ 4 # 1
      BY <1>9 DEF Good
    <2> QED
      BY ONLY <1>9, <1>11, <2>1, AnswerTaken
  <1>12. CASE r = Reply([new EXCEPT !.port = IF PortRange THEN "none" ELSE @], 4)
    <2> PICK m : m = [new EXCEPT !.port = IF PortRange THEN "none" ELSE @]
      OBVIOUS
    <2>1. DOMAIN m = Fields /\ ~m.prev /\ m.lsn = "created" /\ m.sock = "none"
      BY <1>1 DEF Fields
    <2>2. Types(m)
      BY <1>1, <1>2 DEF Types, Fields
    <2>3. Same(s, m, {"prev", "sock", "lsn", "port"})
      BY <1>1, <1>3 DEF Same, Fields
    <2>4. Good(m) /\ Free(m) /\ Onward(s, m)
      BY ONLY Ready(s, c), <2>1, <2>2, <2>3, ConnectionReplaced
    <2>5. Sound(m) /\ Timed(m) /\ r = Reply(m, 4) /\ 4 # 1
      BY <1>12, <2>4 DEF Good
    <2> QED
      BY ONLY <2>4, <2>5, AnswerTaken
  <1>13. CASE \E class \in {2, 4} : r = Reply(up, class)
    <2> PICK class \in {2, 4} : r = Reply(up, class)
      BY <1>13
    <2>1. Sound(up) /\ Timed(up) /\ class # 1
      BY <1>8 DEF Good
    <2> QED
      BY <1>8, <2>1, AnswerTaken
  <1>14. CASE resolve /\ r = [up EXCEPT !.lookup = TRUE, !.info = TRUE]
    <2>1. DOMAIN r = Fields /\ r.lookup
      BY <1>5, <1>14 DEF Fields
    <2>2. Types(r)
      BY ONLY <1>5, <1>6, <1>14 DEF Types, Fields
    <2>3. Same(up, r, {"lookup", "info"})
      BY <1>5, <1>14 DEF Same, Fields
    <2>4. DataOK(up) /\ LineOK(up) /\ Timed(up) /\ up.cur = c /\ up.open = "open" /\ c = "PASV"
      BY <1>8, <1>14, ReadyFacts DEF Good, Sound
    <2>5. DataOK(r) /\ LineOK(r) /\ Timed(r)
      BY ONLY <2>3, <2>4 DEF DataOK, LineOK, Timed, TimerOK, Same, Fields
    <2>6. /\ r.cur = c /\ r.xfer = up.xfer /\ r.owed = up.owed /\ Onward(up, r)
          /\ (Going(r) => Going(up))
      BY ONLY <2>3, <2>4 DEF Onward, Going, Same, Fields
    <2>7. ASSUME Going(r) PROVE OpenOK(r) /\ r.xfer = None
      <3>1. up.owed = 1 /\ Idle(up)
        BY <1>8, <2>6, <2>7 DEF Free
      <3>2. WorkOK(r)
        BY ONLY <2>3, <2>4, <2>6, <3>1 DEF WorkOK, Idle, Same, Fields
      <3> QED
        BY <1>0, <2>6, <3>1, <3>2 DEF OpenOK, Idle
    <2>8. Onward(s, r)
      BY <1>8, <2>6, OnwardTwice
    <2>9. s.cur = c
      BY ReadyFacts
    <2> QED
      BY <2>1, <2>2, <2>5, <2>6, <2>7, <2>8, <2>9 DEF Good, Sound, IsState, Taken
  <1>15. CASE r = Reply([up EXCEPT !.lookup = FALSE, !.info = FALSE], 4)
    <2> PICK m : m = [up EXCEPT !.lookup = FALSE, !.info = FALSE]
      OBVIOUS
    <2>1. DOMAIN m = Fields /\ ~m.lookup
      BY <1>5 DEF Fields
    <2>2. Types(m)
      BY <1>5, <1>6 DEF Types, Fields
    <2>3. Same(up, m, {"lookup", "info"})
      BY <1>5 DEF Same, Fields
    <2>4. DataOK(up) /\ LineOK(up) /\ Timed(up)
      BY <1>8 DEF Good, Sound
    <2>5. DataOK(m) /\ LineOK(m) /\ Timed(m) /\ Onward(up, m)
      BY ONLY <2>3, <2>4 DEF DataOK, LineOK, Timed, TimerOK, Onward, Same, Fields
    <2>6. Free(m) /\ Onward(s, m)
      <3>1. Free(m)
        BY ONLY <1>8, <2>1, <2>3 DEF Free, Going, Idle, Same, Fields
      <3> QED
        BY <1>8, <2>5, <3>1, OnwardTwice
    <2>7. Sound(m) /\ r = Reply(m, 4) /\ 4 # 1
      BY <1>15, <2>1, <2>2, <2>5 DEF Sound, IsState
    <2> QED
      BY ONLY <2>5, <2>6, <2>7, AnswerTaken
  <1>16. \/ r = Quit(s) \/ r = Reply(new, 4)
         \/ r = Reply([new EXCEPT !.port = IF PortRange THEN "none" ELSE @], 4)
         \/ \E class \in {2, 4} : r = Reply(up, class)
         \/ resolve /\ r = [up EXCEPT !.lookup = TRUE, !.info = TRUE]
         \/ r = Reply([up EXCEPT !.lookup = FALSE, !.info = FALSE], 4)
    BY DEF GetDataLocalInfo, ListenResults
  <1> QED
    BY ONLY <1>10, <1>11, <1>12, <1>13, <1>14, <1>15, <1>16

LEMMA Executed ==
    ASSUME NEW s, NEW c, Ready(s, c), c \notin Wrong, c = "AUTH" => s.inbox = <<>>,
           c \in Security => s.tls = "secured", NEW r \in Execute(s, c), InBounds(r)
    PROVE  Good(r) /\ Taken(s, r)
  <1> DEFINE Stages == {"QUIT", "REST", "AUTH", "PBSZ", "PROT", "USER", "PASS", "ABOR"}
  <1>1. /\ c \in AllCmds /\ HostOverride \in BOOLEAN
        /\ {"RNTO", "STAT"} \subseteq AsyncCmds /\ Passive = {"PASV", "EPSV"}
        /\ c \in Stages \cup Active \cup Passive => c \notin Plain \cup PlainAuth \cup AsyncCmds
        /\ c \in Passive => c \notin Active \cup Stages
        /\ c \in Active => c \notin Passive \cup Stages
        /\ c \in AsyncCmds => c \notin Stages \cup Active \cup Passive \cup Plain \cup PlainAuth
    BY FlagsAssumption DEF Ready, Active, Passive, Plain, PlainAuth, AsyncCmds, PathOps,
       Transfers, FileCmds, ListCmds
  <1>2. CASE r \in Answers(s, {2, 5}) \cup Answers(s, {5}) \cup Answers(s, {2})
             \cup Answers(s, {3, 5})
    BY <1>2, Answered
  <1>3. CASE r = Shutdown(Reply(s, 2))
    BY <1>3, Closed
  <1>4. CASE c = "AUTH" /\ r \in Secure(s)
    BY <1>4, SecureTaken
  <1>5. CASE c = "PROT" /\ r = Reply([s EXCEPT !.protP = TRUE], 2)
    BY <1>5, ProtTaken DEF Security
  <1>6. CASE (c = "USER" /\ r \in User(s)) \/ (c = "PASS" /\ r \in Pass(s))
    BY <1>6, UserTaken, PassTaken
  <1>7. CASE c \in AsyncCmds /\ r = Ask(s, c)
    BY <1>7, Asked
  <1>8. CASE \E result \in PeerResults(s) : r = SetDataPeer(s, result)
    BY <1>8, PeerTaken
  <1>9. CASE c \in Passive /\ \E resolve \in BOOLEAN : \E result \in ListenResults(s, resolve) :
               r = GetDataLocalInfo(s, resolve, result) /\ (resolve => c = "PASV")
    BY <1>9, ListenTaken
  <1>10. CASE c = "EPSV" /\ r = Reply([s EXCEPT !.epsvOnly = TRUE], 2)
    <2> PICK m : m = [s EXCEPT !.epsvOnly = TRUE]
      OBVIOUS
    <2>0. DataOK(s) /\ DOMAIN s = Fields /\ Types(s)
      BY ReadyFacts
    <2>1. DOMAIN m = Fields
      BY ONLY <2>0, m = [s EXCEPT !.epsvOnly = TRUE] DEF Fields
    <2>2. Types(m)
      BY ONLY <2>0, m = [s EXCEPT !.epsvOnly = TRUE] DEF Types, Fields
    <2>3. Same(s, m, {"protP", "epsvOnly"})
      BY ONLY <2>0, m = [s EXCEPT !.epsvOnly = TRUE] DEF Same, Fields
    <2>4. Same(s, m, {"epsvOnly"})
      BY ONLY <2>0, m = [s EXCEPT !.epsvOnly = TRUE] DEF Same, Fields
    <2>5. DataOK(m)
      BY ONLY <2>0, <2>4 DEF DataOK, Same, Fields
    <2>6. r = Reply(m, 2) /\ 2 # 1
      BY <1>10
    <2> QED
      BY ONLY Ready(s, c), <2>1, <2>2, <2>3, <2>5, <2>6, ChangedAnswer
  <1>11. CASE c \in Plain \cup PlainAuth
    <2>1. Execute(s, c) = Answers(s, {2, 5})
      BY ONLY <1>1, <1>11 DEF Execute
    <2> QED
      BY <1>2, <2>1
  <1>12. CASE c \in Stages
    <2>1. CASE c \in {"QUIT", "REST", "AUTH"}
      BY <1>1, <1>2, <1>3, <1>4, <2>1 DEF Execute
    <2>2. CASE c = "PBSZ"
      BY <1>1, <1>2, <2>2 DEF Execute
    <2>3. CASE c = "PROT"
      <3>1. r \in {Reply([s EXCEPT !.protP = TRUE], 2), Reply(s, 5)}
        BY <1>1, <2>3 DEF Execute
      <3>2. Reply(s, 5) \in Answers(s, {5})
        BY DEF Answers
      <3> QED
        BY <1>2, <1>5, <2>3, <3>1, <3>2
    <2>4. CASE c \in {"USER", "PASS"}
      BY <1>1, <1>6, <2>4 DEF Execute
    <2>5. CASE c = "ABOR"
      <3>1. r \in Abor(s)
        BY <1>1, <2>5 DEF Execute
      <3> QED
        BY <2>5, <3>1, AborTaken
    <2> QED
      BY <1>12, <2>1, <2>2, <2>3, <2>4, <2>5
  <1>13. CASE c \in AsyncCmds
    <2>1. CASE c = "RNTO"
      <3>1. Execute(s, c) = IF s.rename THEN {Ask(s, c)} ELSE Answers(s, {5})
        BY ONLY <1>1, <1>13, <2>1 DEF Execute
      <3> QED
        BY <1>2, <1>7, <1>13, <3>1
    <2>2. CASE c = "STAT"
      <3>1. Execute(s, c) = {Ask(s, c)} \cup Answers(s, {2})
        BY ONLY <1>1, <1>13, <2>2 DEF Execute
      <3> QED
        BY <1>2, <1>7, <1>13, <3>1
    <2>3. CASE c \notin {"RNTO", "STAT"}
      <3>1. Execute(s, c) = {Ask(s, c)} \cup Answers(s, {5})
        BY ONLY <1>1, <1>13, <2>3 DEF Execute
      <3> QED
        BY <1>2, <1>7, <1>13, <3>1
    <2> QED
      BY <2>1, <2>2, <2>3
  <1>14. CASE c \in Active
    <2>1. Execute(s, c) =
            Answers(s, {5})
              \cup (IF s.epsvOnly THEN {} ELSE {SetDataPeer(s, result) : result \in PeerResults(s)})
      BY ONLY <1>1, <1>14 DEF Execute
    <2> QED
      BY <1>2, <1>8, <2>1
  <1>15. CASE c = "PASV"
    <2>1. \/ r \in Answers(s, {5})
          \/ \E result \in ListenResults(s, HostOverride) :
               r = GetDataLocalInfo(s, HostOverride, result)
      BY <1>1, <1>15 DEF Execute, Passive
    <2> QED
      BY <1>1, <1>2, <1>9, <1>15, <2>1 DEF Passive
  <1>16. CASE c = "EPSV"
    <2>1. \/ r \in Answers(s, {5}) \/ r = Reply([s EXCEPT !.epsvOnly = TRUE], 2)
          \/ \E result \in ListenResults(s, FALSE) : r = GetDataLocalInfo(s, FALSE, result)
      BY <1>1, <1>16 DEF Execute, Passive
    <2> QED
      BY <1>2, <1>9, <1>10, <1>16, <2>1 DEF Passive
  <1> QED
    BY <1>1, <1>11, <1>12, <1>13, <1>14, <1>15, <1>16
    DEF AllCmds, NeedsAuth, Passive, Login, Security

-----------------------------------------------------------------------------
(* A command line.                                                          *)

\* A line can be taken.
TakesLine(s) == Good(s) /\ s.open = "open" /\ s.inbox # <<>> /\ (~s.stalled \/ s.wake)

LEMMA TakesLineFacts ==
    ASSUME NEW s, TakesLine(s)
    PROVE  /\ DataOK(s) /\ LineOK(s) /\ DOMAIN s = Fields /\ Types(s) /\ Timed(s)
           /\ s.open = "open" /\ ~s.queued /\ s.recv # "aborting" /\ s.tls # "securing"
           /\ Tail(s.inbox) \in Seq(AllCmds) /\ Len(Tail(s.inbox)) <= MaxInbox
  <1>1. /\ DataOK(s) /\ LineOK(s) /\ DOMAIN s = Fields /\ Types(s) /\ Timed(s)
        /\ s.open = "open" /\ s.inbox # <<>> /\ (~s.stalled \/ s.wake)
    BY DEF TakesLine, Good, Sound, IsState
  <1>2. ~s.queued /\ s.recv # "aborting" /\ s.tls # "securing"
    BY <1>1 DEF LineOK, DataOK
  <1>3. s.inbox \in Seq(AllCmds) /\ Len(s.inbox) <= MaxInbox
    BY <1>1 DEF Types, LineOK
  <1>4. Tail(s.inbox) \in Seq(AllCmds) /\ Len(Tail(s.inbox)) <= MaxInbox
    BY <1>1, <1>3, Constants
  <1> QED
    BY <1>1, <1>2, <1>4

\* The line that is taken leaves the channel.
LEMMA ConsumedFacts ==
    ASSUME NEW s, TakesLine(s), NEW r, r = Consumed(s)
    PROVE  /\ Good(r) /\ Same(s, r, {"inbox", "stalled", "wake"})
           /\ Onward(s, r) /\ r.recv # "aborting" /\ ~r.queued /\ ~r.wake
  <1>0. /\ DataOK(s) /\ LineOK(s) /\ DOMAIN s = Fields /\ Types(s) /\ Timed(s)
        /\ s.open = "open" /\ ~s.queued /\ s.recv # "aborting" /\ s.tls # "securing"
        /\ Tail(s.inbox) \in Seq(AllCmds) /\ Len(Tail(s.inbox)) <= MaxInbox
    BY TakesLineFacts
  <1> PICK inbox : inbox = Tail(s.inbox)
    OBVIOUS
  <1>1. r = [s EXCEPT !.inbox = inbox, !.stalled = FALSE, !.wake = FALSE]
    BY DEF Consumed
  <1>2. DOMAIN r = Fields /\ r.inbox = inbox /\ ~r.stalled /\ ~r.wake
    BY <1>0, <1>1 DEF Fields
  <1>3. inbox \in Seq(AllCmds) /\ Len(inbox) <= MaxInbox
    BY <1>0
  <1>4. Types(r)
    BY ONLY <1>0, <1>1, <1>3 DEF Types, Fields
  <1>5. Same(s, r, {"inbox", "stalled", "wake"})
    BY ONLY <1>0, <1>1 DEF Same, Fields
  <1>6. /\ r.queued = s.queued /\ r.recv = s.recv /\ r.ops = s.ops /\ r.authing = s.authing
        /\ r.open = s.open /\ r.ended = s.ended /\ r.overtaken = s.overtaken
        /\ r.timer = s.timer /\ r.authed = s.authed
    BY ONLY <1>5 DEF Same, Fields
  <1>7. LineOK(r)
    BY <1>0, <1>2, <1>3, <1>6 DEF LineOK
  <1>8. DataOK(r)
    BY ONLY <1>0, <1>5 DEF DataOK, Same, Fields
  <1>9. Onward(s, r) /\ (Going(r) => Going(s))
    BY <1>6 DEF Onward, Going
  <1>10. Timed(r)
    BY <1>0, <1>6, <1>9, TimedSame
  <1>11. Going(s) => OpenOK(r)
    BY <1>5 DEF TakesLine, Good, OpenOK, WorkOK, Same, Fields
  <1>12. Good(r)
    BY <1>2, <1>4, <1>7, <1>8, <1>9, <1>10, <1>11 DEF Good, Sound, IsState
  <1> QED
    BY <1>0, <1>2, <1>5, <1>6, <1>9, <1>12

\* The command of the line begins, and overtakes the one that is executed.
LEMMA BeginFacts ==
    ASSUME NEW s, TakesLine(s), NEW c \in AllCmds \cup {None}, NEW r,
           r = Begin(Consumed(s), c)
    PROVE  /\ Sound(r) /\ Timed(r) /\ Free(r) /\ Onward(s, r) /\ r.open = "open"
           /\ r.cur = c /\ r.tls = s.tls /\ r.tls # "securing" /\ r.xfer = s.xfer
           /\ Going(r) => Going(s) /\ s.cur = None
  <1> PICK q : q = Consumed(s)
    OBVIOUS
  <1>0. /\ Good(q) /\ Same(s, q, {"inbox", "stalled", "wake"}) /\ Onward(s, q)
        /\ q.recv # "aborting"
    BY ConsumedFacts
  <1>1. /\ DataOK(q) /\ LineOK(q) /\ DOMAIN q = Fields /\ Types(q) /\ Timed(q)
        /\ (Going(q) => OpenOK(q))
    BY <1>0 DEF Good, Sound, IsState
  <1>2. /\ q.open = s.open /\ q.cur = s.cur /\ q.tls = s.tls /\ q.xfer = s.xfer
        /\ q.overtaken = s.overtaken
    BY <1>0 DEF Same, Fields
  <1> PICK owed : owed = IF q.owed < 2 THEN q.owed + 1 ELSE q.owed
    OBVIOUS
  <1> PICK over \in BOOLEAN : over = (q.overtaken \/ q.cur # None)
    OBVIOUS
  <1>3. owed \in -1..2 /\ (q.owed = 0 => owed = 1)
    BY <1>1 DEF Types
  <1>4. r = [q EXCEPT !.cur = c, !.owed = owed, !.overtaken = over]
    BY DEF Begin
  <1>5. DOMAIN r = Fields /\ r.cur = c /\ r.owed = owed /\ r.overtaken = over
    BY <1>1, <1>4 DEF Fields
  <1>6. Types(r)
    BY ONLY <1>1, <1>3, <1>4, c \in AllCmds \cup {None}, over \in BOOLEAN DEF Types, Fields
  <1>7. Same(q, r, {"cur", "owed", "overtaken"})
    BY ONLY <1>1, <1>4 DEF Same, Fields
  <1>8. s.open = "open" /\ s.tls # "securing"
    BY TakesLineFacts
  <1>9. /\ r.open = q.open /\ r.ended = q.ended /\ r.tls = q.tls /\ r.xfer = q.xfer
        /\ r.timer = q.timer /\ r.authed = q.authed /\ r.authing = q.authing
    BY <1>7 DEF Same, Fields
  <1>10. LineOK(r)
    BY ONLY <1>1, <1>7 DEF LineOK, Same, Fields
  <1>11. r.overtaken \/ ~q.overtaken
    BY <1>5
  <1>12. DataOK(r)
    BY ONLY <1>1, <1>7, <1>11 DEF DataOK, Same, Fields
  <1>13. Onward(q, r) /\ (Going(r) => Going(q) /\ q.cur = None)
    BY <1>5, <1>9, <1>11 DEF Onward, Going
  <1>14. Onward(s, r)
    BY <1>0, <1>13, OnwardTwice
  <1>15. Timed(r)
    BY <1>1, <1>9, <1>13, TimedSame
  <1>16. ASSUME Going(r) PROVE r.owed = 1 /\ Idle(r)
    <2>1. OpenOK(q) /\ q.cur = None
      BY <1>1, <1>13, <1>16
    <2>2. q.owed = 0
      BY <2>1 DEF OpenOK
    <2>3. Idle(q)
      BY <1>1, <2>1, Constants DEF Idle, OpenOK, WorkOK, Types
    <2>4. Idle(r)
      BY <1>7, <2>3 DEF Idle, Same, Fields
    <2> QED
      BY <1>3, <1>5, <2>2, <2>4
  <1>17. Sound(r)
    BY <1>5, <1>6, <1>10, <1>12 DEF Sound, IsState
  <1>18. Going(r) => Going(s) /\ s.cur = None
    BY <1>2, <1>13 DEF Going
  <1> QED
    BY <1>2, <1>5, <1>8, <1>9, <1>14, <1>15, <1>16, <1>17, <1>18 DEF Free

LEMMA AcceptTaken ==
    ASSUME NEW s, TakesLine(s), NEW c \in AllCmds \ Wrong, NEW r \in Accept(Consumed(s), c),
           InBounds(r)
    PROVE  /\ Good(r) /\ Onward(s, r)
           /\ Going(r) => s.cur = None /\ r.xfer = None /\ r.cur \in {c, None}
  <1> PICK begun : begun = Begin(Consumed(s), c)
    OBVIOUS
  <1>1. c \in AllCmds /\ c # None
    BY Constants
  <1>2. /\ Sound(begun) /\ Timed(begun) /\ Free(begun) /\ Onward(s, begun)
        /\ begun.open = "open" /\ begun.cur = c /\ begun.tls = s.tls /\ begun.tls # "securing"
        /\ (Going(begun) => Going(s) /\ s.cur = None)
    BY <1>1, BeginFacts
  <1>3. Going(begun) => OpenOK(begun) /\ Idle(begun)
    BY <1>1, <1>2 DEF Free, OpenOK, WorkOK, Idle
  <1>4. Ready(begun, c)
    BY <1>1, <1>2, <1>3 DEF Ready, Good
  <1>5. DOMAIN s = Fields
    BY TakesLineFacts
  <1>6. begun.inbox = Consumed(s).inbox /\ Consumed(s).tls = s.tls
    BY <1>5 DEF Begin, Consumed, Fields
  <1>7. Good(r) /\ Taken(begun, r)
    <2>1. CASE \E classes \in {{5}, {4, 5}} : r \in Answers(begun, classes)
      BY <1>4, <2>1, Answered
    <2>2. CASE r = Reply(begun, 5)
      <3>1. r \in Answers(begun, {5})
        BY <2>2 DEF Answers
      <3> QED
        BY <2>1, <3>1
    <2>3. CASE r = Shutdown(Reply(begun, 5))
      BY <1>4, <2>3, Closed
    <2>4. CASE /\ r \in Execute(begun, c)
               /\ c = "AUTH" => Consumed(s).inbox = <<>>
               /\ c \in Security => Consumed(s).tls = "secured"
      BY <1>2, <1>4, <1>6, <2>4, Executed
    <2> QED
      BY <2>1, <2>2, <2>3, <2>4 DEF Accept
  <1>8. Onward(s, r) /\ (Going(r) => Going(begun))
    BY <1>2, <1>7, OnwardTwice DEF Taken, Onward, Going
  <1> QED
    BY <1>2, <1>7, <1>8 DEF Taken

\* r is a step of the session's dialogue from s: the command and the transfer are
\* kept; or a command begins, its transfer does, or it is answered; or another
\* session begins.
Turn(s, r) ==
    \/ r = Fresh /\ (Going(s) /\ ~s.ended => s.cur # None)
    \/ /\ Onward(s, r)
       /\ Going(r) =>
            \/ r.cur = s.cur /\ r.xfer = s.xfer
            \/ s.cur = None /\ r.cur # None /\ r.xfer = s.xfer
            \/ r.cur = s.cur /\ s.xfer = None /\ r.xfer # None
            \/ s.cur # None /\ r.cur = None /\ r.xfer = None

LEMMA SettledTurn ==
    ASSUME NEW s, NEW r, Settled(s, r)
    PROVE  Turn(s, r)
  BY DEF Settled, Turn

\* A line that is refused at once.
LEMMA RefusedLine ==
    ASSUME NEW s, TakesLine(s), NEW r, r = Reply(Begin(Consumed(s), s.cur), 5)
    PROVE  Good(r) /\ Turn(s, r)
  <1> PICK begun : begun = Begin(Consumed(s), s.cur)
    OBVIOUS
  <1>1. s.cur \in AllCmds \cup {None}
    BY TakesLineFacts DEF Types
  <1>2. /\ Sound(begun) /\ Timed(begun) /\ Free(begun) /\ Onward(s, begun)
        /\ begun.xfer = s.xfer /\ (Going(begun) => s.cur = None)
    BY <1>1, BeginFacts
  <1>3. ReplyOf(begun, r, 5) /\ 5 # 1
    BY <1>2, ReplyFacts DEF Sound
  <1>4. Good(r) /\ Onward(begun, r) /\ r.cur = None /\ r.xfer = begun.xfer
    BY <1>2, <1>3, AnswerGood
  <1>5. Onward(s, r) /\ (Going(r) => Going(begun))
    BY <1>2, <1>4, OnwardTwice DEF Onward, Going
  <1> QED
    BY <1>2, <1>4, <1>5 DEF Turn

\* A line that waits: for the command's answer, or for an operation that is aborted.
LEMMA LineWaits ==
    ASSUME NEW s, TakesLine(s), NEW r,
           \/ r = QueueNew(s)
           \/ r = [Stall(s) EXCEPT !.recv = "aborting"]
    PROVE  Good(r) /\ Turn(s, r)
  <1>0. /\ DataOK(s) /\ LineOK(s) /\ DOMAIN s = Fields /\ Types(s) /\ Timed(s)
        /\ s.open = "open" /\ ~s.queued /\ s.recv # "aborting"
    BY TakesLineFacts
  <1>1. \E queued \in BOOLEAN, recv \in {"idle", "pending", "aborting"} :
          /\ r = [s EXCEPT !.stalled = TRUE, !.wake = FALSE, !.queued = queued, !.recv = recv]
          /\ recv = "aborting" => ~queued
    <2>1. CASE r = QueueNew(s)
      <3>1. r = [s EXCEPT !.stalled = TRUE, !.wake = FALSE, !.queued = TRUE, !.recv = s.recv]
        BY <1>0, <2>1 DEF QueueNew, Stall, Fields
      <3>2. s.recv \in {"idle", "pending", "aborting"}
        BY <1>0 DEF Types
      <3> QED
        BY <1>0, <3>1, <3>2
    <2>2. CASE r = [Stall(s) EXCEPT !.recv = "aborting"]
      <3>1. r = [s EXCEPT !.stalled = TRUE, !.wake = FALSE, !.queued = s.queued,
                          !.recv = "aborting"]
        BY <1>0, <2>2 DEF Stall, Fields
      <3>2. s.queued \in BOOLEAN
        BY <1>0 DEF Types
      <3> QED
        BY <1>0, <3>1, <3>2
    <2> QED
      BY <2>1, <2>2
  <1> PICK queued \in BOOLEAN, recv \in {"idle", "pending", "aborting"} :
          /\ r = [s EXCEPT !.stalled = TRUE, !.wake = FALSE, !.queued = queued, !.recv = recv]
          /\ recv = "aborting" => ~queued
    BY <1>1
  <1>2. DOMAIN r = Fields /\ r.stalled /\ ~r.wake /\ r.queued = queued /\ r.recv = recv
    BY <1>0 DEF Fields
  <1>3. Types(r)
    BY <1>0 DEF Types, Fields
  <1>4. Same(s, r, {"stalled", "wake", "queued", "recv"})
    BY <1>0 DEF Same, Fields
  <1>5. /\ r.open = s.open /\ r.cur = s.cur /\ r.xfer = s.xfer /\ r.ended = s.ended
        /\ r.inbox = s.inbox /\ r.ops = s.ops /\ r.authing = s.authing
        /\ r.overtaken = s.overtaken
    BY ONLY <1>4 DEF Same, Fields
  <1>6. LineOK(r)
    BY <1>0, <1>2, <1>5 DEF LineOK
  <1>7. DataOK(r)
    BY ONLY <1>0, <1>4 DEF DataOK, Same, Fields
  <1>8. Timed(r)
    BY ONLY <1>0, <1>4 DEF Timed, TimerOK, Same, Fields
  <1>9. Going(s) => OpenOK(r)
    BY ONLY TakesLine(s), <1>4 DEF TakesLine, Good, OpenOK, WorkOK, Same, Fields
  <1>10. Onward(s, r) /\ (Going(r) => Going(s))
    BY <1>5 DEF Onward, Going
  <1>11. Good(r)
    BY <1>2, <1>3, <1>6, <1>7, <1>8, <1>9, <1>10 DEF Good, Sound, IsState
  <1> QED
    BY <1>5, <1>10, <1>11 DEF Turn

LEMMA LineTurn ==
    ASSUME NEW s, TakesLine(s), NEW r \in LineOutcomes(s, Head(s.inbox)), InBounds(r)
    PROVE  Good(r) /\ Turn(s, r)
  <1> PICK c : c = Head(s.inbox)
    OBVIOUS
  <1>0. Types(s) /\ s.inbox # <<>> /\ (Going(s) => WorkOK(s))
    BY TakesLineFacts DEF TakesLine, Good, OpenOK
  <1>1. c \in AllCmds
    BY <1>0 DEF Types
  <1>2. CASE r = Consumed(s)
    <2>1. Good(r) /\ Same(s, r, {"inbox", "stalled", "wake"}) /\ Onward(s, r)
      BY <1>2, ConsumedFacts
    <2>2. r.cur = s.cur /\ r.xfer = s.xfer
      BY <2>1 DEF Same, Fields
    <2> QED
      BY <2>1, <2>2 DEF Turn
  <1>3. CASE r = Reply(Begin(Consumed(s), s.cur), 5)
    BY <1>3, RefusedLine
  <1>4. CASE r = Shutdown(Reply(Begin(Consumed(s), s.cur), 5))
    <2> PICK begun : begun = Begin(Consumed(s), s.cur)
      OBVIOUS
    <2>1. s.cur \in AllCmds \cup {None}
      BY <1>0 DEF Types
    <2>2. Sound(begun) /\ Onward(s, begun)
      BY <2>1, BeginFacts
    <2> PICK t : t = Reply(begun, 5)
      OBVIOUS
    <2>3. ReplyOf(begun, t, 5)
      BY <2>2, ReplyFacts DEF Sound
    <2>4. Sound(t) /\ Onward(begun, t)
      BY <2>2, <2>3, ReplyKeeps
    <2>5. Good(r) /\ r.open # "open" /\ Onward(t, r)
      BY <1>4, <2>4, ShutdownGood
    <2>6. Onward(s, r)
      BY <2>2, <2>4, <2>5, OnwardTwice
    <2> QED
      BY <2>5, <2>6 DEF Turn, Going
  <1>5. CASE r = QueueNew(s) \/ r = [Stall(s) EXCEPT !.recv = "aborting"]
    BY <1>5, LineWaits
  <1>6. CASE s.cur = None /\ r \in Answers(Begin(Consumed(s), None), {5})
    <2>1. r = Reply(Begin(Consumed(s), s.cur), 5)
      BY <1>6 DEF Answers
    <2> QED
      BY <2>1, RefusedLine
  <1>7. CASE c \notin Wrong /\ r \in Accept(Consumed(s), c)
    <2>1. /\ Good(r) /\ Onward(s, r)
          /\ Going(r) => s.cur = None /\ r.xfer = None /\ r.cur \in {c, None}
      BY <1>1, <1>7, AcceptTaken
    <2>2. Going(r) => Going(s)
      BY <2>1 DEF Onward, Going
    <2>3. Going(r) => s.xfer = None
      BY <1>0, <2>1, <2>2, Constants DEF WorkOK, Types
    <2> QED
      BY <1>1, <2>1, <2>3, Constants DEF Turn
  <1>8. r \in LineOutcomes(s, c)
    OBVIOUS
  <1>9. \/ r = Consumed(s) \/ r = Reply(Begin(Consumed(s), s.cur), 5)
        \/ r = Shutdown(Reply(Begin(Consumed(s), s.cur), 5))
        \/ r = QueueNew(s) \/ r = [Stall(s) EXCEPT !.recv = "aborting"]
        \/ s.cur = None /\ r \in Answers(Begin(Consumed(s), None), {5})
        \/ c \notin Wrong /\ r \in Accept(Consumed(s), c)
    <2>1. CASE c \in {"BLANK", "ILLEGAL"}
      BY ONLY <1>8, <2>1 DEF LineOutcomes
    <2>2. CASE c = "ABOR"
      BY ONLY <1>8, <2>2 DEF LineOutcomes, Wrong
    <2>3. CASE c \notin {"BLANK", "ILLEGAL", "ABOR"}
      BY ONLY <1>8, <2>3 DEF LineOutcomes, Wrong
    <2> QED
      BY <2>1, <2>2, <2>3
  <1> QED
    BY ONLY <1>2, <1>3, <1>4, <1>5, <1>6, <1>7, <1>9

-----------------------------------------------------------------------------
(* The events.                                                              *)

LEMMA FreshGood == Good(Fresh) /\ Fresh.cur = None /\ Fresh.xfer = None
  <1>0. Preauthorized \in BOOLEAN
    BY FlagsAssumption
  <1>1. DOMAIN Fresh = Fields
    BY DEF Fresh, Fields
  <1>2. Types(Fresh)
    BY <1>0 DEF Fresh, Types
  <1>3. DataOK(Fresh) /\ LineOK(Fresh) /\ Timed(Fresh) /\ OpenOK(Fresh)
    BY <1>0, Constants DEF Fresh, DataOK, LineOK, Timed, OpenOK, WorkOK, TimerOK
  <1> QED
    BY <1>1, <1>2, <1>3 DEF Good, Sound, IsState, Fresh

LEMMA ClientSendsTurn ==
    ASSUME Good(st), ClientSends
    PROVE  Good(st') /\ Turn(st, st')
  <1>0. DataOK(st) /\ LineOK(st) /\ DOMAIN st = Fields /\ Types(st)
    BY DEF Good, Sound, IsState
  <1> PICK c \in Cmds : st' = [st EXCEPT !.inbox = Append(@, c)]
    BY DEF ClientSends
  <1> PICK t : t = [st EXCEPT !.inbox = Append(@, c)]
    OBVIOUS
  <1>1. c \in AllCmds /\ Len(st.inbox) < MaxInbox /\ st.tls # "securing"
    BY CmdsAssumption DEF ClientSends
  <1>2. DOMAIN t = Fields /\ t.inbox = Append(st.inbox, c)
    BY <1>0 DEF Fields
  <1>3. Append(st.inbox, c) \in Seq(AllCmds) /\ Len(Append(st.inbox, c)) <= MaxInbox
    BY <1>0, <1>1, Constants DEF Types
  <1>4. Types(t)
    BY ONLY <1>0, <1>3, t = [st EXCEPT !.inbox = Append(@, c)] DEF Types, Fields
  <1>5. Same(st, t, {"inbox"})
    BY ONLY <1>0, t = [st EXCEPT !.inbox = Append(@, c)] DEF Same, Fields
  <1>6. DataOK(t)
    BY ONLY <1>0, <1>1, <1>5 DEF DataOK, Same, Fields
  <1>7. LineOK(t)
    BY ONLY <1>0, <1>2, <1>3, <1>5 DEF LineOK, Same, Fields
  <1>8. Timed(t) /\ (Going(st) => OpenOK(t))
    BY ONLY Good(st), <1>5 DEF Good, Timed, TimerOK, OpenOK, WorkOK, Same, Fields
  <1>9. /\ t.open = st.open /\ t.cur = st.cur /\ t.xfer = st.xfer /\ t.ended = st.ended
        /\ t.overtaken = st.overtaken
    BY ONLY <1>5 DEF Same, Fields
  <1>10. Good(t) /\ Turn(st, t)
    BY ONLY <1>2, <1>4, <1>6, <1>7, <1>8, <1>9 DEF Good, Sound, IsState, Turn, Going, Onward
  <1>11. st' = t
    OBVIOUS
  <1> QED
    BY ONLY <1>10, <1>11

LEMMA ProcessLineTurn ==
    ASSUME Good(st), ProcessLine
    PROVE  Good(st') /\ Turn(st, st')
  <1>1. TakesLine(st) /\ st' \in LineOutcomes(st, Head(st.inbox)) /\ InBounds(st')
    BY DEF ProcessLine, TakesLine, InBounds
  <1> QED
    BY <1>1, LineTurn

\* Changes that matter neither to the data connection nor to the command.
MinorFields == {"recv", "rename", "user", "authOp", "epsvOnly", "torn", "info", "shutErr"}

LEMMA MinorGood ==
    ASSUME NEW s, Good(s), NEW r, IsState(r), Same(s, r, MinorFields), r.recv \in {s.recv, "idle"}
    PROVE  Good(r) /\ Onward(s, r) /\ r.cur = s.cur /\ r.xfer = s.xfer
  <1>1. /\ r.open = s.open /\ r.cur = s.cur /\ r.xfer = s.xfer /\ r.ended = s.ended
        /\ r.overtaken = s.overtaken
    BY DEF Same, Fields, MinorFields
  <1>2. DataOK(r) /\ Timed(r) /\ (Going(s) => OpenOK(r))
    BY DEF Good, Sound, DataOK, Timed, TimerOK, OpenOK, WorkOK, Same, Fields, MinorFields
  <1>3. LineOK(r)
    <2>1. /\ r.wake = s.wake /\ r.queued = s.queued /\ r.stalled = s.stalled
          /\ r.inbox = s.inbox /\ r.ops = s.ops /\ r.authing = s.authing
      BY DEF Same, Fields, MinorFields
    <2>2. LineOK(s)
      BY DEF Good, Sound
    <2> QED
      BY <1>1, <2>1, <2>2 DEF LineOK
  <1> QED
    BY <1>1, <1>2, <1>3 DEF Good, Sound, Going, Onward

\* A file-system operation is answered: the state before its command goes on.
Returned(s, c) ==
    /\ Sound(s) /\ Timed(s) /\ c \in AsyncCmds /\ (~s.overtaken => s.tls # "securing")
    /\ Free(s) /\ (Going(s) => s.cur = c)

\* The command goes on in r, with its transfer if it has one, or is answered.
GoesOn(s, r, c) ==
    /\ Good(r) /\ Onward(s, r)
    /\ Going(r) =>
         \/ r.cur = c /\ r.xfer \in {c, None}
         \/ r.cur = None /\ r.xfer = None

LEMMA ReturnedAnswer ==
    ASSUME NEW s, NEW c, Returned(s, c), NEW classes, 1 \notin classes,
           NEW r \in Answers(s, classes)
    PROVE  GoesOn(s, r, c)
  <1> PICK class \in classes : r = Reply(s, class)
    BY DEF Answers
  <1>1. ReplyOf(s, r, class) /\ class # 1 /\ Sound(s)
    BY ReplyFacts DEF Returned, Sound
  <1>2. Good(r) /\ Onward(s, r) /\ r.cur = None /\ r.xfer = s.xfer
    BY <1>1, AnswerGood DEF Returned
  <1>3. Going(r) => Going(s)
    BY <1>2 DEF Onward, Going
  <1> QED
    BY <1>2, <1>3 DEF GoesOn, Returned, Free, Idle

\* RNFR: the file to be renamed is known.
LEMMA ReturnedRename ==
    ASSUME NEW s, NEW c, Returned(s, c), NEW r, r = Reply([s EXCEPT !.rename = TRUE], 3)
    PROVE  GoesOn(s, r, c)
  <1> PICK m : m = [s EXCEPT !.rename = TRUE]
    OBVIOUS
  <1>0. DOMAIN s = Fields /\ Types(s) /\ DataOK(s) /\ LineOK(s)
    BY DEF Returned, Sound, IsState
  <1>1. DOMAIN m = Fields
    BY ONLY <1>0, m = [s EXCEPT !.rename = TRUE] DEF Fields
  <1>2. Types(m)
    BY ONLY <1>0, m = [s EXCEPT !.rename = TRUE] DEF Types, Fields
  <1>3. Same(s, m, {"rename"})
    BY ONLY <1>0, m = [s EXCEPT !.rename = TRUE] DEF Same, Fields
  <1>4. DataOK(m) /\ LineOK(m) /\ Onward(s, m)
    BY ONLY <1>0, <1>3 DEF DataOK, LineOK, Onward, Same, Fields
  <1>5. Returned(m, c)
    BY <1>1, <1>2, <1>3, <1>4 DEF Returned, Sound, IsState, Free, Going, Idle, Timed, TimerOK, Same, Fields
  <1>6. r \in Answers(m, {3})
    BY DEF Answers
  <1>7. GoesOn(m, r, c)
    BY <1>5, <1>6, ReturnedAnswer
  <1> QED
    BY <1>4, <1>7, OnwardTwice DEF GoesOn

LEMMA ReturnedListing ==
    ASSUME NEW s, Returned(s, "STAT"), NEW r, r = [s EXCEPT !.nested = TRUE]
    PROVE  GoesOn(s, r, "STAT")
  <1>0. DOMAIN s = Fields /\ Types(s) /\ DataOK(s) /\ LineOK(s) /\ "STAT" # None
    BY Constants DEF Returned, Sound, IsState
  <1>1. DOMAIN r = Fields /\ r.nested
    BY <1>0 DEF Fields
  <1>2. Types(r)
    BY <1>0 DEF Types, Fields
  <1>3. Same(s, r, {"nested"})
    BY <1>0 DEF Same, Fields
  <1>4. DataOK(r) /\ LineOK(r) /\ Onward(s, r) /\ r.cur = s.cur /\ r.xfer = s.xfer
        /\ r.open = s.open /\ r.overtaken = s.overtaken
    BY ONLY <1>0, <1>3 DEF DataOK, LineOK, Onward, Same, Fields
  <1>5. Going(s) => OpenOK(r)
    BY <1>0, <1>1, <1>3 DEF Returned, Free, OpenOK, WorkOK, Idle, Same, Fields
  <1>6. Timed(r)
    BY <1>3 DEF Returned, Timed, TimerOK, Same, Fields
  <1>7. Going(r) => Going(s)
    BY <1>4 DEF Going
  <1> QED
    BY <1>1, <1>2, <1>4, <1>5, <1>6, <1>7 DEF Good, Sound, IsState, GoesOn, Returned, Free, Idle

LEMMA ReturnedTransfer ==
    ASSUME NEW s, NEW c \in Transfers, Returned(s, c), NEW connects, NEW r,
           r = StartDataTransfer([s EXCEPT !.file = @ \/ c \in FileCmds], c, connects)
    PROVE  GoesOn(s, r, c)
  <1> PICK file \in BOOLEAN : file = (s.file \/ c \in FileCmds)
    OBVIOUS
  <1> PICK m : m = [s EXCEPT !.file = file]
    OBVIOUS
  <1>0. DOMAIN s = Fields /\ Types(s) /\ DataOK(s) /\ LineOK(s)
    BY DEF Returned, Sound, IsState
  <1>1. DOMAIN m = Fields /\ m.file = file
    BY ONLY <1>0, m = [s EXCEPT !.file = file] DEF Fields
  <1>2. Types(m)
    BY ONLY <1>0, file \in BOOLEAN, m = [s EXCEPT !.file = file] DEF Types, Fields
  <1>3. Same(s, m, {"file"})
    BY ONLY <1>0, m = [s EXCEPT !.file = file] DEF Same, Fields
  <1>4. DataOK(m) /\ LineOK(m) /\ Onward(s, m) /\ m.open = s.open /\ m.tls = s.tls
        /\ m.overtaken = s.overtaken
    BY ONLY <1>0, <1>3 DEF DataOK, LineOK, Onward, Same, Fields
  <1>5. Sound(m) /\ (~m.overtaken => m.tls # "securing")
    BY <1>1, <1>2, <1>4 DEF Sound, IsState, Returned
  <1>6. Going(m) =>
          /\ m.owed = 1 /\ m.cur = c /\ m.ops = <<>> /\ m.xfer = None /\ ~m.nested
          /\ m.authing = 0 /\ ~m.lookup /\ (m.file => c \in FileCmds)
    BY <1>1, <1>3, <1>4 DEF Returned, Free, Going, Idle, Same, Fields
  <1>7. r = StartDataTransfer(m, c, connects) /\ Timed(m)
    BY <1>3 DEF Returned, Timed, TimerOK, Same, Fields
  <1>8. /\ Good(r) /\ Onward(m, r)
        /\ Going(r) =>
             \/ r.cur = c /\ r.xfer = c
             \/ r.cur = None /\ r.xfer = None
    BY ONLY <1>5, <1>6, <1>7, c \in Transfers, StartFacts
  <1> QED
    BY <1>4, <1>8, OnwardTwice DEF GoesOn

LEMMA Returns ==
    ASSUME NEW s, NEW c, Returned(s, c), NEW r \in OpOutcomes(s, c)
    PROVE  \E t : GoesOn(s, t, c) /\ (r = t \/ r = [t EXCEPT !.rename = FALSE])
  <1>1. CASE \E classes \in {{2, 5}, {5}} : r \in Answers(s, classes)
    BY <1>1, ReturnedAnswer
  <1>2. CASE c \in PathOps
    <2>1. OpOutcomes(s, c) = Answers(s, {2, 5})
      BY ONLY <1>2 DEF OpOutcomes, PathOps, Transfers, FileCmds, ListCmds
    <2> QED
      BY <1>1, <2>1
  <1>3. CASE c = "RNFR"
    <2>1. r = Reply([s EXCEPT !.rename = TRUE], 3) \/ r = Reply(s, 5)
      BY ONLY <1>3, r \in OpOutcomes(s, c) DEF OpOutcomes, PathOps, Transfers, FileCmds, ListCmds
    <2>2. Reply(s, 5) \in Answers(s, {5})
      BY DEF Answers
    <2> QED
      BY <1>1, <2>1, <2>2, ReturnedRename
  <1>4. CASE c = "RNTO"
    <2>1. PICK t \in Answers(s, {2, 5}) : r = [t EXCEPT !.rename = FALSE]
      BY ONLY <1>4, r \in OpOutcomes(s, c) DEF OpOutcomes, PathOps, Transfers, FileCmds, ListCmds
    <2>2. GoesOn(s, t, c)
      BY ReturnedAnswer
    <2> QED
      BY <2>1, <2>2
  <1>5. CASE c = "STAT"
    <2>1. r = [s EXCEPT !.nested = TRUE] \/ r = Reply(s, 5)
      BY ONLY <1>5, r \in OpOutcomes(s, c) DEF OpOutcomes, PathOps, Transfers, FileCmds, ListCmds
    <2>2. Reply(s, 5) \in Answers(s, {5})
      BY DEF Answers
    <2> QED
      BY <1>1, <1>5, <2>1, <2>2, ReturnedListing
  <1>6. CASE c \in Transfers
    <2>1. \/ \E connects \in BOOLEAN :
               r = StartDataTransfer([s EXCEPT !.file = @ \/ c \in FileCmds], c, connects)
          \/ r \in Answers(s, {5})
      BY ONLY <1>6, r \in OpOutcomes(s, c) DEF OpOutcomes, PathOps, Transfers, FileCmds, ListCmds
    <2> QED
      BY <1>1, <1>6, <2>1, ReturnedTransfer
  <1> QED
    BY <1>2, <1>3, <1>4, <1>5, <1>6 DEF Returned, AsyncCmds

\* A result leaves the queue, whichever it is.
LEMMA Removed ==
    ASSUME NEW S, NEW q \in Seq(S), NEW i \in 1..Len(q)
    PROVE  /\ Seqs!RemoveAt(q, i) \in Seq(S) /\ Len(Seqs!RemoveAt(q, i)) = Len(q) - 1
           /\ Len(q) = 1 => Seqs!RemoveAt(q, i) = <<>>
  <1> DEFINE a == SubSeq(q, 1, i - 1)
             b == SubSeq(q, i + 1, Len(q))
  <1>0. Len(q) \in Nat
    OBVIOUS
  <1>1. a \in Seq(S) /\ Len(a) = i - 1
    BY SubSeqProperties
  <1>2. b \in Seq(S) /\ Len(b) = Len(q) - i
    BY SubSeqProperties
  <1>3. a \o b \in Seq(S) /\ Len(a \o b) = Len(a) + Len(b)
    BY <1>1, <1>2, ConcatProperties
  <1>4. Seqs!RemoveAt(q, i) = a \o b
    BY DEF Seqs!RemoveAt
  <1> HIDE DEF a, b
  <1>5. Len(a \o b) = Len(q) - 1
    BY ONLY <1>1, <1>2, <1>3, i \in 1..Len(q), <1>0
  <1>6. Len(q) = 1 => a \o b = <<>>
    BY <1>3, <1>5, EmptySeq
  <1> QED
    BY <1>3, <1>4, <1>5, <1>6

\* What is left of a session when an operation that it asked for is answered.
LEMMA Answering ==
    ASSUME NEW s, Good(s), NEW i \in DOMAIN s.ops, NEW c, c = s.ops[i],
           NEW ops, ops = Seqs!RemoveAt(s.ops, i), NEW m, m = [s EXCEPT !.ops = ops]
    PROVE  /\ Returned(m, c) /\ Same(s, m, {"ops"}) /\ ops \in Seq(AsyncCmds)
           /\ Going(s) => s.cur = c /\ s.xfer = None /\ c # None
  <1>0. DataOK(s) /\ LineOK(s) /\ DOMAIN s = Fields /\ Types(s)
    BY DEF Good, Sound, IsState
  <1>1. s.ops \in Seq(AsyncCmds) /\ i \in 1..Len(s.ops) /\ Len(s.ops) \in Nat
    BY <1>0 DEF Types
  <1>2. /\ c \in AsyncCmds /\ ops \in Seq(AsyncCmds) /\ s.ops # <<>>
        /\ Len(ops) = Len(s.ops) - 1 /\ (Len(s.ops) = 1 => ops = <<>>)
    BY <1>1, Removed
  <1>3. Len(ops) <= MaxOps
    BY <1>0, <1>1, <1>2, Constants DEF LineOK
  <1>4. DOMAIN m = Fields /\ m.ops = ops
    BY ONLY <1>0, m = [s EXCEPT !.ops = ops] DEF Fields
  <1>5. Types(m)
    BY ONLY <1>0, <1>2, m = [s EXCEPT !.ops = ops] DEF Types, Fields
  <1>6. Same(s, m, {"ops"})
    BY ONLY <1>0, m = [s EXCEPT !.ops = ops] DEF Same, Fields
  <1>7. DataOK(m) /\ (~m.overtaken => m.tls # "securing")
    BY ONLY <1>0, <1>2, <1>6 DEF DataOK, Same, Fields
  <1>8. LineOK(m)
    BY ONLY <1>0, <1>3, <1>4, <1>6 DEF LineOK, Same, Fields
  <1>9. Timed(m)
    BY ONLY Good(s), <1>6 DEF Good, Timed, TimerOK, Same, Fields
  <1>10. m.open = s.open /\ m.cur = s.cur /\ m.owed = s.owed /\ m.overtaken = s.overtaken
    BY ONLY <1>6 DEF Same, Fields
  <1>11. ASSUME Going(s)
         PROVE  m.owed = 1 /\ s.cur = c /\ Idle(m) /\ s.xfer = None /\ c # None
    <2>1. OpenOK(s) /\ s.ops = <<s.cur>>
      BY <1>2, <1>11 DEF Good, OpenOK, WorkOK
    <2>2. Len(s.ops) = 1 /\ s.cur = c
      BY <1>1, <2>1
    <2>3. ops = <<>> /\ c # None
      BY <1>2, <2>2, Constants
    <2>4. s.owed = 1 /\ s.xfer = None /\ ~s.nested /\ s.authing = 0 /\ ~s.lookup /\ ~s.file
      BY <1>0, <1>2, <2>1, <2>2, <2>3 DEF OpenOK, WorkOK, Types
    <2>5. Idle(m)
      BY ONLY <1>4, <1>6, <2>3, <2>4 DEF Idle, Same, Fields
    <2> QED
      BY <1>10, <2>2, <2>3, <2>4, <2>5
  <1>12. Going(m) => Going(s)
    BY <1>10 DEF Going
  <1>13. Free(m) /\ (Going(m) => m.cur = c)
    BY <1>10, <1>11, <1>12 DEF Free
  <1> QED
    BY ONLY <1>2, <1>4, <1>5, <1>6, <1>7, <1>8, <1>9, <1>11, <1>13 DEF Returned, Sound, IsState

\* The answer is passed on to the command.
LEMMA AnswerPassedOn ==
    ASSUME NEW s, NEW c, Returned(s, c), NEW r \in OpOutcomes(s, c),
           NEW u, u = [r EXCEPT !.recv = "idle"]
    PROVE  GoesOn(s, u, c)
  <1>1. PICK t : GoesOn(s, t, c) /\ (r = t \/ r = [t EXCEPT !.rename = FALSE])
    BY Returns
  <1>2. DOMAIN t = Fields /\ Types(t)
    BY <1>1 DEF GoesOn, Good, Sound, IsState
  <1>3. PICK rename \in BOOLEAN : u = [t EXCEPT !.rename = rename, !.recv = "idle"]
    <2>1. CASE r = t
      <3>1. t.rename \in BOOLEAN /\ u = [t EXCEPT !.rename = t.rename, !.recv = "idle"]
        BY <1>2, <2>1 DEF Types, Fields
      <3> QED
        BY <3>1
    <2>2. CASE r = [t EXCEPT !.rename = FALSE]
      <3>1. u = [t EXCEPT !.rename = FALSE, !.recv = "idle"]
        BY <1>2, <2>2 DEF Fields
      <3> QED
        BY <3>1
    <2> QED
      BY <1>1, <2>1, <2>2
  <1>4. DOMAIN u = Fields /\ u.recv = "idle"
    BY ONLY <1>2, <1>3 DEF Fields
  <1>5. Types(u)
    BY ONLY <1>2, <1>3 DEF Types, Fields
  <1>6. Same(t, u, MinorFields)
    BY ONLY <1>2, <1>3 DEF Same, Fields, MinorFields
  <1>7. Good(u) /\ Onward(t, u) /\ u.cur = t.cur /\ u.xfer = t.xfer
    BY <1>1, <1>4, <1>5, <1>6, MinorGood DEF GoesOn, IsState
  <1>8. Going(u) => Going(t)
    BY <1>7 DEF Onward, Going
  <1> QED
    BY ONLY <1>1, <1>7, <1>8, OnwardTwice DEF GoesOn

\* The answer of an operation that was aborted is thrown away, its file is not.
LEMMA AnswerDiscarded ==
    ASSUME NEW s, NEW c, Returned(s, c), s.recv = "aborting", NEW r \in Discarded(s, c),
           NEW u, u = [r EXCEPT !.recv = "idle"]
    PROVE  Good(u) /\ Onward(s, u) /\ u.cur = s.cur /\ u.xfer = s.xfer
  <1>0. DataOK(s) /\ LineOK(s) /\ DOMAIN s = Fields /\ Types(s) /\ Timed(s)
    BY DEF Returned, Sound, IsState
  <1>1. PICK opened \in BOOLEAN :
          /\ r = [s EXCEPT !.wake = s.stalled, !.file = opened]
          /\ opened => c \in FileCmds \/ s.file
    BY <1>0 DEF Discarded, Types
  <1>2. u = [s EXCEPT !.wake = s.stalled, !.file = opened, !.recv = "idle"] /\ s.stalled \in BOOLEAN
    BY <1>0, <1>1 DEF Types, Fields
  <1>3. DOMAIN u = Fields /\ u.wake = s.stalled /\ u.file = opened /\ u.recv = "idle"
    BY ONLY <1>0, <1>2 DEF Fields
  <1>4. Types(u)
    BY ONLY <1>0, <1>1, <1>2 DEF Types, Fields
  <1>5. Same(s, u, {"wake", "file", "recv"})
    BY ONLY <1>0, <1>2 DEF Same, Fields
  <1>6. DataOK(u) /\ Onward(s, u) /\ Timed(u)
    BY ONLY <1>0, <1>5 DEF DataOK, Onward, Timed, TimerOK, Same, Fields
  <1>7. /\ u.stalled = s.stalled /\ u.queued = s.queued /\ u.inbox = s.inbox /\ u.ops = s.ops
        /\ u.authing = s.authing /\ u.cur = s.cur /\ u.xfer = s.xfer /\ u.open = s.open
        /\ u.overtaken = s.overtaken
    BY ONLY <1>5 DEF Same, Fields
  <1>8. LineOK(u)
    BY <1>0, <1>3, <1>7 DEF LineOK
  <1>9. Going(s) => OpenOK(u)
    <2>1. Going(s) => s.cur # None /\ s.owed = 1 /\ Idle(s) /\ s.cur = c
      BY Constants DEF Returned, Free
    <2> QED
      BY ONLY <1>1, <1>3, <1>5, <2>1 DEF OpenOK, WorkOK, Idle, Same, Fields
  <1>10. Going(u) => Going(s)
    BY <1>7 DEF Going
  <1> QED
    BY ONLY <1>3, <1>4, <1>6, <1>7, <1>8, <1>9, <1>10 DEF Good, Sound, IsState

LEMMA OpResultTurn ==
    ASSUME Good(st), OpResult
    PROVE  Good(st') /\ Turn(st, st')
  <1>1. PICK i \in DOMAIN st.ops :
          \E t \in IF st.recv = "aborting"
                   THEN Discarded([st EXCEPT !.ops = Seqs!RemoveAt(@, i)], st.ops[i])
                   ELSE OpOutcomes([st EXCEPT !.ops = Seqs!RemoveAt(@, i)], st.ops[i]) :
            st' = [t EXCEPT !.recv = "idle"]
    BY DEF OpResult
  <1> PICK c : c = st.ops[i]
    OBVIOUS
  <1> PICK ops : ops = Seqs!RemoveAt(st.ops, i)
    OBVIOUS
  <1> PICK s : s = [st EXCEPT !.ops = ops]
    OBVIOUS
  <1>2. s = [st EXCEPT !.ops = Seqs!RemoveAt(@, i)]
    OBVIOUS
  <1>3. /\ Returned(s, c) /\ Same(st, s, {"ops"})
        /\ Going(st) => st.cur = c /\ st.xfer = None /\ c # None
    BY Answering
  <1>4. /\ s.recv = st.recv /\ s.cur = st.cur /\ s.xfer = st.xfer /\ Onward(st, s)
    BY <1>3 DEF Same, Fields, Onward
  <1> PICK u : u = st'
    OBVIOUS
  <1>5. CASE st.recv = "aborting"
    <2>1. PICK r \in Discarded(s, c) : u = [r EXCEPT !.recv = "idle"]
      BY ONLY <1>1, <1>2, <1>5, c = st.ops[i], u = st'
    <2>2. Good(u) /\ Onward(s, u) /\ u.cur = s.cur /\ u.xfer = s.xfer
      BY ONLY <1>3, <1>4, <1>5, <2>1, AnswerDiscarded
    <2> QED
      BY <1>4, <2>2, OnwardTwice DEF Turn
  <1>6. CASE st.recv # "aborting"
    <2>1. PICK r \in OpOutcomes(s, c) : u = [r EXCEPT !.recv = "idle"]
      BY ONLY <1>1, <1>2, <1>6, c = st.ops[i], u = st'
    <2>2. GoesOn(s, u, c)
      BY <1>3, <2>1, AnswerPassedOn
    <2>3. Onward(st, u) /\ (Going(u) => Going(st))
      BY <1>4, <2>2, OnwardTwice DEF GoesOn, Onward, Going
    <2> QED
      BY <1>3, <2>2, <2>3 DEF GoesOn, Turn
  <1> QED
    BY <1>5, <1>6

LEMMA NestedDoneTurn ==
    ASSUME Good(st), NestedDone
    PROVE  Good(st') /\ Turn(st, st')
  <1>0. DataOK(st) /\ LineOK(st) /\ DOMAIN st = Fields /\ Types(st) /\ Timed(st)
    BY DEF Good, Sound, IsState
  <1> PICK m : m = [st EXCEPT !.nested = FALSE]
    OBVIOUS
  <1>1. st.nested /\ st' = Replied(m, 2)
    BY DEF NestedDone
  <1>2. DOMAIN m = Fields /\ ~m.nested
    BY ONLY <1>0, m = [st EXCEPT !.nested = FALSE] DEF Fields
  <1>3. Types(m)
    BY ONLY <1>0, m = [st EXCEPT !.nested = FALSE] DEF Types, Fields
  <1>4. Same(st, m, {"nested"})
    BY ONLY <1>0, m = [st EXCEPT !.nested = FALSE] DEF Same, Fields
  <1>5. /\ DataOK(m) /\ LineOK(m) /\ m.open = st.open /\ m.xfer = st.xfer
        /\ m.overtaken = st.overtaken /\ Onward(st, m)
    BY ONLY <1>0, <1>4 DEF DataOK, LineOK, Onward, Same, Fields
  <1>6. Sound(m) /\ Timed(m)
    BY <1>0, <1>2, <1>3, <1>4, <1>5 DEF Sound, IsState, Timed, TimerOK, Same, Fields
  <1>7. ASSUME Going(st)
        PROVE  m.owed = 1 /\ Idle(m) /\ st.cur # None /\ st.xfer = None
    <2>1. OpenOK(st) /\ st.cur = "STAT" /\ st.cur # None
      BY <1>1, <1>7, Constants DEF Good, OpenOK, WorkOK
    <2>2. /\ st.owed = 1 /\ st.ops = <<>> /\ st.xfer = None /\ st.authing = 0 /\ ~st.lookup
          /\ ~st.file
      BY <1>0, <1>1, <2>1 DEF OpenOK, WorkOK, Types, FileCmds
    <2> QED
      BY <1>2, <1>4, <2>1, <2>2 DEF Idle, Same, Fields
  <1>8. Free(m)
    BY <1>5, <1>7 DEF Free, Going
  <1> PICK r : r = Replied(m, 2)
    OBVIOUS
  <1>9. ReplyOf(m, r, 2)
    BY <1>6, RepliedFacts DEF Sound
  <1>10. Good(r) /\ Onward(m, r) /\ r.cur = None /\ r.xfer = m.xfer
    BY ONLY <1>6, <1>8, <1>9, AnswerGood
  <1>11. Onward(st, r) /\ (Going(r) => Going(st))
    BY <1>5, <1>10, OnwardTwice DEF Onward, Going
  <1>12. Turn(st, r)
    BY ONLY <1>5, <1>7, <1>10, <1>11 DEF Turn
  <1> QED
    BY <1>1, <1>10, <1>12

\* The session m is s with the answer of the authenticator at hand.
Told(s, m) ==
    Sound(m) /\ Free(m) /\ Onward(s, m) /\ (Going(s) => s.cur # None)

LEMMA LoginAnswered ==
    ASSUME NEW s, NEW m, Told(s, m), NEW class, class # 1, NEW r, r = Reply(m, class)
    PROVE  /\ Sound(r) /\ Onward(s, r) /\ r.cur = None /\ r.timer = m.timer
           /\ r.authed = m.authed /\ r.authing = m.authing
           /\ Going(r) => r.owed = 0 /\ WorkOK(r) /\ r.xfer = None
           /\ Turn(s, r)
  <1>1. ReplyOf(m, r, class) /\ Sound(m)
    BY ReplyFacts DEF Sound, Told
  <1>2. /\ Sound(r) /\ Onward(m, r) /\ r.cur = None /\ r.timer = m.timer
        /\ r.authed = m.authed /\ r.authing = m.authing
        /\ Going(r) => r.owed = 0 /\ WorkOK(r) /\ Idle(r)
    BY <1>1, AnswerEnds DEF Told
  <1>3. Onward(s, r) /\ (Going(r) => Going(s))
    BY <1>2, OnwardTwice DEF Told, Onward, Going
  <1> QED
    BY <1>2, <1>3 DEF Told, Turn, Idle

\* The client is not logged in, and has all the time there is to log in.
LEMMA NobodyLoggedIn ==
    ASSUME NEW s, NEW t, Sound(t), Onward(s, t), t.cur = None, t.timer = "login",
           Going(t) => t.owed = 0 /\ WorkOK(t) /\ t.xfer = None, Going(s) => s.cur # None,
           NEW authOp \in BOOLEAN,
           NEW r, r = [t EXCEPT !.authOp = authOp, !.authed = FALSE]
    PROVE  Good(r) /\ Turn(s, r)
  <1>0. DOMAIN t = Fields /\ Types(t) /\ DataOK(t) /\ LineOK(t)
    BY DEF Sound, IsState
  <1>1. DOMAIN r = Fields /\ ~r.authed
    BY <1>0 DEF Fields
  <1>2. Types(r)
    BY <1>0 DEF Types, Fields
  <1>3. Same(t, r, {"authOp", "authed"})
    BY <1>0 DEF Same, Fields
  <1>4. DataOK(r) /\ LineOK(r)
    BY ONLY <1>0, <1>3 DEF DataOK, LineOK, Same, Fields
  <1>5. /\ r.timer = "login" /\ r.cur = None /\ r.xfer = t.xfer /\ Onward(t, r)
        /\ r.open = t.open /\ r.overtaken = t.overtaken
    BY <1>3 DEF Onward, Same, Fields
  <1>6. Timed(r)
    BY <1>1, <1>5 DEF Timed, TimerOK
  <1>7. Going(t) => OpenOK(r)
    BY <1>1, <1>3, <1>5 DEF OpenOK, WorkOK, Same, Fields
  <1>8. Going(r) => Going(t)
    BY <1>5 DEF Going
  <1>9. Good(r)
    BY <1>1, <1>2, <1>4, <1>6, <1>7, <1>8 DEF Good, Sound, IsState
  <1>10. Onward(s, r) /\ (Going(t) => Going(s))
    BY <1>5, OnwardTwice DEF Onward, Going
  <1> QED
    BY <1>5, <1>8, <1>9, <1>10 DEF Turn

\* The authenticator's answer: the client is asked for its password, let in, or
\* refused.
LEMMA AuthResultTurn ==
    ASSUME Good(st), AuthResult
    PROVE  Good(st') /\ Turn(st, st')
  <1>0. DataOK(st) /\ LineOK(st) /\ DOMAIN st = Fields /\ Types(st)
    BY DEF Good, Sound, IsState
  <1> PICK r : r = st'
    OBVIOUS
  <1> PICK n : n = st.authing - 1
    OBVIOUS
  <1>1. st.authing # 0 /\ r \in AuthAnswers(st)
    BY DEF AuthResult
  <1>2. n \in Nat /\ n <= MaxOps /\ n < st.authing
    BY <1>0, <1>1, Constants DEF Types, LineOK
  <1>3. ASSUME Going(st)
        PROVE  /\ n = 0 /\ st.owed = 1 /\ st.cur # None /\ ~st.authed /\ st.xfer = None
               /\ st.ops = <<>> /\ ~st.nested /\ ~st.lookup /\ ~st.file
    <2>1. OpenOK(st) /\ st.authing = 1 /\ st.cur \in Login /\ ~st.authed /\ ~st.lookup
          /\ st.cur # None
      BY <1>1, <1>3, Constants DEF Good, OpenOK, WorkOK
    <2>2. st.owed = 1 /\ st.ops = <<>> /\ st.xfer = None /\ ~st.nested /\ st.cur \notin FileCmds
      BY <1>0, <1>1, <2>1, Constants DEF OpenOK, WorkOK, Types
    <2>3. ~st.file
      BY <1>0, <2>1, <2>2 DEF OpenOK, WorkOK, Types
    <2> QED
      BY <2>1, <2>2, <2>3
  <1>4. ASSUME NEW m, DOMAIN m = Fields, Types(m), m.authing = n,
               Same(st, m, {"authing", "timer", "authed", "protP"}),
               ~st.overtaken /\ m.protP => st.protP \/ st.tls = "secured"
        PROVE  Told(st, m)
    <2>1. DataOK(m) /\ LineOK(m) /\ Onward(st, m)
      BY ONLY <1>0, <1>2, <1>4 DEF DataOK, LineOK, Onward, Same, Fields
    <2>2. m.open = st.open /\ m.overtaken = st.overtaken
      BY ONLY <1>4 DEF Same, Fields
    <2>3. Going(st) => m.owed = 1 /\ Idle(m)
      BY ONLY <1>3, <1>4 DEF Idle, Same, Fields
    <2> QED
      BY ONLY <1>3, <1>4, <2>1, <2>2, <2>3 DEF Told, Sound, IsState, Free, Going
  <1>5. CASE r = [Reply([[st EXCEPT !.authing = n] EXCEPT !.timer = "login"], 3)
                    EXCEPT !.authOp = TRUE, !.authed = FALSE]
    <2> PICK m : m = [[st EXCEPT !.authing = n] EXCEPT !.timer = "login"]
      OBVIOUS
    <2>1. m = [st EXCEPT !.authing = n, !.timer = "login"]
      BY ONLY <1>0, m = [[st EXCEPT !.authing = n] EXCEPT !.timer = "login"] DEF Fields
    <2>2. DOMAIN m = Fields /\ m.authing = n /\ m.timer = "login"
      BY ONLY <1>0, <2>1 DEF Fields
    <2>3. Types(m)
      BY ONLY <1>0, <1>2, <2>1 DEF Types, Fields
    <2>4. Same(st, m, {"authing", "timer", "authed", "protP"}) /\ m.protP = st.protP
      BY ONLY <1>0, <2>1 DEF Same, Fields
    <2>5. Told(st, m)
      BY ONLY <1>4, <2>2, <2>3, <2>4
    <2> PICK t : t = Reply(m, 3)
      OBVIOUS
    <2>6. t = Reply(m, 3) /\ 3 # 1
      OBVIOUS
    <2>7. /\ Sound(t) /\ Onward(st, t) /\ t.cur = None /\ t.timer = m.timer
          /\ Going(t) => t.owed = 0 /\ WorkOK(t) /\ t.xfer = None
      BY ONLY <2>5, <2>6, LoginAnswered
    <2>8. r = [t EXCEPT !.authOp = TRUE, !.authed = FALSE]
      BY <1>5
    <2>9. Going(st) => st.cur # None
      BY <1>3
    <2>10. t.timer = "login"
      BY <2>2, <2>7
    <2>11. Good(r) /\ Turn(st, r)
      BY ONLY <2>7, <2>8, <2>9, <2>10, NobodyLoggedIn
    <2> QED
      BY <2>11
  <1>6. CASE \E p \in {st.protP, st.tls = "secured"} :
               r = Reply([[st EXCEPT !.authing = n]
                            EXCEPT !.timer = "activity", !.authed = TRUE, !.protP = p], 2)
    <2> PICK p \in BOOLEAN :
               /\ p => st.protP \/ st.tls = "secured"
               /\ r = Reply([[st EXCEPT !.authing = n]
                               EXCEPT !.timer = "activity", !.authed = TRUE, !.protP = p], 2)
      BY <1>0, <1>6 DEF Types
    <2> PICK m : m = [[st EXCEPT !.authing = n]
                        EXCEPT !.timer = "activity", !.authed = TRUE, !.protP = p]
      OBVIOUS
    <2>1. m = [st EXCEPT !.authing = n, !.timer = "activity", !.authed = TRUE, !.protP = p]
      BY ONLY <1>0, m = [[st EXCEPT !.authing = n]
                           EXCEPT !.timer = "activity", !.authed = TRUE, !.protP = p] DEF Fields
    <2>2. DOMAIN m = Fields /\ m.authing = n /\ m.timer = "activity" /\ m.authed /\ m.protP = p
      BY ONLY <1>0, <2>1 DEF Fields
    <2>3. Types(m)
      BY ONLY <1>0, <1>2, <2>1, p \in BOOLEAN DEF Types, Fields
    <2>4. Same(st, m, {"authing", "timer", "authed", "protP"})
      BY ONLY <1>0, <2>1 DEF Same, Fields
    <2>5. Told(st, m)
      BY ONLY <1>4, <2>2, <2>3, <2>4, p => st.protP \/ st.tls = "secured"
    <2>6. r = Reply(m, 2) /\ 2 # 1
      OBVIOUS
    <2>7. /\ Sound(r) /\ Turn(st, r) /\ r.cur = None /\ r.timer = m.timer
          /\ r.authed = m.authed
          /\ Going(r) => r.owed = 0 /\ WorkOK(r)
      BY ONLY <2>5, <2>6, LoginAnswered
    <2>8. Timed(r)
      BY <2>2, <2>7 DEF Timed, TimerOK
    <2> QED
      BY <2>7, <2>8 DEF Good, OpenOK
  <1>7. CASE \E class \in {4, 5} : r = [Refused([st EXCEPT !.authing = n], class) EXCEPT !.authed = FALSE]
    <2> PICK class \in {4, 5} : r = [Refused([st EXCEPT !.authing = n], class) EXCEPT !.authed = FALSE]
      BY <1>7
    <2> PICK m : m = [st EXCEPT !.authing = n]
      OBVIOUS
    <2>1. DOMAIN m = Fields /\ m.authing = n
      BY ONLY <1>0, m = [st EXCEPT !.authing = n] DEF Fields
    <2>2. Types(m)
      BY ONLY <1>0, <1>2, m = [st EXCEPT !.authing = n] DEF Types, Fields
    <2>3. Same(st, m, {"authing", "timer", "authed", "protP"}) /\ m.protP = st.protP
      BY ONLY <1>0, m = [st EXCEPT !.authing = n] DEF Same, Fields
    <2>4. Told(st, m)
      BY ONLY <1>4, <2>1, <2>2, <2>3
    <2> PICK t : t = Refused(m, class)
      OBVIOUS
    <2>5. t = Refused(m, class) /\ class # 1 /\ Sound(m) /\ Free(m)
      BY <2>4 DEF Told
    <2>6. /\ Sound(t) /\ Onward(m, t) /\ t.cur = None /\ t.timer = "login"
          /\ Going(t) => t.owed = 0 /\ WorkOK(t) /\ Idle(t)
      BY ONLY <2>5, RefusedEnds
    <2>7. Onward(st, t) /\ (Going(st) => st.cur # None)
      BY <2>4, <2>6, OnwardTwice DEF Told
    <2>8. r = [t EXCEPT !.authed = FALSE] /\ DOMAIN t = Fields /\ t.authOp \in BOOLEAN
      BY <2>6 DEF Sound, IsState, Types
    <2>9. r = [t EXCEPT !.authOp = t.authOp, !.authed = FALSE]
      BY ONLY <2>8 DEF Fields
    <2>10. Going(t) => t.owed = 0 /\ WorkOK(t) /\ t.xfer = None
      BY <2>6 DEF Idle
    <2>11. Good(r) /\ Turn(st, r)
      BY ONLY <2>6, <2>7, <2>8, <2>9, <2>10, NobodyLoggedIn
    <2> QED
      BY <2>11
  <1> PICK told : told = [st EXCEPT !.authing = @ - 1]
    OBVIOUS
  <1>8. told = [st EXCEPT !.authing = n]
    BY <1>0 DEF Fields
  <1>9. \/ r = [Reply([told EXCEPT !.timer = "login"], 3) EXCEPT !.authOp = TRUE, !.authed = FALSE]
        \/ \E p \in {st.protP, st.tls = "secured"} :
             r = Reply([told EXCEPT !.timer = "activity", !.authed = TRUE, !.protP = p], 2)
        \/ \E class \in {4, 5} : r = [Refused(told, class) EXCEPT !.authed = FALSE]
    BY ONLY <1>1, told = [st EXCEPT !.authing = @ - 1] DEF AuthAnswers
  <1> QED
    BY ONLY <1>5, <1>6, <1>7, <1>8, <1>9

\* The host name is known, or the socket it was wanted for is gone.
LEMMA LookupTurn ==
    ASSUME Good(st), LookupEvent
    PROVE  Good(st') /\ Turn(st, st')
  <1>0. DataOK(st) /\ LineOK(st) /\ DOMAIN st = Fields /\ Types(st) /\ Timed(st)
    BY DEF Good, Sound, IsState
  <1> PICK r : r = st'
    OBVIOUS
  <1>1. st.lookup
    BY DEF LookupEvent
  <1>2. ASSUME Going(st)
        PROVE  /\ st.owed = 1 /\ st.cur # None /\ st.xfer = None /\ st.ops = <<>>
               /\ ~st.nested /\ st.authing = 0 /\ ~st.file
    <2>1. OpenOK(st) /\ st.cur = "PASV" /\ st.cur # None
      BY <1>1, <1>2, Constants DEF Good, OpenOK, WorkOK
    <2> QED
      BY <1>0, <1>1, <2>1 DEF OpenOK, WorkOK, Types, FileCmds
  <1>3. CASE r = Fresh
    BY <1>2, <1>3, FreshGood DEF Turn
  <1>4. CASE \E class \in {2, 4} : r = Reply([st EXCEPT !.lookup = FALSE, !.info = FALSE], class)
    <2> PICK class \in {2, 4} : r = Reply([st EXCEPT !.lookup = FALSE, !.info = FALSE], class)
      BY <1>4
    <2> PICK m : m = [st EXCEPT !.lookup = FALSE, !.info = FALSE]
      OBVIOUS
    <2>1. DOMAIN m = Fields /\ ~m.lookup
      BY ONLY <1>0, m = [st EXCEPT !.lookup = FALSE, !.info = FALSE] DEF Fields
    <2>2. Types(m)
      BY ONLY <1>0, m = [st EXCEPT !.lookup = FALSE, !.info = FALSE] DEF Types, Fields
    <2>3. Same(st, m, {"lookup", "info"})
      BY ONLY <1>0, m = [st EXCEPT !.lookup = FALSE, !.info = FALSE] DEF Same, Fields
    <2>4. DataOK(m) /\ LineOK(m) /\ Onward(st, m) /\ Timed(m) /\ m.open = st.open
          /\ m.overtaken = st.overtaken
      BY ONLY <1>0, <2>3 DEF DataOK, LineOK, Onward, Timed, TimerOK, Same, Fields
    <2>5. Going(st) => m.owed = 1 /\ Idle(m)
      BY ONLY <1>2, <2>1, <2>3 DEF Idle, Same, Fields
    <2>6. Sound(m) /\ Free(m)
      BY <2>1, <2>2, <2>4, <2>5 DEF Sound, IsState, Free, Going
    <2>7. ReplyOf(m, r, class) /\ class # 1
      BY <2>6, ReplyFacts DEF Sound
    <2>8. Good(r) /\ Onward(m, r) /\ r.cur = None /\ r.xfer = m.xfer
      BY ONLY <2>4, <2>6, <2>7, AnswerGood
    <2>9. Onward(st, r) /\ (Going(r) => Going(st))
      BY <2>4, <2>8, OnwardTwice DEF Onward, Going
    <2> QED
      BY <1>2, <2>5, <2>8, <2>9 DEF Turn, Idle
  <1> QED
    BY <1>3, <1>4 DEF LookupEvent, Answers

-----------------------------------------------------------------------------
(* The events of the data connection.                                       *)

\* A new state of the data connection, from which it goes on.
LEMMA Connects ==
    ASSUME Good(st), NEW m, DOMAIN m = Fields, Types(m),
           Same(st, m, {"sock", "lsn", "port"}),
           st.lsn # "none" \/ st.sock \in {"connecting", "securing"}, ~st.overtaken => ~st.chan,
           m.sock \in {"connected", "secured"}, m.sock = "secured" => st.sock = "securing",
           m.lsn = "none"
    PROVE  /\ Good(SetupDataChannel(m)) /\ Turn(st, SetupDataChannel(m))
  <1>0. DataOK(st) /\ DOMAIN st = Fields /\ Types(st)
    BY DEF Good, Sound, IsState
  <1>1. ~st.overtaken => ~st.prev /\ (st.done # "none" => st.xfer # None)
    BY <1>0 DEF DataOK
  <1>2. DataOK(m)
    BY ONLY <1>0, <1>1, Same(st, m, {"sock", "lsn", "port"}), ~st.overtaken => ~st.chan, m.lsn = "none",
            m.sock \in {"connected", "secured"}, m.sock = "secured" => st.sock = "securing"
    DEF DataOK, Same, Fields
  <1>3. Same(st, m, ConnectionFields)
    BY DEF Same, ConnectionFields
  <1>4. Good(m) /\ Settled(st, m)
    BY <1>2, <1>3, DataChange DEF IsState
  <1>5. Good(SetupDataChannel(m)) /\ Settled(m, SetupDataChannel(m))
    BY <1>4, SetupFacts
  <1> QED
    BY <1>4, <1>5, SettledTwice, SettledTurn

LEMMA FailsTurn ==
    ASSUME Good(st), NEW status, NEW err \in BOOLEAN, st' = HandleDataTransfer(st, status, err)
    PROVE  Good(st') /\ Turn(st, st')
  BY HandleDataTransferFacts, SettledTurn

LEMMA PeerConnectsTurn ==
    ASSUME Good(st), PeerConnects
    PROVE  Good(st') /\ Turn(st, st')
  <1>0. DataOK(st) /\ DOMAIN st = Fields /\ Types(st)
    BY DEF Good, Sound, IsState
  <1> PICK m : m = [st EXCEPT !.lsn = "none", !.sock = "connected",
                              !.port = IF @ = "waiting" THEN "connected" ELSE @]
    OBVIOUS
  <1>1. CASE st' = SetupDataChannel(m)
    <2>1. DOMAIN m = Fields /\ m.lsn = "none" /\ m.sock = "connected"
      BY <1>0 DEF Fields
    <2>2. Types(m)
      BY <1>0 DEF Types, Fields
    <2>3. Same(st, m, {"sock", "lsn", "port"})
      BY <1>0 DEF Same, Fields
    <2>4. st.lsn # "none" /\ (~st.overtaken => ~st.chan)
      BY <1>0 DEF PeerConnects, DataOK
    <2>5. Good(SetupDataChannel(m)) /\ Turn(st, SetupDataChannel(m))
      BY ONLY Good(st), <2>1, <2>2, <2>3, <2>4, Connects
    <2> QED
      BY <1>1, <2>5
  <1>2. CASE st' = HandleDataTransfer(st, "connecting", TRUE)
    BY <1>2, FailsTurn
  <1> QED
    BY <1>1, <1>2 DEF PeerConnects

LEMMA ConnectTurn ==
    ASSUME Good(st), ConnectDone \/ HandshakeDone
    PROVE  Good(st') /\ Turn(st, st')
  <1>0. DataOK(st) /\ DOMAIN st = Fields /\ Types(st)
    BY DEF Good, Sound, IsState
  <1>1. CASE \E sock \in {"connected", "secured"} :
               /\ st' = SetupDataChannel([st EXCEPT !.sock = sock, !.lsn = "none"])
               /\ st.sock \in {"connecting", "securing"} /\ (~st.overtaken => ~st.chan)
               /\ sock = "secured" => st.sock = "securing"
    <2> PICK sock \in {"connected", "secured"} :
               /\ st' = SetupDataChannel([st EXCEPT !.sock = sock, !.lsn = "none"])
               /\ st.sock \in {"connecting", "securing"} /\ (~st.overtaken => ~st.chan)
               /\ sock = "secured" => st.sock = "securing"
      BY <1>1
    <2> PICK m : m = [st EXCEPT !.sock = sock, !.lsn = "none"]
      OBVIOUS
    <2>1. DOMAIN m = Fields /\ m.lsn = "none" /\ m.sock = sock
      BY <1>0 DEF Fields
    <2>2. Types(m)
      BY <1>0 DEF Types, Fields
    <2>3. Same(st, m, {"sock", "lsn", "port"})
      BY <1>0 DEF Same, Fields
    <2>4. Good(SetupDataChannel(m)) /\ Turn(st, SetupDataChannel(m))
      BY <2>1, <2>2, <2>3, Connects
    <2> QED
      BY <2>4
  <1>2. CASE st' = HandleDataTransfer(st, "connecting", TRUE)
    BY <1>2, FailsTurn
  <1>3. HandshakeDone /\ ~st.overtaken => ~st.chan
    BY <1>0 DEF HandshakeDone, DataOK
  <1> QED
    BY <1>1, <1>2, <1>3 DEF ConnectDone, HandshakeDone

LEMMA SocketErrorTurn ==
    ASSUME Good(st), DataSocketError
    PROVE  Good(st') /\ Turn(st, st')
  BY FailsTurn DEF DataSocketError

LEMMA ChannelDoneTurn ==
    ASSUME Good(st), ChannelDone
    PROVE  Good(st') /\ Turn(st, st')
  <1>0. DataOK(st) /\ DOMAIN st = Fields /\ Types(st) /\ st.chan
    BY DEF Good, Sound, IsState, ChannelDone
  <1> PICK how \in {"ok", "err"} : st' = [st EXCEPT !.chan = FALSE, !.done = how]
    BY DEF ChannelDone
  <1> PICK m : m = [st EXCEPT !.chan = FALSE, !.done = how]
    OBVIOUS
  <1>1. DOMAIN m = Fields /\ ~m.chan
    BY <1>0 DEF Fields
  <1>2. Types(m)
    BY <1>0 DEF Types, Fields
  <1>3. Same(st, m, {"chan", "done"})
    BY <1>0 DEF Same, Fields
  <1>4. DataOK(m)
    BY <1>0, <1>1, <1>3 DEF DataOK, Same, Fields
  <1>5. Same(st, m, ConnectionFields)
    BY <1>3 DEF Same, ConnectionFields
  <1>6. Good(m) /\ Settled(st, m)
    BY <1>1, <1>2, <1>4, <1>5, DataChange DEF IsState
  <1>7. Turn(st, m)
    BY <1>6, SettledTurn
  <1> QED
    BY <1>6, <1>7

LEMMA DoneEventTurn ==
    ASSUME Good(st), DoneEvent
    PROVE  Good(st') /\ Turn(st, st')
  <1>0. DataOK(st) /\ DOMAIN st = Fields /\ Types(st) /\ st.done # "none"
    BY DEF Good, Sound, IsState, DoneEvent, DataOK
  <1> PICK err \in BOOLEAN : err = (st.done = "err")
    OBVIOUS
  <1>1. ASSUME NEW e \in BOOLEAN, NEW m, m = [st EXCEPT !.done = "none", !.shutting = TRUE, !.shutErr = e]
        PROVE  Good(m) /\ Settled(st, m)
    <2>1. DOMAIN m = Fields /\ m.done = "none"
      BY ONLY <1>0, <1>1 DEF Fields
    <2>2. Types(m)
      BY ONLY <1>0, <1>1 DEF Types, Fields
    <2>3. Same(st, m, {"done", "shutting", "shutErr"})
      BY ONLY <1>0, <1>1 DEF Same, Fields
    <2>4. DataOK(m)
      BY ONLY <1>0, <2>1, <2>3 DEF DataOK, Same, Fields
    <2>5. Same(st, m, ConnectionFields)
      BY ONLY <2>3 DEF Same, ConnectionFields
    <2> QED
      BY ONLY Good(st), <2>1, <2>2, <2>4, <2>5, DataChange DEF IsState
  <1>2. CASE st' = [[st EXCEPT !.done = "none"] EXCEPT !.shutting = TRUE, !.shutErr = err]
    <2> PICK m : m = [st EXCEPT !.done = "none", !.shutting = TRUE, !.shutErr = err]
      OBVIOUS
    <2>1. st' = m
      BY <1>0, <1>2 DEF Fields
    <2>2. Good(m) /\ Settled(st, m)
      BY <1>1
    <2>3. Turn(st, m)
      BY <2>2, SettledTurn
    <2> QED
      BY <2>1, <2>2, <2>3
  <1>3. CASE st' = StopDataTransfer([[st EXCEPT !.done = "none"] EXCEPT !.shutting = TRUE], err)
    <2>1. st.shutErr \in BOOLEAN
      BY <1>0 DEF Types
    <2> PICK m : m = [st EXCEPT !.done = "none", !.shutting = TRUE, !.shutErr = st.shutErr]
      OBVIOUS
    <2>2. m = [[st EXCEPT !.done = "none"] EXCEPT !.shutting = TRUE]
      BY <1>0 DEF Fields
    <2>3. Good(m) /\ Settled(st, m)
      BY <1>1, <2>1
    <2> PICK r : r = HandleDataTransfer(m, "stopped", err)
      OBVIOUS
    <2>4. Good(r) /\ Settled(m, r)
      BY <2>3, HandleDataTransferFacts
    <2>5. Turn(st, r)
      BY <2>3, <2>4, SettledTwice, SettledTurn
    <2>6. st' = r
      BY <1>3, <2>2 DEF StopDataTransfer
    <2> QED
      BY <2>4, <2>5, <2>6
  <1>4. CASE st' = [st EXCEPT !.done = "none"]
    <2> PICK m : m = [st EXCEPT !.done = "none"]
      OBVIOUS
    <2>1. DOMAIN m = Fields /\ m.done = "none"
      BY ONLY <1>0, m = [st EXCEPT !.done = "none"] DEF Fields
    <2>2. Types(m)
      BY ONLY <1>0, m = [st EXCEPT !.done = "none"] DEF Types, Fields
    <2>3. Same(st, m, {"done"})
      BY ONLY <1>0, m = [st EXCEPT !.done = "none"] DEF Same, Fields
    <2>4. DataOK(m) /\ Same(st, m, ConnectionFields)
      BY ONLY <1>0, <2>1, <2>3 DEF DataOK, ConnectionFields, Same, Fields
    <2>5. Good(m) /\ Turn(st, m)
      BY ONLY Good(st), <2>1, <2>2, <2>4, DataChange, SettledTurn DEF IsState
    <2> QED
      BY <1>4, <2>5
  <1> QED
    BY <1>0, <1>2, <1>3, <1>4 DEF DoneEvent

LEMMA ShutdownDoneTurn ==
    ASSUME Good(st), ShutdownDone
    PROVE  Good(st') /\ Turn(st, st')
  <1>1. st.shutErr \in BOOLEAN
    BY DEF Good, Sound, IsState, Types
  <1> QED
    BY <1>1, FailsTurn DEF ShutdownDone, StopDataTransfer

-----------------------------------------------------------------------------
(* Timers, the control channel and the end of the session.                  *)

LEMMA TimeoutTurn ==
    ASSUME Good(st), LoginTimer \/ ActivityTimer
    PROVE  Good(st') /\ Turn(st, st')
  <1>0. DataOK(st) /\ LineOK(st) /\ DOMAIN st = Fields /\ Types(st)
    BY DEF Good, Sound, IsState
  <1>1. PICK authing \in {st.authing, 0}, authOp \in BOOLEAN :
          st' \in {Quit([st EXCEPT !.authing = authing, !.authOp = authOp, !.timer = "none"]),
                   Shutdown(Reply([st EXCEPT !.authing = authing, !.authOp = authOp,
                                             !.timer = "none"], 4))}
    <2>1. CASE LoginTimer
      <3>1. [[st EXCEPT !.authing = 0, !.authOp = FALSE] EXCEPT !.timer = "none"]
              = [st EXCEPT !.authing = 0, !.authOp = FALSE, !.timer = "none"]
        BY <1>0 DEF Fields
      <3> QED
        BY <2>1, <3>1 DEF LoginTimer, Timeout
    <2>2. CASE ActivityTimer
      <3>1. [st EXCEPT !.timer = "none"]
              = [st EXCEPT !.authing = st.authing, !.authOp = st.authOp, !.timer = "none"]
        BY <1>0 DEF Fields
      <3>2. st.authOp \in BOOLEAN
        BY <1>0 DEF Types
      <3> QED
        BY <2>2, <3>1, <3>2 DEF ActivityTimer, Timeout
    <2> QED
      BY <2>1, <2>2
  <1> PICK m : m = [st EXCEPT !.authing = authing, !.authOp = authOp, !.timer = "none"]
    OBVIOUS
  <1> PICK r : r = st'
    OBVIOUS
  <1>2. r = Quit(m) \/ r = Shutdown(Reply(m, 4))
    BY <1>1
  <1>3. m = [st EXCEPT !.authing = authing, !.authOp = authOp, !.timer = "none"]
    OBVIOUS
  <1>4. DOMAIN m = Fields /\ m.authing = authing
    BY ONLY <1>0, <1>3 DEF Fields
  <1>5. authing \in Nat /\ authing <= MaxOps
    BY <1>0, Constants DEF Types, LineOK
  <1>6. Types(m)
    BY ONLY <1>0, <1>3, <1>5, authOp \in BOOLEAN DEF Types, Fields
  <1>7. Same(st, m, {"authing", "authOp", "timer"})
    BY ONLY <1>0, <1>3 DEF Same, Fields
  <1>8. DataOK(m) /\ LineOK(m) /\ Onward(st, m)
    BY ONLY <1>0, <1>4, <1>5, <1>7 DEF DataOK, LineOK, Onward, Same, Fields
  <1>9. Sound(m)
    BY <1>4, <1>6, <1>8 DEF Sound, IsState
  <1>10. /\ m.cur = st.cur /\ m.xfer = st.xfer /\ m.open = st.open
         /\ m.overtaken = st.overtaken
    BY <1>7 DEF Same, Fields
  <1>11. CASE r = Quit(m)
    <2>1. Going(st) => OpenOK(m)
      BY ONLY Good(st), <1>4, <1>7, authing \in {st.authing, 0}
      DEF Good, OpenOK, WorkOK, Same, Fields
    <2>2. Good(r) /\ r.ended /\ Same(m, r, {"ended"}) /\ Onward(m, r)
      BY <1>9, <1>10, <1>11, <2>1, QuitTaken DEF Going
    <2>3. r.cur = st.cur /\ r.xfer = st.xfer
      BY <1>10, <2>2 DEF Same, Fields
    <2> QED
      BY <1>8, <2>2, <2>3, OnwardTwice DEF Turn
  <1>12. CASE r = Shutdown(Reply(m, 4))
    <2> PICK t : t = Reply(m, 4)
      OBVIOUS
    <2>1. ReplyOf(m, t, 4)
      BY <1>9, ReplyFacts DEF Sound
    <2>2. Sound(t) /\ Onward(m, t)
      BY ONLY <1>9, <2>1, ReplyKeeps
    <2>3. Good(r) /\ r.open # "open" /\ Onward(t, r)
      BY <1>12, <2>2, ShutdownGood
    <2>4. Onward(st, r)
      BY ONLY <1>8, <2>2, <2>3, OnwardTwice
    <2> QED
      BY <2>3, <2>4 DEF Turn, Going
  <1> QED
    BY <1>2, <1>11, <1>12

LEMMA SetTimeoutsTurn ==
    ASSUME Good(st), SetTimeouts
    PROVE  Good(st') /\ Turn(st, st')
  <1>0. DataOK(st) /\ LineOK(st) /\ DOMAIN st = Fields /\ Types(st)
    BY DEF Good, Sound, IsState
  <1> PICK timer \in {"activity", "login"} : timer = IF st.authed THEN "activity" ELSE "login"
    OBVIOUS
  <1> PICK m : m = [st EXCEPT !.timer = timer]
    OBVIOUS
  <1>1. DOMAIN m = Fields /\ m.timer = timer
    BY <1>0 DEF Fields
  <1>2. Types(m)
    BY <1>0 DEF Types, Fields
  <1>3. Same(st, m, {"timer"})
    BY <1>0 DEF Same, Fields
  <1>4. DataOK(m) /\ LineOK(m) /\ Onward(st, m) /\ m.cur = st.cur /\ m.xfer = st.xfer
        /\ m.open = st.open /\ m.overtaken = st.overtaken
    BY ONLY <1>0, <1>3 DEF DataOK, LineOK, Onward, Same, Fields
  <1>5. TimerOK(m)
    BY <1>0, <1>1, <1>3 DEF TimerOK, Same, Fields, Types
  <1>6. Going(st) => OpenOK(m)
    BY ONLY Good(st), <1>3 DEF Good, OpenOK, WorkOK, Same, Fields
  <1>7. Good(m) /\ Turn(st, m)
    BY ONLY <1>1, <1>2, <1>4, <1>5, <1>6 DEF Good, Sound, IsState, Timed, Going, Turn
  <1>8. st' = m
    BY DEF SetTimeouts
  <1> QED
    BY ONLY <1>7, <1>8

LEMMA ControlSecuredTurn ==
    ASSUME Good(st), ControlSecured
    PROVE  Good(st') /\ Turn(st, st')
  <1>0. DataOK(st) /\ LineOK(st) /\ DOMAIN st = Fields /\ Types(st) /\ st.tls = "securing"
    BY DEF Good, Sound, IsState, ControlSecured
  <1> PICK m : m = [st EXCEPT !.tls = "secured"]
    OBVIOUS
  <1>1. DOMAIN m = Fields /\ m.tls = "secured"
    BY <1>0 DEF Fields
  <1>2. Types(m)
    BY <1>0 DEF Types, Fields
  <1>3. Same(st, m, {"tls"})
    BY <1>0 DEF Same, Fields
  <1>4. ~st.overtaken => ~st.chan
    BY <1>0 DEF DataOK
  <1>5. DataOK(m)
    BY ONLY <1>0, <1>1, <1>3, <1>4 DEF DataOK, Same, Fields
  <1>6. LineOK(m) /\ Onward(st, m) /\ m.cur = st.cur /\ m.xfer = st.xfer
        /\ m.open = st.open /\ m.overtaken = st.overtaken
    BY ONLY <1>0, <1>3 DEF LineOK, Onward, Same, Fields
  <1>7. Timed(m) /\ (Going(st) => OpenOK(m))
    BY ONLY Good(st), <1>3 DEF Good, OpenOK, WorkOK, Timed, TimerOK, Same, Fields
  <1>8. Good(m) /\ Turn(st, m)
    BY ONLY <1>1, <1>2, <1>5, <1>6, <1>7 DEF Good, Sound, IsState, Going, Turn
  <1>9. st' = m
    BY DEF ControlSecured
  <1> QED
    BY ONLY <1>8, <1>9

LEMMA ControlDoneTurn ==
    ASSUME Good(st), ControlDone
    PROVE  Good(st') /\ Turn(st, st')
  <1> PICK s : s = Shutdown(st)
    OBVIOUS
  <1>1. Good(s) /\ s.open # "open" /\ Onward(st, s)
    BY ShutdownGood DEF Good
  <1> PICK q : q = Quit(s)
    OBVIOUS
  <1>2. q.ended /\ Same(s, q, {"ended"}) /\ Onward(s, q) /\ Good(q)
    BY <1>1, QuitTaken DEF Good
  <1>3. q.open # "open" /\ DataOK(q) /\ LineOK(q) /\ DOMAIN q = Fields /\ Types(q)
    BY <1>1, <1>2 DEF Same, Fields, Good, Sound, IsState
  <1> PICK m : m = [q EXCEPT !.open = "done"]
    OBVIOUS
  <1>4. DOMAIN m = Fields /\ m.open = "done"
    BY ONLY <1>3, m = [q EXCEPT !.open = "done"] DEF Fields
  <1>5. Types(m)
    BY ONLY <1>3, m = [q EXCEPT !.open = "done"] DEF Types, Fields
  <1>6. Same(q, m, {"open"})
    BY ONLY <1>3, m = [q EXCEPT !.open = "done"] DEF Same, Fields
  <1>7. DataOK(m) /\ LineOK(m) /\ Onward(q, m)
    BY ONLY <1>3, <1>4, <1>6 DEF DataOK, LineOK, Onward, Same, Fields
  <1>8. Onward(st, m)
    BY ONLY <1>1, <1>2, <1>7, OnwardTwice
  <1>9. Good(m) /\ Turn(st, m)
    BY ONLY <1>4, <1>5, <1>7, <1>8 DEF Good, Sound, IsState, Timed, Going, Turn
  <1>10. st' = m
    BY DEF ControlDone
  <1> QED
    BY ONLY <1>9, <1>10

LEMMA UserRemovedTurn ==
    ASSUME Good(st), UserRemoved
    PROVE  Good(st') /\ Turn(st, st')
  <1> PICK q : q = Quit(st)
    OBVIOUS
  <1>1. Good(q) /\ Same(st, q, {"ended"}) /\ Onward(st, q)
    BY QuitTaken DEF Good
  <1>2. q.cur = st.cur /\ q.xfer = st.xfer
    BY <1>1 DEF Same, Fields
  <1>3. st' = q
    BY DEF UserRemoved
  <1> QED
    BY ONLY <1>1, <1>2, <1>3 DEF Turn

LEMMA DestroyTurn ==
    ASSUME Good(st), Destroy
    PROVE  Good(st') /\ Turn(st, st')
  BY FreshGood DEF Destroy, Turn

-----------------------------------------------------------------------------
(* The theorems.                                                            *)

LEMMA Step ==
    ASSUME Good(st), [Next]_st
    PROVE  Good(st') /\ Turn(st, st')
  <1>1. CASE ClientSends
    BY <1>1, ClientSendsTurn
  <1>2. CASE ProcessLine
    BY <1>2, ProcessLineTurn
  <1>3. CASE OpResult
    BY <1>3, OpResultTurn
  <1>4. CASE NestedDone
    BY <1>4, NestedDoneTurn
  <1>5. CASE AuthResult
    BY <1>5, AuthResultTurn
  <1>6. CASE LookupEvent
    BY <1>6, LookupTurn
  <1>7. CASE PeerConnects
    BY <1>7, PeerConnectsTurn
  <1>8. CASE ConnectDone \/ HandshakeDone
    BY <1>8, ConnectTurn
  <1>9. CASE DataSocketError
    BY <1>9, SocketErrorTurn
  <1>10. CASE ChannelDone
    BY <1>10, ChannelDoneTurn
  <1>11. CASE DoneEvent
    BY <1>11, DoneEventTurn
  <1>12. CASE ShutdownDone
    BY <1>12, ShutdownDoneTurn
  <1>13. CASE LoginTimer \/ ActivityTimer
    BY <1>13, TimeoutTurn
  <1>14. CASE SetTimeouts
    BY <1>14, SetTimeoutsTurn
  <1>15. CASE ControlDone
    BY <1>15, ControlDoneTurn
  <1>16. CASE ControlSecured
    BY <1>16, ControlSecuredTurn
  <1>17. CASE UserRemoved
    BY <1>17, UserRemovedTurn
  <1>18. CASE Destroy
    BY <1>18, DestroyTurn
  <1>19. CASE UNCHANGED st
    BY <1>19 DEF Turn, Onward
  <1> QED
    BY <1>1, <1>2, <1>3, <1>4, <1>5, <1>6, <1>7, <1>8, <1>9, <1>10, <1>11, <1>12, <1>13, <1>14,
       <1>15, <1>16, <1>17, <1>18, <1>19 DEF Next

LEMMA Invariance == Spec => []Good(st)
  <1>1. Init => Good(st)
    BY FreshGood DEF Init
  <1>2. Good(st) /\ [Next]_st => Good(st)'
    BY Step
  <1> QED
    BY <1>1, <1>2, PTL DEF Spec

\* The state of a session stays in its range, an event for the line consumer is
\* on its way only while a line is stalled, and the session never waits for its
\* client without a timer.
THEOREM SessionTyped == Spec => []TypeOK
  <1>1. Good(st) => TypeOK
    <2> SUFFICES ASSUME Good(st) PROVE TypeOK
      OBVIOUS
    <2>1. Types(st) /\ LineOK(st)
      BY DEF Good, Sound, IsState
    <2>2. st.inbox \in Seq(AllCmds)
      BY <2>1 DEF Types
    <2>3. SomeTimerRuns
      BY DEF Good, Timed, TimerOK, SomeTimerRuns, Live
    <2>4. st.authing \in 0..MaxOps
      BY <2>1, Constants DEF Types, LineOK
    <2> QED
      BY <2>1, <2>2, <2>3, <2>4 DEF Types, LineOK, TypeOK
  <1> QED
    BY <1>1, Invariance, PTL

\* Until a command is overtaken (by ABOR, or by a line that begins with a space)
\* nothing is owed between two commands and exactly one final reply during one.
THEOREM OneAnswer == Spec => []OneAnswerEach
  <1>1. Good(st) => OneAnswerEach
    BY DEF Good, OpenOK, OneAnswerEach, Promised, Live, Going
  <1> QED
    BY <1>1, Invariance, PTL

\* Until a command is overtaken all the session does for its client it does for
\* the command in progress; and whatever the client does, nothing that came in
\* clear is left for the time after the handshake.
THEOREM WorkIsTheCommands == Spec => []WorkBelongsToCommand
  <1>1. Good(st) => ClearIsNotKept
    BY DEF Good, Sound, DataOK, ClearIsNotKept
  <1>2. Good(st) => WorkBelongsToCommand
    BY <1>1 DEF Good, OpenOK, WorkOK, WorkBelongsToCommand, Promised, Live, Going
  <1> QED
    BY <1>2, Invariance, PTL

\* Until a command is overtaken listening socket, data socket, channel, kept error
\* and protection agree whichever of them is replaced; and whatever the client
\* does, a socket that listens on a port of the range holds its lease.
THEOREM ConnectionAgrees == Spec => []DataConnectionAgrees
  <1>1. Good(st) => DataConnectionAgrees
    BY DEF Good, Sound, DataOK, DataConnectionAgrees, ChannelHasSocket, NoStaleError,
       LeaseOfListener, DataIsProtected
  <1> QED
    BY <1>1, Invariance, PTL

\* Until a command is overtaken the session implements FtpDialogue: one command at
\* a time, answered once, a transfer marked at most once before its answer.
THEOREM DialogueKept == Spec => KeepsDialogue
  <1>0. Promised = (Going(st) /\ ~st.ended) /\ Promised' = (Going(st') /\ ~st'.ended)
    BY DEF Promised, Live, Going
  <1>1. Init => Dialogue!Init
    BY FreshGood DEF Init, Dialogue!Init, Promised, Live, Fresh
  <1>2. Good(st) /\ Good(st') /\ Turn(st, st') => [Dialogue!Next]_(Dialogue!dialogue)
    <2> SUFFICES ASSUME Good(st), Good(st'), Turn(st, st')
                 PROVE  [Dialogue!Next]_(Dialogue!dialogue)
      OBVIOUS
    <2>1. st.cur \in AllCmds \cup {None} /\ st'.cur \in AllCmds \cup {None}
      BY DEF Good, Sound, IsState, Types
    <2>2. CASE Promised /\ ~Promised'
      BY <2>2 DEF Dialogue!Next, Dialogue!Close
    <2>3. CASE ~Promised /\ ~Promised'
      BY <2>3 DEF Dialogue!dialogue
    <2>4. CASE ~Promised /\ Promised'
      <3>1. st' = Fresh
        BY <1>0, <2>4 DEF Turn, Onward, Going
      <3> QED
        BY <2>4, <3>1, FreshGood DEF Dialogue!Next, Dialogue!Renew
    <2>5. CASE Promised /\ Promised'
      <3>1. CASE st'.cur = st.cur /\ st'.xfer = st.xfer
        BY <2>5, <3>1 DEF Dialogue!dialogue
      <3>2. CASE st.cur = None /\ st'.cur # None /\ st'.xfer = st.xfer
        BY <2>1, <2>5, <3>2 DEF Dialogue!Next, Dialogue!Receive
      <3>3. CASE st'.cur = st.cur /\ st.xfer = None /\ st'.xfer # None
        <4>1. st'.xfer \in Transfers /\ st'.cur = st'.xfer
          BY <1>0, <2>5, <3>3 DEF Good, Sound, IsState, Types, OpenOK, WorkOK
        <4> QED
          BY <2>5, <3>3, <4>1 DEF Dialogue!Next, Dialogue!Mark
      <3>4. CASE st.cur # None /\ st'.cur = None /\ st'.xfer = None
        BY <2>5, <3>4 DEF Dialogue!Next, Dialogue!Answer
      <3> QED
        BY <1>0, <2>5, <3>1, <3>2, <3>3, <3>4, FreshGood DEF Turn
    <2> QED
      BY <2>2, <2>3, <2>4, <2>5
  <1>3. Good(st) /\ [Next]_st => [Dialogue!Next]_(Dialogue!dialogue)
    BY <1>2, Step
  <1> QED
    BY <1>1, <1>3, Invariance, PTL DEF Spec, KeepsDialogue, Dialogue!Spec
=============================================================================
