------------------------- MODULE AuthorizatorProofs -------------------------
(* Proofs about Authorizator and the tokens it deals in.  That events,      *)
(* handlers and the map refer to objects that exist, and that none is left  *)
(* behind, holds in every mode.  That authorizations agree with their rows  *)
(* and stay out when revoked is proved for the data base in memory, and for *)
(* loops that authenticate one request at a time.                           *)
EXTENDS Authorizator, TLAPS, FiniteSetTheorems, FunctionTheorems, SequenceTheorems

-----------------------------------------------------------------------------
(* The structure: who refers to what.                                       *)

IsSeq(s) == s \in Seq(Range(s))

ReqFields == {"kind", "loop", "token", "user", "state", "su", "answered"}
ObjFields == {"token", "su", "timer"}

Kinds == {"login", "refresh", "share"}

\* A request that a worker will go on with is waiting for it; a handler that is
\* not done has its own.
Waiting(l, r) == r \in DOMAIN reqs /\ reqs[r].loop = l /\ reqs[r].kind \in Kinds

WorkersOK ==
    \A l \in Loops :
        /\ workers[l].cont # 0 => Waiting(l, workers[l].cont)
        /\ workers[l].t \in {0, workers[l].cont}

StepsOK ==
    /\ DOMAIN pc = Loops
    /\ \A l \in Loops :
        /\ pc[l].op \in {"rest", "store", "send", "erase"}
        /\ pc[l].op # "rest" =>
              /\ pc[l].r \in DOMAIN reqs
              /\ reqs[pc[l].r].loop = l /\ reqs[pc[l].r].kind # "closed"
              /\ pc[l].r # workers[l].cont
        /\ pc[l].op = "send" => pc[l].obj \in DOMAIN objs

ReqsOK ==
    /\ IsSeq(reqs)
    /\ \A r \in DOMAIN reqs :
        /\ DOMAIN reqs[r] = ReqFields
        /\ reqs[r].state # "spent" => reqs[r].loop \in Loops

ObjsOK ==
    /\ IsSeq(objs) /\ \A o \in DOMAIN objs : DOMAIN objs[o] = ObjFields
    /\ expired \in Seq(DOMAIN objs)

\* An object is in the map under its own id, hence only once.
MapOK ==
    /\ IsFiniteSet(DOMAIN auths)
    /\ \A id \in DOMAIN auths : auths[id] \in DOMAIN objs /\ objs[auths[id]].token.id = id
    /\ changed \subseteq Range(auths)
    /\ AuthorizationsEnd

Structure ==
    /\ ReqsOK /\ ObjsOK /\ MapOK
    /\ DOMAIN workers = Loops /\ WorkersOK /\ StepsOK
    /\ unsaid \subseteq gone

-----------------------------------------------------------------------------
(* What is known of tokens, if their ids are never used again.              *)

IdRange == 1..(db.next - 1)

DbOK ==
    /\ DOMAIN db = {"rows", "next", "key"} /\ db.next \in Nat \ {0}
    /\ Ids(db) \subseteq IdRange
    /\ \A id \in Ids(db) : /\ DOMAIN db.rows[id] = {"user", "n", "old"}
                           /\ db.rows[id].n \in Nat \ {0}

\* A token of which there is a row tells its user and no later number.
Known(t) ==
    /\ t.id \in IdRange /\ t.n \in Nat
    /\ t.id \in Ids(db) => t.user = db.rows[t.id].user /\ t.n <= db.rows[t.id].n

SharedIds == {t.id : t \in Tokens("share")}

\* The token of a shared link is the first one of its row, whoever exchanges it.
HandedOK ==
    /\ \A h \in handed : Known(h.token) /\ h.purpose \in {"session", "share"}
    /\ \A t \in Tokens("share") : t.n = 1

ObjectsOK ==
    \A o \in DOMAIN objs : Known(objs[o].token) /\ objs[o].su.user = objs[o].token.user

\* A request that is being authenticated is the only one of its loop.
RequestOK(r) ==
    LET q == reqs[r] IN
    /\ q.loop \in Loops
    /\ workers[q.loop].cont = r
    /\ q.kind \in Kinds
    /\ q.kind = "login"   => q.token = NoToken
    /\ q.kind = "refresh" => /\ q.token \in Tokens("session") \cup Tokens("share")
                             /\ q.user = q.token.user
    /\ q.kind = "share"   => q.token \in Tokens("share") /\ q.user = q.token.user
    /\ q.state = "result" => q.su = NoUser \/ q.su.user = q.user

RequestsOK == \A r \in DOMAIN reqs : reqs[r].state \in {"asked", "result"} => RequestOK(r)

\* A token that has just been made, or exchanged, is later than all that anybody
\* knows of its row.
Fresh(t) ==
    t.id \in Ids(db) =>
        /\ t.n = db.rows[t.id].n
        /\ \A o \in DOMAIN objs : objs[o].token.id = t.id => objs[o].token.n < t.n
        /\ \A s \in Tokens("session") : s.id = t.id => s.n < t.n

Storing(l) == pc[l].op = "store" /\ reqs[pc[l].r].kind # "share"

HandlerOK(l) ==
    /\ pc[l].op = "store" => Known(pc[l].token)
    /\ pc[l].op = "store" /\ ~Storing(l) => pc[l].token \in Tokens("share")
    /\ Storing(l) => /\ pc[l].token.id \in SharedIds => pc[l].token.n > 1
                     /\ pc[l].su.user = pc[l].token.user /\ Fresh(pc[l].token)

HandlersDiffer ==
    \A l, m \in Loops : Storing(l) /\ Storing(m) /\ l # m /\ pc[l].token.id \in Ids(db)
                           => pc[l].token.id # pc[m].token.id

HandlersOK == HandlersDiffer /\ \A l \in Loops : HandlerOK(l)

NumbersAgree ==
    \A id \in DOMAIN auths \cap Ids(db) :
        objs[auths[id]].token.n = db.rows[id].n \/ OfLink(auths[id])

\* The ids that are out, or will be with the next step of their handler.
Out == revoked \cup {pc[l].id : l \in {l \in Loops : pc[l].op = "erase" /\ pc[l].out}}

OutOK ==
    /\ Out \subseteq IdRange /\ Out \cap Ids(db) = {}
    /\ \A l \in Loops : pc[l].op = "store" => pc[l].token.id \notin Out
    /\ \A r \in DOMAIN reqs :
          reqs[r].state = "result" /\ reqs[r].su # NoUser => reqs[r].token.id \notin Out
    /\ revoked \cap DOMAIN auths = {}

Agreement ==
    DbOK /\ HandedOK /\ ObjectsOK /\ RequestsOK /\ HandlersOK /\ NumbersAgree /\ OutOK
-----------------------------------------------------------------------------
(* Sequences, whatever their elements are.                                  *)

LEMMA AppendFacts ==
    ASSUME NEW s, IsSeq(s), NEW x, NEW t, t = Append(s, x)
    PROVE  /\ IsSeq(t) /\ Len(s) \in Nat /\ Len(t) = Len(s) + 1
           /\ DOMAIN s = 1..Len(s) /\ DOMAIN t = 1..(Len(s) + 1)
           /\ t[Len(s) + 1] = x /\ \A i \in DOMAIN s : i \in DOMAIN t /\ t[i] = s[i]
  <1> DEFINE S == Range(s) \cup {x}
  <1>1. s \in Seq(S) /\ x \in S
    BY SeqMonotonic DEF IsSeq
  <1> HIDE DEF S
  <1>2. /\ t \in Seq(S) /\ Len(t) = Len(s) + 1 /\ t[Len(s) + 1] = x
        /\ \A i \in 1..Len(s) : t[i] = s[i]
    BY <1>1, AppendProperties
  <1>3. Len(s) \in Nat /\ DOMAIN s = 1..Len(s) /\ DOMAIN t = 1..Len(t) /\ t \in [1..Len(t) -> S]
    BY <1>1, <1>2, LenProperties
  <1>5. IsSeq(t)
    BY ONLY <1>2, SeqOfRange DEF IsSeq
  <1> QED
    BY <1>2, <1>3, <1>5

LEMMA ExceptFacts ==
    ASSUME NEW s, IsSeq(s), NEW i \in DOMAIN s, NEW x, NEW t, t = [s EXCEPT ![i] = x]
    PROVE  /\ IsSeq(t) /\ DOMAIN t = DOMAIN s /\ Len(t) = Len(s)
           /\ t[i] = x /\ \A j \in DOMAIN s \ {i} : t[j] = s[j]
  <1>1. Len(s) \in Nat /\ DOMAIN s = 1..Len(s) /\ s = [j \in DOMAIN s |-> s[j]]
    BY LenProperties DEF IsSeq
  <1>2. DOMAIN t = 1..Len(s) /\ t[i] = x /\ \A j \in DOMAIN s \ {i} : t[j] = s[j]
    BY <1>1
  <1>3. t \in [1..Len(s) -> Range(t)]
    BY <1>1, <1>2 DEF Range
  <1>4. t \in Seq(Range(t))
    BY ONLY <1>1, <1>3
  <1>5. Len(t) = Len(s)
    BY ONLY <1>1, <1>2, <1>4, LenProperties
  <1> QED
    BY <1>1, <1>2, <1>4, <1>5 DEF IsSeq

LEMMA SeqDomain ==
    ASSUME NEW s, IsSeq(s)
    PROVE  Len(s) \in Nat /\ DOMAIN s = 1..Len(s)
  BY LenProperties DEF IsSeq

\* The queue of expired events, which only the main loop takes from.
LEMMA QueueFacts ==
    ASSUME NEW S, NEW q \in Seq(S), NEW x \in S
    PROVE  /\ Append(q, x) \in Seq(S)
           /\ Range(Append(q, x)) = Range(q) \cup {x}
           /\ q # <<>> => /\ Tail(q) \in Seq(S) /\ Head(q) \in S
                          /\ Range(q) \subseteq Range(Tail(q)) \cup {Head(q)}
  <1>1. /\ Append(q, x) \in Seq(S) /\ Len(Append(q, x)) = Len(q) + 1
        /\ Append(q, x)[Len(q) + 1] = x /\ \A i \in 1..Len(q) : Append(q, x)[i] = q[i]
    BY AppendProperties
  <1>2. Len(q) \in Nat /\ DOMAIN q = 1..Len(q) /\ DOMAIN Append(q, x) = 1..(Len(q) + 1)
    BY <1>1, LenProperties
  <1>3. Range(Append(q, x)) = Range(q) \cup {x}
    <2>1. Range(Append(q, x)) \subseteq Range(q) \cup {x}
      BY <1>1, <1>2 DEF Range
    <2>2. Range(q) \subseteq Range(Append(q, x))
      BY <1>1, <1>2 DEF Range
    <2>3. x \in Range(Append(q, x))
      BY <1>1, <1>2 DEF Range
    <2> QED
      BY <2>1, <2>2, <2>3
  <1>4. ASSUME q # <<>>
        PROVE  /\ Tail(q) \in Seq(S) /\ Head(q) \in S
               /\ Range(q) \subseteq Range(Tail(q)) \cup {Head(q)}
    <2>1. /\ Head(q) = q[1] /\ q[1] \in S /\ Tail(q) \in Seq(S) /\ Len(q) > 0
          /\ Len(Tail(q)) = Len(q) - 1 /\ \A i \in 1..Len(Tail(q)) : Tail(q)[i] = q[i + 1]
      BY <1>2, <1>4, HeadTailProperties, EmptySeq, LenProperties
    <2>2. DOMAIN Tail(q) = 1..(Len(q) - 1)
      BY <2>1, LenProperties
    <2>3. ASSUME NEW i \in 1..Len(q)
          PROVE  q[i] \in Range(Tail(q)) \cup {Head(q)}
      <3>1. CASE i = 1
        BY <2>1, <3>1
      <3>2. CASE i # 1
        <4>1. i - 1 \in 1..(Len(q) - 1) /\ (i - 1) + 1 = i
          BY <1>2, <3>2
        <4>2. Tail(q)[i - 1] = q[i]
          BY <2>1, <4>1
        <4> QED
          BY <2>2, <4>1, <4>2 DEF Range
      <3> QED
        BY <3>1, <3>2
    <2> QED
      BY <1>2, <2>1, <2>3 DEF Range
  <1> QED
    BY <1>1, <1>3, <1>4
-----------------------------------------------------------------------------
(* The structure is kept.                                                   *)

LEMMA StructureInit == Init => Structure
  <1> SUFFICES ASSUME Init PROVE Structure
    OBVIOUS
  <1>1. /\ reqs = <<>> /\ objs = <<>> /\ auths = <<>> /\ expired = <<>> /\ changed = {}
        /\ unsaid = {} /\ pc = [l \in Loops |-> Resting]
        /\ workers = [l \in Loops |-> [t |-> 0, cont |-> 0]]
    BY DEF Init
  <1>2. DOMAIN <<>> = {} /\ \A S : <<>> \in Seq(S)
    BY EmptySeq
  <1>3. ReqsOK /\ ObjsOK
    BY <1>1, <1>2 DEF ReqsOK, ObjsOK, IsSeq
  <1>4. MapOK
    BY <1>1, <1>2, FS_EmptySet DEF MapOK, AuthorizationsEnd
  <1>5. DOMAIN workers = Loops /\ WorkersOK /\ StepsOK
    BY <1>1 DEF WorkersOK, StepsOK, Resting
  <1> QED
    BY <1>1, <1>3, <1>4, <1>5 DEF Structure

LEMMA HandlersStay ==
    ASSUME Structure, UNCHANGED <<reqs, workers, pc>>, DOMAIN objs \subseteq DOMAIN objs'
    PROVE  ReqsOK' /\ (DOMAIN workers = Loops)' /\ WorkersOK' /\ StepsOK'
  BY DEF Structure, ReqsOK, WorkersOK, StepsOK, Waiting

LEMMA ObjectsStay ==
    ASSUME Structure, UNCHANGED web
    PROVE  ObjsOK' /\ MapOK'
  BY DEF Structure, web, ObjsOK, MapOK, AuthorizationsEnd

LEMMA ExpireFacts ==
    ASSUME Structure, NEW o \in DOMAIN objs, Expire(o)
    PROVE  /\ ObjsOK' /\ DOMAIN objs' = DOMAIN objs
           /\ Range(expired') = Range(expired) \cup {o}
           /\ \A p \in DOMAIN objs : /\ objs'[p].token = objs[p].token /\ objs'[p].su = objs[p].su
                                     /\ p # o => objs'[p] = objs[p]
  <1> PICK x : x = [objs[o] EXCEPT !.timer = FALSE]
    OBVIOUS
  <1>1. ObjsOK
    BY DEF Structure
  <1>2. objs' = [objs EXCEPT ![o] = x] /\ expired' = Append(expired, o)
    BY DEF Expire
  <1>3. DOMAIN x = ObjFields /\ x.token = objs[o].token /\ x.su = objs[o].su
    BY <1>1 DEF ObjsOK, ObjFields
  <1>4. /\ IsSeq(objs') /\ DOMAIN objs' = DOMAIN objs /\ objs'[o] = x
        /\ \A j \in DOMAIN objs \ {o} : objs'[j] = objs[j]
    BY ONLY <1>1, <1>2, ExceptFacts, o \in DOMAIN objs DEF ObjsOK
  <1>5. expired' \in Seq(DOMAIN objs) /\ Range(expired') = Range(expired) \cup {o}
    BY ONLY <1>1, <1>2, QueueFacts, o \in DOMAIN objs DEF ObjsOK
  <1>6. ObjsOK'
    BY <1>1, <1>3, <1>4, <1>5 DEF ObjsOK
  <1> QED
    BY <1>3, <1>4, <1>5, <1>6

LEMMA MapStays ==
    ASSUME Structure, UNCHANGED <<auths, changed>>, DOMAIN objs \subseteq DOMAIN objs',
           \A o \in DOMAIN objs :
              /\ objs'[o].token.id = objs[o].token.id
              /\ objs[o].timer \/ o \in Range(expired) => objs'[o].timer \/ o \in Range(expired')
    PROVE  MapOK'
  BY DEF Structure, MapOK, AuthorizationsEnd

LEMMA MapErased ==
    ASSUME Structure, NEW id, Erase(id), UNCHANGED objs,
           \A o \in Range(expired) \ Range(expired') : o \notin Range(auths')
    PROVE  MapOK' /\ \A o \in DOMAIN objs : objs[o].token.id = id => o \notin Range(auths')
  <1>1. /\ auths' = [i \in DOMAIN auths \ {id} |-> auths[i]]
        /\ changed' = changed \ {o \in changed : id \in DOMAIN auths /\ auths[id] = o}
    BY DEF Erase, Restrict
  <1>2. /\ IsFiniteSet(DOMAIN auths) /\ changed \subseteq Range(auths) /\ AuthorizationsEnd
        /\ \A i \in DOMAIN auths : auths[i] \in DOMAIN objs /\ objs[auths[i]].token.id = i
    BY DEF Structure, MapOK
  <1>3. DOMAIN auths' = DOMAIN auths \ {id} /\ \A i \in DOMAIN auths' : auths'[i] = auths[i]
    BY <1>1
  <1>4. IsFiniteSet(DOMAIN auths')
    BY <1>2, <1>3, FS_Subset
  <1>5. changed' \subseteq Range(auths')
    BY <1>1, <1>2, <1>3 DEF Range
  <1>6. AuthorizationsEnd'
    <2> SUFFICES ASSUME NEW i \in DOMAIN auths'
                 PROVE  objs[auths[i]].timer \/ auths[i] \in Range(expired')
      BY <1>3 DEF AuthorizationsEnd
    <2>1. auths[i] \in Range(auths')
      BY <1>3 DEF Range
    <2>2. objs[auths[i]].timer \/ auths[i] \in Range(expired)
      BY <1>2, <1>3 DEF AuthorizationsEnd
    <2> QED
      BY <2>1, <2>2
  <1>7. \A o \in DOMAIN objs : objs[o].token.id = id => o \notin Range(auths')
    BY <1>2, <1>3 DEF Range
  <1> QED
    BY <1>2, <1>3, <1>4, <1>5, <1>6, <1>7 DEF MapOK
LEMMA MainLoopStep ==
    ASSUME Structure,
           \/ \E o \in DOMAIN objs : OnTimer(o) \/ OnUserChanged(o)
           \/ OnExpired
    PROVE  Structure'
  <1>1. ASSUME NEW o \in DOMAIN objs, OnTimer(o)
        PROVE  Structure'
    <2>1. Expire(o) /\ UNCHANGED <<auths, changed, reqs, workers, pc, unsaid, gone>>
      BY <1>1 DEF OnTimer, users
    <2>2. /\ ObjsOK' /\ DOMAIN objs' = DOMAIN objs /\ Range(expired') = Range(expired) \cup {o}
          /\ \A p \in DOMAIN objs : /\ objs'[p].token = objs[p].token
                                    /\ p # o => objs'[p] = objs[p]
      BY <2>1, ExpireFacts
    <2>3. MapOK'
      BY <2>1, <2>2, MapStays
    <2> QED
      BY <2>1, <2>2, <2>3, HandlersStay DEF Structure
  <1>2. ASSUME NEW o \in DOMAIN objs, OnUserChanged(o)
        PROVE  Structure'
    <2>1. /\ UNCHANGED <<objs, auths, reqs, workers, pc, unsaid, gone>>
          /\ changed' = changed \ {o} /\ expired' \in {expired, Append(expired, o)}
      BY <1>2 DEF OnUserChanged, users
    <2>0. expired \in Seq(DOMAIN objs)
      BY DEF Structure, ObjsOK
    <2>2. expired' \in Seq(DOMAIN objs) /\ Range(expired) \subseteq Range(expired')
      <3>1. /\ Append(expired, o) \in Seq(DOMAIN objs)
            /\ Range(Append(expired, o)) = Range(expired) \cup {o}
        BY ONLY <2>0, QueueFacts, o \in DOMAIN objs
      <3> QED
        BY ONLY <2>0, <2>1, <3>1
    <2>3. ObjsOK' /\ MapOK'
      BY <2>1, <2>2 DEF Structure, ObjsOK, MapOK, AuthorizationsEnd
    <2> QED
      BY <2>1, <2>3, HandlersStay DEF Structure
  <1>3. ASSUME OnExpired
        PROVE  Structure'
    <2>0. /\ expired # <<>> /\ expired' = Tail(expired)
          /\ \/ Erase(objs[Head(expired)].token.id)
             \/ ~Alive(Head(expired)) /\ UNCHANGED <<auths, changed>>
          /\ UNCHANGED <<objs, reqs, workers, pc, unsaid, gone>>
      BY <1>3 DEF OnExpired, users
    <2> PICK o : o = Head(expired)
      OBVIOUS
    <2>1. /\ UNCHANGED <<objs, reqs, workers, pc, unsaid, gone>>
          /\ expired # <<>> /\ expired' = Tail(expired)
          /\ Erase(objs[o].token.id) \/ (~Alive(o) /\ UNCHANGED <<auths, changed>>)
      BY <2>0 DEF Erase, Alive
    <2>2. /\ expired' \in Seq(DOMAIN objs) /\ o \in DOMAIN objs
          /\ Range(expired) \subseteq Range(expired') \cup {o}
      BY <2>1, QueueFacts, HeadTailProperties DEF Structure, ObjsOK
    <2>3. CASE Erase(objs[o].token.id)
      <3> PICK id : id = objs[o].token.id
        OBVIOUS
      <3>0. Erase(id) /\ objs[o].token.id = id
        BY <2>3
      <3>1. auths' = [i \in DOMAIN auths \ {id} |-> auths[i]]
        BY <3>0 DEF Erase, Restrict
      <3>2. o \notin Range(auths')
        BY <3>0, <3>1 DEF Structure, MapOK, Range
      <3>3. MapOK'
        BY <2>1, <2>2, <3>0, <3>2, MapErased
      <3> QED
        BY <2>1, <2>2, <3>3, HandlersStay DEF Structure, ObjsOK
    <2>4. CASE ~Alive(o) /\ UNCHANGED <<auths, changed>>
      <3>1. MapOK'
        BY <2>1, <2>2, <2>4 DEF Structure, MapOK, AuthorizationsEnd, Alive
      <3> QED
        BY <2>1, <2>2, <3>1, HandlersStay DEF Structure, ObjsOK
    <2> QED
      BY <2>1, <2>3, <2>4
  <1> QED
    BY <1>1, <1>2, <1>3

LEMMA AdministratorStep ==
    ASSUME Structure,
           \/ \E u \in Users : Dispose(u)
           \/ \E su \in unsaid : Notify(su)
           \/ ResetAll \/ \E id \in Ids(db) : Age(id)
    PROVE  Structure'
  <1>1. ASSUME NEW u \in Users, Dispose(u)
        PROVE  Structure'
    <2>1. UNCHANGED <<reqs, workers, pc>> /\ UNCHANGED web /\ (unsaid \subseteq gone)'
      BY <1>1 DEF Dispose, Structure
    <2> QED
      BY <2>1, HandlersStay, ObjectsStay DEF Structure, web
  <1>2. ASSUME NEW su \in unsaid, Notify(su)
        PROVE  Structure'
    <2>1. /\ UNCHANGED <<objs, auths, expired, reqs, workers, pc>> /\ (unsaid \subseteq gone)'
          /\ changed' \subseteq changed \cup {o \in DOMAIN objs : Alive(o)}
      BY <1>2 DEF Notify, Structure
    <2>2. changed' \subseteq Range(auths)
      BY <2>1 DEF Structure, MapOK, Alive, Range
    <2>3. ObjsOK' /\ MapOK'
      BY <2>1, <2>2 DEF Structure, ObjsOK, MapOK, AuthorizationsEnd
    <2> QED
      BY <2>1, <2>3, HandlersStay DEF Structure
  <1>3. ASSUME ResetAll
        PROVE  Structure'
    <2>1. /\ UNCHANGED <<objs, expired, reqs, workers, pc, unsaid, gone>>
          /\ auths' = <<>> /\ changed' = {}
      BY <1>3 DEF ResetAll, users
    <2>2. DOMAIN auths' = {}
      BY <2>1
    <2>3. ObjsOK' /\ MapOK'
      BY <2>1, <2>2, FS_EmptySet DEF Structure, ObjsOK, MapOK, AuthorizationsEnd
    <2> QED
      BY <2>1, <2>3, HandlersStay DEF Structure
  <1>4. ASSUME NEW id \in Ids(db), Age(id)
        PROVE  Structure'
    <2>1. UNCHANGED <<reqs, workers, pc>> /\ UNCHANGED web /\ UNCHANGED <<unsaid, gone>>
      BY <1>4 DEF Age, users
    <2> QED
      BY <2>1, HandlersStay, ObjectsStay DEF Structure, web
  <1> QED
    BY <1>1, <1>2, <1>3, <1>4

LEMMA NewRequest ==
    ASSUME Structure, NEW q, DOMAIN q = ReqFields, q.state # "spent" => q.loop \in Loops,
           reqs' = Append(reqs, q)
    PROVE  /\ ReqsOK' /\ Len(reqs) + 1 \notin DOMAIN reqs /\ Len(reqs) + 1 # 0
           /\ DOMAIN reqs' = DOMAIN reqs \cup {Len(reqs) + 1}
           /\ reqs'[Len(reqs) + 1] = q /\ \A r \in DOMAIN reqs : reqs'[r] = reqs[r]
  <1>1. ReqsOK
    BY DEF Structure
  <1>2. /\ IsSeq(reqs') /\ Len(reqs) \in Nat /\ Len(reqs') = Len(reqs) + 1
        /\ DOMAIN reqs = 1..Len(reqs) /\ DOMAIN reqs' = 1..(Len(reqs) + 1)
        /\ reqs'[Len(reqs) + 1] = q /\ \A r \in DOMAIN reqs : reqs'[r] = reqs[r]
    <2> PICK t : t = reqs'
      OBVIOUS
    <2>1. t = Append(reqs, q)
      OBVIOUS
    <2>2. /\ IsSeq(t) /\ Len(reqs) \in Nat /\ Len(t) = Len(reqs) + 1
          /\ DOMAIN reqs = 1..Len(reqs) /\ DOMAIN t = 1..(Len(reqs) + 1)
          /\ t[Len(reqs) + 1] = q /\ \A r \in DOMAIN reqs : t[r] = reqs[r]
      <3>1. IsSeq(t)
        BY ONLY <1>1, <2>1, AppendFacts DEF ReqsOK
      <3>2. /\ Len(reqs) \in Nat /\ Len(t) = Len(reqs) + 1
            /\ DOMAIN reqs = 1..Len(reqs) /\ DOMAIN t = 1..(Len(reqs) + 1)
        BY ONLY <1>1, <2>1, AppendFacts DEF ReqsOK
      <3>3. t[Len(reqs) + 1] = q /\ \A r \in DOMAIN reqs : t[r] = reqs[r]
        BY ONLY <1>1, <2>1, AppendFacts DEF ReqsOK
      <3> QED
        BY ONLY <3>1, <3>2, <3>3
    <2> QED
      BY ONLY <2>2, t = reqs'
  <1>3. DOMAIN reqs' = DOMAIN reqs \cup {Len(reqs) + 1} /\ Len(reqs) + 1 \notin DOMAIN reqs
    BY ONLY <1>2
  <1>4. ReqsOK'
    BY ONLY <1>1, <1>2, <1>3, DOMAIN q = ReqFields, q.state # "spent" => q.loop \in Loops
    DEF ReqsOK
  <1> QED
    BY ONLY <1>2, <1>3, <1>4

LEMMA RequestFields ==
    ASSUME NEW kind, NEW l, NEW token, NEW user
    PROVE  /\ DOMAIN Request(kind, l, token, user) = ReqFields
           /\ DOMAIN Closed = ReqFields /\ Closed.kind = "closed" /\ Closed.state = "spent"
  BY DEF Request, Closed, ReqFields

LEMMA AskStep ==
    ASSUME Structure, NEW kind \in Kinds, NEW l \in Loops, NEW token, NEW user,
           Ask(kind, l, token, user)
    PROVE  Structure'
  <1> PICK q : q = Request(kind, l, token, user)
    OBVIOUS
  <1> PICK n : n = Len(reqs) + 1
    OBVIOUS
  <1>1. /\ reqs' = Append(reqs, q) /\ UNCHANGED pc /\ UNCHANGED web /\ UNCHANGED <<unsaid, gone>>
        /\ workers' = [workers EXCEPT ![l] = [t |-> IF kind = "share" THEN 0 ELSE n, cont |-> n]]
    BY DEF Ask, users
  <1>2. DOMAIN q = ReqFields /\ q.loop = l /\ q.kind = kind
    BY RequestFields DEF Request
  <1>3. /\ ReqsOK' /\ n \notin DOMAIN reqs /\ n # 0 /\ DOMAIN reqs' = DOMAIN reqs \cup {n}
        /\ reqs'[n] = q /\ \A r \in DOMAIN reqs : reqs'[r] = reqs[r]
    BY <1>1, <1>2, NewRequest
  <1>4. /\ DOMAIN workers' = Loops /\ workers'[l].cont = n /\ workers'[l].t \in {0, n}
        /\ \A m \in Loops \ {l} : workers'[m] = workers[m]
    BY <1>1 DEF Structure
  <1>5. WorkersOK'
    BY <1>2, <1>3, <1>4 DEF Structure, WorkersOK, Waiting
  <1>6. StepsOK'
    <2>1. \A m \in Loops : pc[m].op # "rest" => pc[m].r \in DOMAIN reqs
      BY DEF Structure, StepsOK
    <2> QED
      BY <1>1, <1>3, <1>4, <2>1 DEF Structure, StepsOK, web
  <1> QED
    BY <1>1, <1>3, <1>4, <1>5, <1>6, ObjectsStay DEF Structure

LEMMA RequestsStep ==
    ASSUME Structure, NEW l \in Loops, Requests(l)
    PROVE  Structure'
  <1>1. CASE Login(l) \/ DoRefresh(l) \/ Share(l)
    BY <1>1, AskStep DEF Login, DoRefresh, Share, Kinds
  <1>2. CASE CreateShare(l)
    <2>1. /\ reqs' = Append(reqs, Closed) /\ UNCHANGED <<workers, pc>> /\ UNCHANGED web
          /\ UNCHANGED <<unsaid, gone>>
      BY <1>2 DEF CreateShare, users
    <2>2. /\ ReqsOK' /\ DOMAIN reqs \subseteq DOMAIN reqs'
          /\ \A r \in DOMAIN reqs : reqs'[r] = reqs[r]
      BY <2>1, NewRequest, RequestFields
    <2>3. WorkersOK' /\ StepsOK'
      BY <2>1, <2>2 DEF Structure, WorkersOK, StepsOK, Waiting, web
    <2> QED
      BY <2>1, <2>2, <2>3, ObjectsStay DEF Structure
  <1>3. CASE Revoke(l)
    <2> PICK n : n = Len(reqs) + 1
      OBVIOUS
    <2>1. PICK h \in handed, access \in BOOLEAN :
                 /\ reqs' = Append(reqs, [Request("revoke", l, h.token, h.token.user)
                                             EXCEPT !.state = "spent"])
                 /\ pc' = [pc EXCEPT ![l] = [op |-> "erase", id |-> h.token.id, r |-> n,
                                       out |-> ~access /\ h.token.id \in Ids(db)
                                                 /\ ~InUse(h.token.id)]]
                 /\ UNCHANGED workers /\ UNCHANGED web /\ UNCHANGED <<unsaid, gone>>
      BY <1>3 DEF Revoke, users
    <2> PICK q : q = [Request("revoke", l, h.token, h.token.user) EXCEPT !.state = "spent"]
      OBVIOUS
    <2>2. DOMAIN q = ReqFields /\ q.loop = l /\ q.kind = "revoke" /\ q.state = "spent"
      BY RequestFields DEF Request
    <2>3. /\ ReqsOK' /\ n \notin DOMAIN reqs /\ n # 0 /\ DOMAIN reqs' = DOMAIN reqs \cup {n}
          /\ reqs'[n] = q /\ \A r \in DOMAIN reqs : reqs'[r] = reqs[r]
      BY <2>1, <2>2, NewRequest
    <2>4. WorkersOK'
      BY <2>1, <2>3 DEF Structure, WorkersOK, Waiting
    <2>5. StepsOK'
      <3>1. workers[l].cont # n
        BY <2>3 DEF Structure, WorkersOK, Waiting
      <3>2. /\ DOMAIN pc' = Loops /\ pc'[l].op = "erase" /\ pc'[l].r = n
            /\ \A m \in Loops \ {l} : pc'[m] = pc[m]
        BY <2>1 DEF Structure, StepsOK
      <3> QED
        BY <2>1, <2>2, <2>3, <3>1, <3>2 DEF Structure, StepsOK, web
    <2> QED
      BY <2>1, <2>3, <2>4, <2>5, ObjectsStay DEF Structure
  <1> QED
    BY <1>1, <1>2, <1>3 DEF Requests
\* Something else becomes of a request that is not waited for.
LEMMA ChangedRequest ==
    ASSUME Structure, NEW r \in DOMAIN reqs, NEW q, DOMAIN q = ReqFields,
           q.state # "spent" => q.loop \in Loops, reqs' = [reqs EXCEPT ![r] = q]
    PROVE  /\ ReqsOK' /\ DOMAIN reqs' = DOMAIN reqs /\ reqs'[r] = q
           /\ \A s \in DOMAIN reqs \ {r} : reqs'[s] = reqs[s]
  <1>1. IsSeq(reqs) /\ r \in DOMAIN reqs
    BY DEF Structure, ReqsOK
  <1>2. /\ IsSeq(reqs') /\ DOMAIN reqs' = DOMAIN reqs /\ reqs'[r] = q
        /\ \A s \in DOMAIN reqs \ {r} : reqs'[s] = reqs[s]
    BY ONLY <1>1, ExceptFacts, reqs' = [reqs EXCEPT ![r] = q]
  <1>3. ReqsOK'
    BY <1>2 DEF Structure, ReqsOK
  <1> QED
    BY <1>2, <1>3

LEMMA AuthDoneStep ==
    ASSUME Structure, NEW r \in DOMAIN reqs, AuthDone(r)
    PROVE  Structure'
  <1>1. /\ UNCHANGED <<workers, pc>> /\ UNCHANGED web /\ UNCHANGED <<unsaid, gone>>
        /\ reqs[r].state = "asked"
        /\ \E su : reqs' = [reqs EXCEPT ![r].state = "result", ![r].su = su]
    BY DEF AuthDone, users
  <1> PICK su : reqs' = [reqs EXCEPT ![r].state = "result", ![r].su = su]
    BY <1>1
  <1> PICK q : q = [reqs[r] EXCEPT !.state = "result", !.su = su]
    OBVIOUS
  <1>2. /\ DOMAIN q = ReqFields /\ q.kind = reqs[r].kind /\ q.loop = reqs[r].loop
        /\ reqs[r].loop \in Loops
    <2>1. DOMAIN reqs[r] = ReqFields /\ reqs[r].loop \in Loops
      BY <1>1 DEF Structure, ReqsOK
    <2> QED
      BY ONLY <2>1, q = [reqs[r] EXCEPT !.state = "result", !.su = su] DEF ReqFields
  <1>3. reqs' = [reqs EXCEPT ![r] = q]
    OBVIOUS
  <1>4. /\ ReqsOK' /\ DOMAIN reqs' = DOMAIN reqs /\ reqs'[r] = q
        /\ \A s \in DOMAIN reqs \ {r} : reqs'[s] = reqs[s]
    BY <1>2, <1>3, ChangedRequest
  <1>5. \A s \in DOMAIN reqs : reqs'[s].kind = reqs[s].kind /\ reqs'[s].loop = reqs[s].loop
    BY <1>2, <1>4
  <1>6. WorkersOK' /\ StepsOK'
    BY ONLY <1>1, <1>4, <1>5, Structure DEF Structure, WorkersOK, StepsOK, Waiting, web
  <1> QED
    BY <1>1, <1>4, <1>6, ObjectsStay DEF Structure

\* The handler of a loop answers its request, and is done.
LEMMA HandlerDone ==
    ASSUME Structure, NEW l \in Loops, pc[l].op # "rest", Answer(pc[l].r), GoOn(l, Resting),
           UNCHANGED workers, DOMAIN objs \subseteq DOMAIN objs'
    PROVE  ReqsOK' /\ (DOMAIN workers = Loops)' /\ WorkersOK' /\ StepsOK'
  <1> PICK r : r = pc[l].r
    OBVIOUS
  <1>1. /\ r \in DOMAIN reqs /\ reqs[r].loop = l /\ reqs[r].kind # "closed"
        /\ r # workers[l].cont
    BY DEF Structure, StepsOK
  <1>2. reqs' = [reqs EXCEPT ![r] = Closed] /\ DOMAIN Closed = ReqFields /\ Closed.state = "spent"
    BY RequestFields DEF Answer
  <1>3. /\ ReqsOK' /\ DOMAIN reqs' = DOMAIN reqs
        /\ \A s \in DOMAIN reqs \ {r} : reqs'[s] = reqs[s]
    BY <1>1, <1>2, ChangedRequest
  <1>4. WorkersOK'
    BY ONLY <1>1, <1>3, Structure, UNCHANGED workers, l \in Loops
    DEF Structure, WorkersOK, Waiting
  <1>5. /\ DOMAIN pc' = Loops /\ pc'[l].op = "rest"
        /\ \A m \in Loops \ {l} : pc'[m] = pc[m]
    BY DEF Structure, StepsOK, GoOn, Resting
  <1>6. StepsOK'
    BY ONLY <1>1, <1>3, <1>5, Structure, UNCHANGED workers, l \in Loops,
       DOMAIN objs \subseteq DOMAIN objs'
    DEF Structure, StepsOK
  <1> QED
    BY <1>3, <1>4, <1>6 DEF Structure

\* A loop goes on with a step of its own.
LEMMA HandlerGoesOn ==
    ASSUME Structure, NEW l \in Loops, NEW step, GoOn(l, step),
           step.op \in {"store", "send"}, step.r \in DOMAIN reqs,
           reqs'[step.r].loop = l, reqs'[step.r].kind # "closed",
           step.r # workers'[l].cont, step.op = "send" => step.obj \in DOMAIN objs',
           DOMAIN reqs' = DOMAIN reqs, DOMAIN objs \subseteq DOMAIN objs',
           \A r \in DOMAIN reqs : reqs'[r].kind = reqs[r].kind /\ reqs'[r].loop = reqs[r].loop,
           \A m \in Loops \ {l} : workers'[m] = workers[m]
    PROVE  StepsOK'
  <1>1. /\ DOMAIN pc' = Loops /\ pc'[l] = step
        /\ \A m \in Loops \ {l} : pc'[m] = pc[m]
    BY DEF Structure, StepsOK, GoOn
  <1> QED
    BY <1>1 DEF Structure, StepsOK

LEMMA HandlerStep ==
    ASSUME Structure, NEW l \in Loops, Handler(l)
    PROVE  Structure'
  <1>1. CASE Send(l)
    <2>1. /\ UNCHANGED workers /\ UNCHANGED web /\ UNCHANGED <<unsaid, gone>>
          /\ pc[l].op = "send" /\ GoOn(l, Resting)
          /\ Answer(pc[l].r) \/ UNCHANGED reqs
      BY <1>1 DEF Send, users
    <2>2. CASE Answer(pc[l].r)
      BY <2>1, <2>2, HandlerDone, ObjectsStay DEF Structure, web
    <2>3. CASE UNCHANGED reqs
      <3>1. /\ DOMAIN pc' = Loops /\ pc'[l].op = "rest"
            /\ \A m \in Loops \ {l} : pc'[m] = pc[m]
        BY <2>1 DEF Structure, StepsOK, GoOn, Resting
      <3>2. StepsOK' /\ WorkersOK' /\ ReqsOK'
        BY <2>1, <2>3, <3>1 DEF Structure, StepsOK, WorkersOK, ReqsOK, Waiting, web
      <3> QED
        BY <2>1, <3>2, ObjectsStay DEF Structure
    <2> QED
      BY <2>1, <2>2, <2>3
  <1>2. CASE EraseRevoked(l)
    <2>1. /\ Erase(pc[l].id) /\ UNCHANGED <<objs, expired, workers, unsaid, gone>>
          /\ pc[l].op = "erase" /\ GoOn(l, Resting) /\ Answer(pc[l].r)
      BY <1>2 DEF EraseRevoked, users
    <2> PICK id : id = pc[l].id
      OBVIOUS
    <2>2. Erase(id)
      BY <2>1 DEF Erase
    <2>3. MapOK'
      BY <2>1, <2>2, MapErased
    <2>4. ObjsOK'
      BY <2>1 DEF Structure, ObjsOK
    <2> QED
      BY <2>1, <2>3, <2>4, HandlerDone DEF Structure
  <1>3. CASE Store(l)
    <2> PICK s : s = pc[l]
      OBVIOUS
    <2>1. /\ UNCHANGED <<expired, changed, workers, unsaid, gone>> /\ s.op = "store"
          /\ \/ Answer(s.r) /\ GoOn(l, Resting) /\ UNCHANGED <<auths, objs>>
             \/ /\ s.token.id \notin DOMAIN auths
                /\ objs' = Append(objs, [token |-> s.token, su |-> s.su, timer |-> TRUE])
                /\ auths' = [i \in DOMAIN auths \cup {s.token.id} |->
                                IF i = s.token.id THEN Len(objs) + 1 ELSE auths[i]]
                /\ \/ Answer(s.r) /\ GoOn(l, Resting)
                   \/ GoOn(l, [op |-> "send", r |-> s.r, obj |-> Len(objs) + 1]) /\ UNCHANGED reqs
      BY <1>3 DEF Store, users
    <2>2. CASE Answer(s.r) /\ GoOn(l, Resting) /\ UNCHANGED <<auths, objs>>
      <3>1. Answer(pc[l].r)
        BY <2>2 DEF Answer
      <3>2. ReqsOK' /\ (DOMAIN workers = Loops)' /\ WorkersOK' /\ StepsOK'
        BY <2>1, <2>2, <3>1, HandlerDone
      <3>3. UNCHANGED web
        BY <2>1, <2>2 DEF web
      <3> QED
        BY <2>1, <3>2, <3>3, ObjectsStay DEF Structure
    <2>3. ASSUME s.token.id \notin DOMAIN auths,
                 objs' = Append(objs, [token |-> s.token, su |-> s.su, timer |-> TRUE]),
                 auths' = [i \in DOMAIN auths \cup {s.token.id} |->
                                IF i = s.token.id THEN Len(objs) + 1 ELSE auths[i]],
                 \/ Answer(s.r) /\ GoOn(l, Resting)
                 \/ GoOn(l, [op |-> "send", r |-> s.r, obj |-> Len(objs) + 1]) /\ UNCHANGED reqs
          PROVE  Structure'
      <3> PICK x : x = [token |-> s.token, su |-> s.su, timer |-> TRUE]
        OBVIOUS
      <3> PICK n : n = Len(objs) + 1
        OBVIOUS
      <3>1. IsSeq(objs) /\ objs' = Append(objs, x)
        BY <2>3 DEF Structure, ObjsOK
      <3>2. DOMAIN x = ObjFields /\ x.token = s.token /\ x.timer
        BY DEF ObjFields
      <3>3. IsSeq(objs')
        BY ONLY <3>1, AppendFacts
      <3>4. Len(objs) \in Nat /\ DOMAIN objs = 1..Len(objs) /\ DOMAIN objs' = 1..(Len(objs) + 1)
        BY ONLY <3>1, AppendFacts
      <3>5. objs'[n] = x /\ \A o \in DOMAIN objs : objs'[o] = objs[o]
        BY ONLY <3>1, AppendFacts, n = Len(objs) + 1
      <3>6. DOMAIN objs' = DOMAIN objs \cup {n} /\ n \notin DOMAIN objs
        BY ONLY <3>4, n = Len(objs) + 1
      <3>7. ObjsOK'
        <4>1. expired \in Seq(DOMAIN objs') /\ expired' = expired
          BY <2>1, <3>6, SeqMonotonic DEF Structure, ObjsOK
        <4> QED
          BY <3>2, <3>3, <3>5, <3>6, <4>1 DEF Structure, ObjsOK
      <3>8. MapOK'
        <4>1. /\ DOMAIN auths' = DOMAIN auths \cup {s.token.id} /\ auths'[s.token.id] = n
              /\ \A id \in DOMAIN auths : auths'[id] = auths[id]
          BY <2>3
        <4>2. IsFiniteSet(DOMAIN auths')
          BY <4>1, FS_AddElement DEF Structure, MapOK
        <4>3. changed' \subseteq Range(auths')
          BY <2>1, <4>1 DEF Structure, MapOK, Range
        <4> QED
          BY <2>1, <3>2, <3>5, <3>6, <4>1, <4>2, <4>3 DEF Structure, MapOK, AuthorizationsEnd
      <3>9. ReqsOK' /\ (DOMAIN workers = Loops)' /\ WorkersOK' /\ StepsOK'
        <4>1. CASE Answer(s.r) /\ GoOn(l, Resting)
          <5>1. Answer(pc[l].r)
            BY <4>1 DEF Answer
          <5> QED
            BY <2>1, <3>6, <4>1, <5>1, HandlerDone
        <4>2. CASE GoOn(l, [op |-> "send", r |-> s.r, obj |-> Len(objs) + 1]) /\ UNCHANGED reqs
          <5> PICK t : t = [op |-> "send", r |-> s.r, obj |-> n]
            OBVIOUS
          <5>1. GoOn(l, t) /\ UNCHANGED reqs /\ t.op = "send" /\ t.r = s.r /\ t.obj = n
            BY <4>2 DEF GoOn
          <5>2. /\ s.r \in DOMAIN reqs /\ reqs[s.r].loop = l /\ reqs[s.r].kind # "closed"
                /\ s.r # workers[l].cont
            BY <2>1 DEF Structure, StepsOK
          <5>3. StepsOK'
            BY <2>1, <3>6, <5>1, <5>2, HandlerGoesOn
          <5> QED
            BY <2>1, <5>1, <5>3 DEF Structure, WorkersOK, ReqsOK, Waiting
        <4> QED
          BY <2>3, <4>1, <4>2
      <3> QED
        BY <2>1, <3>7, <3>8, <3>9 DEF Structure
    <2> QED
      BY <2>1, <2>2, <2>3
  <1> QED
    BY <1>1, <1>2, <1>3 DEF Handler
\* The token of an authorization is exchanged, or the authorization expires.
LEMMA SetSessionUserFacts ==
    ASSUME Structure, NEW o \in DOMAIN objs, NEW su, SetSessionUser(o, su),
           UNCHANGED <<auths, changed>>
    PROVE  ObjsOK' /\ MapOK' /\ DOMAIN objs' = DOMAIN objs
  <1>1. CASE CanRefresh(db, objs[o].token)
    <2> PICK t : t = Token(Refresh(db, objs[o].token), objs[o].token.id)
      OBVIOUS
    <2> PICK x : x = [token |-> t, su |-> su, timer |-> TRUE]
      OBVIOUS
    <2>1. objs' = [objs EXCEPT ![o] = x] /\ UNCHANGED expired
      BY <1>1 DEF SetSessionUser
    <2>2. DOMAIN x = ObjFields /\ x.timer /\ x.token.id = objs[o].token.id
      BY DEF ObjFields, Token
    <2>3. /\ IsSeq(objs') /\ DOMAIN objs' = DOMAIN objs /\ objs'[o] = x
          /\ \A j \in DOMAIN objs \ {o} : objs'[j] = objs[j]
      BY <2>1, ExceptFacts DEF Structure, ObjsOK
    <2>4. ObjsOK'
      BY <2>1, <2>2, <2>3 DEF Structure, ObjsOK
    <2>5. \A p \in DOMAIN objs :
              /\ objs'[p].token.id = objs[p].token.id
              /\ objs[p].timer \/ p \in Range(expired) => objs'[p].timer \/ p \in Range(expired')
      BY <2>1, <2>2, <2>3
    <2>6. MapOK'
      BY <2>3, <2>5, MapStays
    <2> QED
      BY <2>3, <2>4, <2>6
  <1>2. CASE Expire(o)
    BY <1>2, ExpireFacts, MapStays
  <1> QED
    BY <1>1, <1>2 DEF SetSessionUser

LEMMA ContinueFacts ==
    ASSUME Structure, NEW l \in Loops, NEW r, Waiting(l, r), NEW su, Continue(l, r, su)
    PROVE  /\ ObjsOK' /\ MapOK' /\ DOMAIN objs' = DOMAIN objs
           /\ \E step : /\ GoOn(l, step) /\ step.op \in {"store", "send"} /\ step.r = r
                        /\ step.op = "send" => step.obj \in DOMAIN objs
  <1> PICK q : q = reqs[r]
    OBVIOUS
  <1>0. q.kind \in Kinds
    BY DEF Waiting
  <1>1. ASSUME UNCHANGED web, NEW token,
               GoOn(l, [op |-> "store", r |-> r, su |-> su, token |-> token])
        PROVE  /\ ObjsOK' /\ MapOK' /\ DOMAIN objs' = DOMAIN objs
               /\ \E step : /\ GoOn(l, step) /\ step.op \in {"store", "send"} /\ step.r = r
                            /\ step.op = "send" => step.obj \in DOMAIN objs
    <2> PICK step : step = [op |-> "store", r |-> r, su |-> su, token |-> token]
      OBVIOUS
    <2>1. GoOn(l, step) /\ step.op = "store" /\ step.r = r
      BY <1>1 DEF GoOn
    <2> QED
      BY <1>1, <2>1, ObjectsStay DEF web
  <1>2. CASE q.kind = "login"
    <2>1. UNCHANGED web
      BY <1>2 DEF Continue
    <2>2. \E token : GoOn(l, [op |-> "store", r |-> r, su |-> su, token |-> token])
      BY <1>2 DEF Continue
    <2> QED
      BY <1>1, <2>1, <2>2
  <1>3. CASE q.kind = "share"
    <2>1. UNCHANGED web /\ GoOn(l, [op |-> "store", r |-> r, su |-> su, token |-> q.token])
      BY <1>3 DEF Continue
    <2> QED
      BY <1>1, <2>1
  <1>4. CASE q.kind = "refresh" /\ ~Found(q.token)
    <2>1. UNCHANGED web
      BY <1>4 DEF Continue
    <2>2. \E token : GoOn(l, [op |-> "store", r |-> r, su |-> su, token |-> token])
      BY <1>4 DEF Continue
    <2> QED
      BY <1>1, <2>1, <2>2
  <1>5. CASE q.kind = "refresh" /\ Found(q.token)
    <2>1. /\ SetSessionUser(auths[q.token.id], su)
          /\ GoOn(l, [op |-> "send", r |-> r, obj |-> auths[q.token.id]])
          /\ UNCHANGED <<auths, changed>>
      BY <1>5 DEF Continue
    <2> PICK o : o = auths[q.token.id]
      OBVIOUS
    <2>2. o \in DOMAIN objs
      BY <1>5 DEF Found, Structure, MapOK
    <2>3. SetSessionUser(o, su)
      BY <2>1 DEF SetSessionUser, Expire
    <2> PICK step : step = [op |-> "send", r |-> r, obj |-> o]
      OBVIOUS
    <2>4. GoOn(l, step) /\ step.op = "send" /\ step.r = r /\ step.obj = o
      BY <2>1 DEF GoOn
    <2> QED
      BY <2>1, <2>2, <2>3, <2>4, SetSessionUserFacts
  <1> QED
    BY <1>0, <1>2, <1>3, <1>4, <1>5 DEF Kinds

\* What is left of the request whose result a loop takes.
Spent(q) == [q EXCEPT !.state = "spent", !.su = NoUser, !.token = NoToken]

LEMMA SpentFacts ==
    ASSUME NEW q, DOMAIN q = ReqFields
    PROVE  /\ DOMAIN Spent(q) = ReqFields /\ Spent(q).state = "spent"
           /\ Spent(q).kind = q.kind /\ Spent(q).loop = q.loop
  BY DEF Spent, ReqFields

LEMMA OnAuthResultStep ==
    ASSUME Structure, NEW r \in DOMAIN reqs, OnAuthResult(r)
    PROVE  Structure'
  <1> PICK l : l = reqs[r].loop
    OBVIOUS
  <1> PICK c : c = workers[l].cont
    OBVIOUS
  <1> PICK u : u = Spent(reqs[r])
    OBVIOUS
  <1> PICK spent : spent = [reqs EXCEPT ![r] = u]
    OBVIOUS
  <1>1. /\ Idle(l) /\ reqs[r].state = "result" /\ UNCHANGED <<unsaid, gone>>
        /\ workers' = [workers EXCEPT ![l] = [t |-> 0, cont |-> 0]]
    BY DEF OnAuthResult, users
  <1>2. l \in Loops /\ DOMAIN reqs[r] = ReqFields
    BY <1>1 DEF Structure, ReqsOK
  <1>3. /\ DOMAIN u = ReqFields /\ u.state = "spent" /\ u.kind = reqs[r].kind /\ u.loop = l
    BY <1>2, SpentFacts
  <1>4. spent = [reqs EXCEPT ![r].state = "spent", ![r].su = NoUser, ![r].token = NoToken]
    BY DEF Spent
  <1>5. /\ DOMAIN workers' = Loops /\ workers'[l].cont = 0 /\ workers'[l].t = 0
        /\ \A m \in Loops \ {l} : workers'[m] = workers[m]
    BY <1>1, <1>2 DEF Structure
  <1>6. /\ IsSeq(spent) /\ DOMAIN spent = DOMAIN reqs /\ spent[r] = u
        /\ \A s \in DOMAIN reqs \ {r} : spent[s] = reqs[s]
    <2>1. IsSeq(reqs)
      BY DEF Structure, ReqsOK
    <2> QED
      BY ONLY <2>1, ExceptFacts, r \in DOMAIN reqs, spent = [reqs EXCEPT ![r] = u]
  <1>7. /\ \A s \in DOMAIN reqs : spent[s].kind = reqs[s].kind /\ spent[s].loop = reqs[s].loop
        /\ \A s \in DOMAIN reqs : /\ DOMAIN spent[s] = ReqFields
                                  /\ spent[s].state # "spent" => spent[s].loop \in Loops
    BY <1>2, <1>3, <1>6 DEF Structure, ReqsOK
  <1>8. pc[l].op = "rest" /\ (c # 0 => Waiting(l, c)) /\ workers[l].t \in {0, c}
    BY <1>1, <1>2 DEF Structure, WorkersOK, Idle, Resting
  <1>9. \/ c # 0 /\ reqs' = [spent EXCEPT ![c] = Closed] /\ UNCHANGED pc /\ UNCHANGED web
        \/ reqs' = spent /\ UNCHANGED pc /\ UNCHANGED web
        \/ c # 0 /\ reqs' = spent /\ \E su : Continue(l, c, su)
    BY <1>4, <1>8 DEF OnAuthResult, Continue
  <1>10. CASE c # 0 /\ reqs' = [spent EXCEPT ![c] = Closed] /\ UNCHANGED pc /\ UNCHANGED web
    <2>1. c \in DOMAIN reqs /\ reqs[c].loop = l /\ reqs[c].kind \in Kinds
      BY <1>8, <1>10 DEF Waiting
    <2>2. /\ IsSeq(reqs') /\ DOMAIN reqs' = DOMAIN reqs /\ reqs'[c] = Closed
          /\ \A s \in DOMAIN reqs \ {c} : reqs'[s] = spent[s]
      BY ONLY <1>6, <1>10, <2>1, ExceptFacts
    <2>3. ReqsOK'
      BY <1>7, <2>2, RequestFields DEF ReqsOK
    <2>4. WorkersOK'
      BY <1>2, <1>5, <1>7, <2>1, <2>2 DEF Structure, WorkersOK, Waiting
    <2>5. StepsOK'
      <3>1. \A m \in Loops : pc[m].op # "rest" => pc[m].r # c
        BY <1>8, <2>1 DEF Structure, StepsOK
      <3> QED
        BY <1>5, <1>7, <1>8, <1>10, <2>2, <3>1 DEF Structure, StepsOK, web
    <2> QED
      BY <1>1, <1>5, <1>10, <2>3, <2>4, <2>5, ObjectsStay DEF Structure
  <1>11. ASSUME reqs' = spent
         PROVE  ReqsOK' /\ WorkersOK'
    BY <1>2, <1>5, <1>6, <1>7, <1>11 DEF Structure, ReqsOK, WorkersOK, Waiting
  <1>12. CASE reqs' = spent /\ UNCHANGED pc /\ UNCHANGED web
    <2>1. StepsOK'
      BY <1>5, <1>6, <1>7, <1>8, <1>12 DEF Structure, StepsOK, web
    <2> QED
      BY <1>1, <1>5, <1>11, <1>12, <2>1, ObjectsStay DEF Structure
  <1>13. ASSUME c # 0, reqs' = spent, NEW su, Continue(l, c, su)
         PROVE  Structure'
    <2>1. /\ ObjsOK' /\ MapOK' /\ DOMAIN objs' = DOMAIN objs
          /\ \E step : /\ GoOn(l, step) /\ step.op \in {"store", "send"} /\ step.r = c
                       /\ step.op = "send" => step.obj \in DOMAIN objs
      BY <1>2, <1>8, <1>13, ContinueFacts
    <2> PICK step : /\ GoOn(l, step) /\ step.op \in {"store", "send"} /\ step.r = c
                    /\ step.op = "send" => step.obj \in DOMAIN objs
      BY <2>1
    <2>2. c \in DOMAIN reqs /\ reqs[c].loop = l /\ reqs[c].kind \in Kinds /\ "closed" \notin Kinds
      BY <1>8, <1>13 DEF Waiting, Kinds
    <2>3. StepsOK'
      BY <1>2, <1>5, <1>6, <1>7, <1>13, <2>1, <2>2, HandlerGoesOn
    <2> QED
      BY <1>1, <1>5, <1>11, <1>13, <2>1, <2>3 DEF Structure
  <1> QED
    BY <1>9, <1>10, <1>12, <1>13

LEMMA StructureStep == Structure /\ [Next]_vars => Structure'
  <1> SUFFICES ASSUME Structure, [Next]_vars PROVE Structure'
    OBVIOUS
  <1>1. CASE UNCHANGED vars
    BY <1>1, HandlersStay, ObjectsStay DEF vars, web, Structure
  <1>2. CASE Next
    BY <1>2, RequestsStep, HandlerStep, AuthDoneStep, OnAuthResultStep, MainLoopStep,
       AdministratorStep DEF Next
  <1> QED
    BY <1>1, <1>2

LEMMA StructureHolds == Spec => []Structure
  BY StructureInit, StructureStep, PTL DEF Spec

\* Events and handlers refer to authorizations that have been made, the map has
\* each one once and under its id, and a changed user is news only for those in
\* the map (make_authorization(), the destructor of authorization).
THEOREM ReferencesHold == Spec => []TypeOK
  <1>1. ASSUME Structure PROVE TypeOK
    <2>1. Range(expired) \subseteq DOMAIN objs
      BY <1>1, RangeOfSeq DEF Structure, ObjsOK
    <2>2. Cardinality(Range(auths)) = Cardinality(DOMAIN auths)
      <3> PICK f : f = [id \in DOMAIN auths |-> auths[id]]
        OBVIOUS
      <3>1. \A i, j \in DOMAIN auths : auths[i] = auths[j] => i = j
        BY <1>1 DEF Structure, MapOK
      <3>2. f \in Bijection(DOMAIN auths, Range(auths))
        BY <3>1, Fun_IsBij DEF Range
      <3> QED
        BY <1>1, <3>2, FS_Bijection DEF ExistsBijection, Structure, MapOK
    <2> QED
      BY <1>1, <2>1, <2>2 DEF Structure, ObjsOK, MapOK, StepsOK, TypeOK
  <1> QED
    BY <1>1, StructureHolds, PTL

\* No authorization is left without its timer or the event that will have it
\* erased, whichever handlers meet it.
THEOREM NoneIsLeftBehind == Spec => []AuthorizationsEnd
  <1>1. Structure => AuthorizationsEnd
    BY DEF Structure, MapOK
  <1> QED
    BY <1>1, StructureHolds, PTL
-----------------------------------------------------------------------------
(* The data base goes forward: a row keeps its user, its number grows, and  *)
(* no id comes back.                                                        *)

Forward ==
    /\ DbOK' /\ db.next <= db'.next
    /\ \A id \in Ids(db') : id \in IdRange =>
          /\ id \in Ids(db) /\ db'.rows[id].user = db.rows[id].user
          /\ db.rows[id].n <= db'.rows[id].n

\* No token is exchanged.
Steady ==
    /\ DbOK' /\ db.next <= db'.next
    /\ \A id \in Ids(db') : id \in IdRange =>
          /\ id \in Ids(db) /\ db'.rows[id].user = db.rows[id].user
          /\ db.rows[id].n = db'.rows[id].n

LEMMA SteadyForward == ASSUME DbOK, Steady PROVE Forward
  BY DEF DbOK, Steady, Forward

LEMMA KnownStays ==
    ASSUME DbOK, Forward, NEW t, Known(t)
    PROVE  Known(t)'
  <1>1. t.id \in IdRange' /\ t.n \in Nat
    BY DEF DbOK, Forward, Known, IdRange
  <1>2. t.id \in Ids(db') => t.user = db'.rows[t.id].user /\ t.n <= db'.rows[t.id].n
    BY DEF DbOK, Forward, Known, IdRange
  <1> QED
    BY <1>1, <1>2 DEF Known

LEMMA UnchangedDb == ASSUME DbOK, UNCHANGED db PROVE Steady
  BY DEF DbOK, Steady, IdRange

LEMMA RemoveFacts ==
    ASSUME DbOK, NEW id, db' = RemoveRow(db, id)
    PROVE  Steady /\ Ids(db') = Ids(db) \ {id}
  <1> PICK rows : rows = [i \in Ids(db) \ {id} |-> db.rows[i]]
    OBVIOUS
  <1>1. db' = [db EXCEPT !.rows = rows]
    BY DEF RemoveRow
  <1>2. DOMAIN db' = {"rows", "next", "key"} /\ db'.rows = rows /\ db'.next = db.next
    BY <1>1 DEF DbOK
  <1>3. Ids(db') = Ids(db) \ {id} /\ \A i \in Ids(db') : db'.rows[i] = db.rows[i]
    BY <1>2 DEF Ids
  <1>4. DbOK'
    BY <1>2, <1>3 DEF DbOK, IdRange
  <1> QED
    BY <1>2, <1>3, <1>4 DEF Steady, DbOK

LEMMA InsertFacts ==
    ASSUME DbOK, ~RowidsReused, NEW user, db' = Insert(db, user)
    PROVE  /\ Steady /\ NextId(db) = db.next /\ db.next \notin Ids(db)
           /\ Ids(db') = Ids(db) \cup {db.next} /\ db'.next = db.next + 1
           /\ db'.rows[db.next].user = user /\ db'.rows[db.next].n = 1
  <1>1. NextId(db) = db.next /\ db.next \notin Ids(db)
    BY DEF NextId, DbOK, IdRange
  <1> PICK k : k = db.next
    OBVIOUS
  <1> PICK rows : rows = [i \in Ids(db) \cup {k} |-> IF i = k THEN Row(user) ELSE db.rows[i]]
    OBVIOUS
  <1>2. db' = [db EXCEPT !.rows = rows, !.next = db.next + 1]
    BY <1>1 DEF Insert
  <1>3. DOMAIN db' = {"rows", "next", "key"} /\ db'.rows = rows /\ db'.next = db.next + 1
    BY <1>2 DEF DbOK
  <1>4. /\ Ids(db') = Ids(db) \cup {k} /\ db'.rows[k] = Row(user)
        /\ \A i \in Ids(db) : db'.rows[i] = db.rows[i]
    BY <1>1, <1>3 DEF Ids
  <1>5. DOMAIN Row(user) = {"user", "n", "old"} /\ Row(user).user = user /\ Row(user).n = 1
    BY DEF Row
  <1>6. DbOK'
    BY <1>3, <1>4, <1>5 DEF DbOK, IdRange
  <1> QED
    BY <1>1, <1>3, <1>4, <1>5, <1>6 DEF Steady, DbOK, IdRange

LEMMA RefreshFacts ==
    ASSUME DbOK, NEW t, CanRefresh(db, t), db' = Refresh(db, t)
    PROVE  /\ Forward /\ Ids(db') = Ids(db) /\ db'.next = db.next
           /\ t.id \in Ids(db) /\ t.n = db.rows[t.id].n /\ t.user = db.rows[t.id].user
           /\ db'.rows[t.id].n = db.rows[t.id].n + 1
           /\ \A id \in Ids(db) \ {t.id} : db'.rows[id] = db.rows[id]
           /\ \A id \in Ids(db) : db'.rows[id].user = db.rows[id].user
  <1>1. t.id \in Ids(db) /\ t.n = db.rows[t.id].n /\ t.user = db.rows[t.id].user
    BY DEF CanRefresh
  <1> PICK i : i = t.id
    OBVIOUS
  <1> PICK row : row = [db.rows[i] EXCEPT !.n = db.rows[i].n + 1]
    OBVIOUS
  <1> PICK rows : rows = [db.rows EXCEPT ![i] = row]
    OBVIOUS
  <1>2. db' = [db EXCEPT !.rows = rows]
    BY DEF Refresh
  <1>3. DOMAIN db' = {"rows", "next", "key"} /\ db'.rows = rows /\ db'.next = db.next
    BY <1>2 DEF DbOK
  <1>4. DOMAIN row = {"user", "n", "old"} /\ row.user = db.rows[i].user /\ row.n = db.rows[i].n + 1
    BY <1>1 DEF DbOK
  <1>5. /\ Ids(db') = Ids(db) /\ db'.rows[i] = row
        /\ \A j \in Ids(db) \ {i} : db'.rows[j] = db.rows[j]
    BY <1>1, <1>3 DEF Ids
  <1>6. DbOK'
    BY <1>3, <1>4, <1>5 DEF DbOK, IdRange
  <1>7. Forward
    BY <1>3, <1>4, <1>5, <1>6 DEF Forward, DbOK
  <1> QED
    BY <1>1, <1>3, <1>4, <1>5, <1>7

\* What the token manager does otherwise takes rows away, or makes them older.
LEMMA LesserFacts ==
    ASSUME DbOK,
           \/ UNCHANGED db
           \/ \E t : db' = Destroy(db, t) \/ db' = AfterVerify(db, t)
           \/ db' = Reset(db)
           \/ \E id \in Ids(db) : db' = [db EXCEPT !.rows[id].old = TRUE]
    PROVE  Steady /\ Ids(db') \subseteq Ids(db)
  <1>1. CASE UNCHANGED db
    BY <1>1, UnchangedDb
  <1>2. CASE \E id : db' = RemoveRow(db, id)
    BY <1>2, RemoveFacts
  <1>3. CASE \E t : db' = Destroy(db, t) \/ db' = AfterVerify(db, t)
    BY <1>1, <1>2, <1>3 DEF Destroy, AfterVerify
  <1>4. CASE db' = Reset(db)
    <2>1. DOMAIN db' = {"rows", "next", "key"} /\ db'.rows = <<>> /\ db'.next = db.next
      BY <1>4 DEF Reset, DbOK
    <2>2. Ids(db') = {}
      BY <2>1 DEF Ids
    <2> QED
      BY <2>1, <2>2 DEF DbOK, Steady
  <1>5. CASE \E id \in Ids(db) : db' = [db EXCEPT !.rows[id].old = TRUE]
    <2> PICK id \in Ids(db) : db' = [db EXCEPT !.rows[id].old = TRUE]
      BY <1>5
    <2> PICK row : row = [db.rows[id] EXCEPT !.old = TRUE]
      OBVIOUS
    <2> PICK rows : rows = [db.rows EXCEPT ![id] = row]
      OBVIOUS
    <2>1. db' = [db EXCEPT !.rows = rows]
      OBVIOUS
    <2>2. DOMAIN db' = {"rows", "next", "key"} /\ db'.rows = rows /\ db'.next = db.next
      BY <2>1 DEF DbOK
    <2>3. DOMAIN row = {"user", "n", "old"} /\ row.user = db.rows[id].user /\ row.n = db.rows[id].n
      BY DEF DbOK
    <2>4. /\ Ids(db') = Ids(db) /\ db'.rows[id] = row
          /\ \A j \in Ids(db) \ {id} : db'.rows[j] = db.rows[j]
      BY <2>2 DEF Ids
    <2>5. DbOK'
      BY ONLY DbOK, <2>2, <2>3, <2>4 DEF DbOK, IdRange
    <2>6. Steady
      BY ONLY DbOK, <2>2, <2>3, <2>4, <2>5 DEF DbOK, Steady
    <2> QED
      BY <2>4, <2>6
  <1> QED
    BY <1>1, <1>3, <1>4, <1>5
-----------------------------------------------------------------------------
(* Agreement is kept: what stays when no token is exchanged.                *)

\* No authorization is made or renewed.
ObjectsKeepTokens ==
    /\ DOMAIN objs' = DOMAIN objs
    /\ \A o \in DOMAIN objs : objs'[o].token = objs[o].token /\ objs'[o].su = objs[o].su

MapShrinks ==
    /\ DOMAIN auths' \subseteq DOMAIN auths
    /\ \A id \in DOMAIN auths' : auths'[id] = auths[id]

HandlerStays(l) ==
    pc'[l] = pc[l] /\ (pc[l].op = "store" => reqs'[pc[l].r].kind = reqs[pc[l].r].kind)

LEMMA HandedStays ==
    ASSUME DbOK, HandedOK, Steady, UNCHANGED handed
    PROVE  HandedOK'
  <1>1. \A h \in handed : Known(h.token)'
    BY KnownStays, SteadyForward DEF HandedOK
  <1>2. Tokens("share")' = Tokens("share")
    BY DEF Tokens
  <1> QED
    BY <1>1, <1>2 DEF HandedOK

LEMMA ObjectsStayKnown ==
    ASSUME DbOK, ObjectsOK, Forward, ObjectsKeepTokens
    PROVE  ObjectsOK'
  BY KnownStays DEF ObjectsOK, ObjectsKeepTokens

LEMMA NumbersStay ==
    ASSUME Structure, ObjectsOK, NumbersAgree, Steady, ObjectsKeepTokens, MapShrinks,
           handed \subseteq handed'
    PROVE  NumbersAgree'
  <1> SUFFICES ASSUME NEW id \in DOMAIN auths', id \in Ids(db')
               PROVE  \/ objs'[auths'[id]].token.n = db'.rows[id].n
                      \/ objs'[auths'[id]].token \in Tokens("share")'
    BY DEF NumbersAgree, OfLink
  <1>1. id \in DOMAIN auths /\ auths'[id] = auths[id] /\ auths[id] \in DOMAIN objs
    BY DEF MapShrinks, Structure, MapOK
  <1>2. id \in IdRange
    BY <1>1 DEF Structure, MapOK, ObjectsOK, Known
  <1>3. objs'[auths'[id]].token = objs[auths[id]].token
    BY <1>1 DEF ObjectsKeepTokens
  <1>4. id \in Ids(db) /\ db.rows[id].n = db'.rows[id].n
    BY <1>2 DEF Steady
  <1>5. Tokens("share") \subseteq Tokens("share")'
    BY DEF Tokens
  <1> QED
    BY <1>1, <1>3, <1>4, <1>5 DEF NumbersAgree, OfLink

\* Nothing happens to a token that is going to be stored.
Undisturbed(t) ==
    t.id \in Ids(db') =>
        /\ t.id \in Ids(db) /\ db'.rows[t.id].n = db.rows[t.id].n
        /\ \A o \in DOMAIN objs' : objs'[o].token.id = t.id =>
              \/ o \in DOMAIN objs /\ objs'[o].token = objs[o].token
              \/ objs'[o].token.n < t.n

\* The tokens given out are those of authorizations, or new ones of shared links.
HandedGrows ==
    /\ Tokens("share") \subseteq Tokens("share")' /\ SharedIds' \cap IdRange \subseteq SharedIds
    /\ \A s \in Tokens("session")' :
          s \in Tokens("session") \/ \E o \in DOMAIN objs : s = objs[o].token

ObjectsKeepIds ==
    /\ DOMAIN objs \subseteq DOMAIN objs'
    /\ \A o \in DOMAIN objs : objs'[o].token.id = objs[o].token.id

LEMMA HandedUnchanged == ASSUME UNCHANGED handed PROVE HandedGrows
  BY DEF HandedGrows, Tokens, SharedIds

LEMMA SteadyUndisturbed ==
    ASSUME Steady, ObjectsKeepTokens, NEW t, Known(t)
    PROVE  Undisturbed(t)
  BY DEF Steady, ObjectsKeepTokens, Known, Undisturbed

LEMMA FreshStays ==
    ASSUME HandedGrows, NEW t, Fresh(t), Undisturbed(t)
    PROVE  Fresh(t)'
  <1> SUFFICES ASSUME t.id \in Ids(db')
               PROVE  /\ t.n = db'.rows[t.id].n
                      /\ \A o \in DOMAIN objs' : objs'[o].token.id = t.id => objs'[o].token.n < t.n
                      /\ \A s \in Tokens("session")' : s.id = t.id => s.n < t.n
    BY DEF Fresh
  <1> QED
    BY DEF Fresh, Undisturbed, HandedGrows

LEMMA HandlerStaysOK ==
    ASSUME Structure, Agreement, Forward, HandedGrows, ObjectsKeepIds,
           NEW l \in Loops, HandlerStays(l), Storing(l) => Undisturbed(pc[l].token)
    PROVE  HandlerOK(l)'
  <1>1. HandlerOK(l) /\ DbOK
    BY DEF Agreement, HandlersOK
  <1>2. \A id \in IdRange : id \notin SharedIds => id \notin SharedIds'
    BY DEF HandedGrows
  <1>3. (Storing(l))' <=> Storing(l)
    BY DEF Storing, HandlerStays
  <1> PICK t : t = pc[l].token
    OBVIOUS
  <1>4. pc'[l] = pc[l] /\ pc'[l].token = t
    BY DEF HandlerStays
  <1>5. pc[l].op = "store" => Known(t) /\ Known(t)'
    <2>1. pc[l].op = "store" => Known(t)
      BY <1>1 DEF HandlerOK
    <2> QED
      BY <1>1, <2>1, KnownStays
  <1>6. Storing(l) => Fresh(t)'
    <2>1. Storing(l) => Fresh(t) /\ Undisturbed(t)
      BY <1>1 DEF HandlerOK, Undisturbed
    <2> QED
      BY <2>1, FreshStays
  <1>8. (Known(pc[l].token))' <=> Known(t)'
    BY <1>4 DEF Known
  <1>9. (Fresh(pc[l].token))' <=> Fresh(t)'
    BY <1>4 DEF Fresh
  <1>10. Storing(l) => (pc[l].token.id \in SharedIds' => pc[l].token.n > 1)
    BY <1>1, <1>2, <1>5 DEF HandlerOK, Storing, Known
  <1>11. pc[l].op = "store" /\ ~Storing(l) => pc[l].token \in Tokens("share")'
    BY <1>1 DEF HandlerOK, HandedGrows
  <1> QED
    BY <1>1, <1>3, <1>4, <1>5, <1>6, <1>8, <1>9, <1>10, <1>11 DEF HandlerOK

LEMMA HandlersStillDiffer ==
    ASSUME DbOK, HandlersOK, Forward,
           \A l \in Loops : (Storing(l))' => Storing(l) /\ pc'[l].token = pc[l].token
    PROVE  HandlersDiffer'
  <1> SUFFICES ASSUME NEW l \in Loops, NEW m \in Loops, (Storing(l))', (Storing(m))', l # m,
                      pc'[l].token.id \in Ids(db')
               PROVE  pc'[l].token.id # pc'[m].token.id
    BY DEF HandlersDiffer
  <1>1. /\ Storing(l) /\ pc'[l].token = pc[l].token
        /\ Storing(m) /\ pc'[m].token = pc[m].token
    OBVIOUS
  <1>2. pc[l].token.id \in IdRange
    BY <1>1 DEF HandlersOK, HandlerOK, Storing, Known
  <1>3. pc[l].token.id \in Ids(db)
    BY <1>1, <1>2 DEF Forward
  <1> QED
    BY <1>1, <1>3 DEF HandlersOK, HandlersDiffer

LEMMA AllStay ==
    ASSUME Structure, Agreement, Steady, UNCHANGED handed, ObjectsKeepTokens, MapShrinks,
           \A l \in Loops : HandlerStays(l)
    PROVE  HandlersOK'
  <1>1. \A l \in Loops : HandlerOK(l)'
    <2> TAKE l \in Loops
    <2>1. Storing(l) => Undisturbed(pc[l].token)
      <3>1. Storing(l) => Known(pc[l].token)
        BY DEF Agreement, HandlersOK, HandlerOK, Storing
      <3> QED
        BY <3>1, SteadyUndisturbed
    <2> QED
      BY <2>1, HandlerStaysOK, HandedUnchanged, SteadyForward
      DEF Agreement, ObjectsKeepIds, ObjectsKeepTokens
  <1>2. \A l \in Loops : (Storing(l))' => Storing(l) /\ pc'[l].token = pc[l].token
    BY DEF HandlerStays, Storing
  <1>3. HandlersDiffer'
    BY <1>2, SteadyForward, HandlersStillDiffer DEF Agreement
  <1> QED
    BY <1>1, <1>3 DEF HandlersOK

LEMMA OutStays ==
    ASSUME DbOK, OutOK, Forward, Out' \subseteq Out, UNCHANGED revoked,
           DOMAIN auths' \subseteq DOMAIN auths,
           \A l \in Loops : pc'[l].op = "store" =>
              pc[l].op = "store" /\ pc'[l].token = pc[l].token,
           \A r \in DOMAIN reqs' : reqs'[r].state = "result" /\ reqs'[r].su # NoUser =>
              r \in DOMAIN reqs /\ reqs'[r] = reqs[r]
    PROVE  OutOK'
  <1>1. Out' \subseteq IdRange' /\ Out' \cap Ids(db') = {}
    BY DEF OutOK, Forward, DbOK, IdRange
  <1> QED
    BY <1>1 DEF OutOK

\* Nothing happens to requests and handlers.
LEMMA QuietStep ==
    ASSUME Structure, Agreement, Steady, UNCHANGED <<reqs, workers, pc, handed, revoked>>,
           ObjectsKeepTokens, MapShrinks
    PROVE  Agreement'
  <1>1. DbOK' /\ HandedOK' /\ ObjectsOK' /\ NumbersAgree'
    BY SteadyForward, HandedStays, ObjectsStayKnown, NumbersStay DEF Agreement, Steady
  <1>2. RequestsOK'
    BY DEF Agreement, RequestsOK, RequestOK, Tokens
  <1>3. HandlersOK'
    BY AllStay DEF HandlerStays
  <1>5. OutOK'
    <2>1. Out' = Out
      BY DEF Out
    <2> QED
      BY <2>1, SteadyForward, OutStays DEF Agreement, MapShrinks
  <1> QED
    BY <1>1, <1>2, <1>3, <1>5 DEF Agreement

LEMMA QuietActions ==
    ASSUME Structure, Agreement,
           \/ \E o \in DOMAIN objs : OnTimer(o) \/ OnUserChanged(o)
           \/ OnExpired
           \/ \E u \in Users : Dispose(u)
           \/ \E su \in unsaid : Notify(su)
           \/ ResetAll \/ \E id \in Ids(db) : Age(id)
           \/ UNCHANGED vars
    PROVE  Agreement'
  <1>0. DbOK
    BY DEF Agreement
  <1>1. CASE \E o \in DOMAIN objs : OnTimer(o)
    <2> PICK o \in DOMAIN objs : OnTimer(o)
      BY <1>1
    <2>1. Expire(o) /\ UNCHANGED <<db, auths, reqs, workers, pc, handed, revoked>>
      BY DEF OnTimer, hist
    <2>2. ObjectsKeepTokens
      BY <2>1, ExpireFacts DEF ObjectsKeepTokens
    <2> QED
      BY <1>0, <2>1, <2>2, UnchangedDb, QuietStep DEF MapShrinks
  <1>2. CASE \/ \E o \in DOMAIN objs : OnUserChanged(o)
             \/ \E u \in Users : Dispose(u)
             \/ \E su \in unsaid : Notify(su)
             \/ \E id \in Ids(db) : Age(id)
             \/ UNCHANGED vars
    <2>1. /\ UNCHANGED <<objs, auths, reqs, workers, pc, handed, revoked>>
          /\ UNCHANGED db \/ \E id \in Ids(db) : db' = [db EXCEPT !.rows[id].old = TRUE]
      BY <1>2 DEF OnUserChanged, Dispose, Notify, Age, web, hist, vars
    <2> QED
      BY <1>0, <2>1, LesserFacts, QuietStep DEF MapShrinks, ObjectsKeepTokens
  <1>3. CASE OnExpired
    <2>1. /\ UNCHANGED <<db, objs, reqs, workers, pc, handed, revoked>>
          /\ UNCHANGED auths \/ \E id : auths' = [i \in DOMAIN auths \ {id} |-> auths[i]]
      BY <1>3 DEF OnExpired, Erase, Crash, Restrict, hist
    <2>2. MapShrinks
      BY <2>1 DEF MapShrinks
    <2> QED
      BY <1>0, <2>1, <2>2, UnchangedDb, QuietStep DEF ObjectsKeepTokens
  <1>4. CASE ResetAll
    <2>1. /\ UNCHANGED <<objs, reqs, workers, pc, handed, revoked>>
          /\ db' = Reset(db) /\ auths' = <<>>
      BY <1>4 DEF ResetAll, hist
    <2>2. MapShrinks
      BY <2>1 DEF MapShrinks
    <2> QED
      BY <1>0, <2>1, <2>2, LesserFacts, QuietStep DEF ObjectsKeepTokens
  <1> QED
    BY <1>1, <1>2, <1>3, <1>4
-----------------------------------------------------------------------------
(* Agreement is kept: requests, and handlers that are done.                 *)

LEMMA SteadyParts ==
    ASSUME Structure, Agreement, Steady, UNCHANGED handed, ObjectsKeepTokens, MapShrinks
    PROVE  DbOK' /\ HandedOK' /\ ObjectsOK' /\ NumbersAgree' /\ Forward
  BY SteadyForward, HandedStays, ObjectsStayKnown, NumbersStay DEF Agreement, Steady

\* The handlers of all loops but one.
LEMMA OthersStay ==
    ASSUME Structure, Agreement, Forward, HandedGrows, ObjectsKeepIds,
           NEW l \in Loops, HandlerOK(l)',
           \A m \in Loops \ {l} :
              HandlerStays(m) /\ (Storing(m) => Undisturbed(pc[m].token)),
           \A m \in Loops \ {l} :
              (Storing(l))' /\ Storing(m) => pc'[l].token.id # pc[m].token.id
    PROVE  HandlersOK'
  <1>1. \A m \in Loops : HandlerOK(m)'
    BY HandlerStaysOK
  <1>2. \A m \in Loops \ {l} : (Storing(m))' => Storing(m) /\ pc'[m].token = pc[m].token
    BY DEF HandlerStays, Storing
  <1>3. HandlersDiffer'
    <2> SUFFICES ASSUME NEW m \in Loops, NEW k \in Loops, (Storing(m))', (Storing(k))', m # k,
                        pc'[m].token.id \in Ids(db')
                 PROVE  pc'[m].token.id # pc'[k].token.id
      BY DEF HandlersDiffer
    <2>1. CASE m = l \/ k = l
      BY <1>2, <2>1
    <2>2. CASE m # l /\ k # l
      <3>1. /\ Storing(m) /\ pc'[m].token = pc[m].token
            /\ Storing(k) /\ pc'[k].token = pc[k].token
        BY <1>2, <2>2
      <3>2. pc[m].token.id \in IdRange
        BY <3>1 DEF Agreement, HandlersOK, HandlerOK, Storing, Known
      <3>3. pc[m].token.id \in Ids(db)
        BY <3>1, <3>2 DEF Forward
      <3> QED
        BY <3>1, <3>3 DEF Agreement, HandlersOK, HandlersDiffer
    <2> QED
      BY <2>1, <2>2
  <1> QED
    BY <1>1, <1>3 DEF HandlersOK

\* A loop that authenticates nothing else asks.
LEMMA AskAgrees ==
    ASSUME Structure, Agreement, ~Overlap,
           NEW kind \in Kinds, NEW l \in Loops, NEW token, NEW user,
           Ask(kind, l, token, user),
           kind = "login"   => token = NoToken,
           kind = "refresh" => /\ token \in Tokens("session") \cup Tokens("share")
                               /\ user = token.user,
           kind = "share"   => token \in Tokens("share") /\ user = token.user
    PROVE  Agreement'
  <1> PICK q : q = Request(kind, l, token, user)
    OBVIOUS
  <1> PICK n : n = Len(reqs) + 1
    OBVIOUS
  <1>1. /\ reqs' = Append(reqs, q) /\ UNCHANGED <<db, objs, auths, pc, handed, revoked>>
        /\ workers' = [workers EXCEPT ![l] = [t |-> IF kind = "share" THEN 0 ELSE n, cont |-> n]]
        /\ ~Pending(l)
    BY DEF Ask, web, hist
  <1>2. /\ DOMAIN q = ReqFields /\ q.loop = l /\ q.kind = kind /\ q.token = token
        /\ q.user = user /\ q.state = "asked"
    BY RequestFields DEF Request
  <1>3. /\ DOMAIN reqs' = DOMAIN reqs \cup {n} /\ n \notin DOMAIN reqs
        /\ reqs'[n] = q /\ \A r \in DOMAIN reqs : reqs'[r] = reqs[r]
    BY <1>1, <1>2, NewRequest
  <1>4. workers'[l].cont = n /\ \A m \in Loops \ {l} : workers'[m] = workers[m]
    BY <1>1 DEF Structure
  <1>5. Steady /\ ObjectsKeepTokens /\ MapShrinks
    BY <1>1, UnchangedDb DEF Agreement, ObjectsKeepTokens, MapShrinks
  <1>6. \A p : Tokens(p)' = Tokens(p)
    BY <1>1 DEF Tokens
  <1>7. RequestsOK'
    <2> SUFFICES ASSUME NEW r \in DOMAIN reqs', reqs'[r].state \in {"asked", "result"}
                 PROVE  RequestOK(r)'
      BY DEF RequestsOK
    <2>1. CASE r = n
      BY <1>2, <1>3, <1>4, <1>6, <2>1 DEF RequestOK
    <2>2. CASE r \in DOMAIN reqs
      <3>1. RequestOK(r) /\ reqs[r].loop # l
        BY <1>1, <1>3, <2>2 DEF Agreement, RequestsOK, RequestOK, Pending
      <3> QED
        BY <1>3, <1>4, <1>6, <2>2, <3>1 DEF RequestOK
    <2> QED
      BY <1>3, <2>1, <2>2
  <1>8. HandlersOK'
    <2>1. \A m \in Loops : HandlerStays(m)
      BY <1>1, <1>3 DEF HandlerStays, Structure, StepsOK
    <2> QED
      BY <1>1, <1>5, <2>1, AllStay
  <1>9. OutOK'
    <2>1. Out' = Out
      BY <1>1 DEF Out
    <2> QED
      BY <1>1, <1>2, <1>3, <1>5, <2>1, SteadyForward, OutStays DEF Agreement
  <1> QED
    BY <1>1, <1>5, <1>7, <1>8, <1>9, SteadyParts DEF Agreement

\* The authenticator accepts no token that is out: it has no row.
LEMMA AuthDoneAgrees ==
    ASSUME Structure, Agreement, NEW r \in DOMAIN reqs, AuthDone(r)
    PROVE  Agreement'
  <1> PICK t : t = reqs[r].token
    OBVIOUS
  <1>1. /\ UNCHANGED <<objs, auths, workers, pc, handed, revoked>>
        /\ reqs[r].state = "asked"
        /\ UNCHANGED db \/ db' = AfterVerify(db, t)
        /\ \E su : /\ reqs' = [reqs EXCEPT ![r].state = "result", ![r].su = su]
                   /\ su # NoUser => su.user = reqs[r].user
                   /\ su # NoUser => reqs[r].kind = "login" \/ Verifies(db, t)
    <2>1. /\ UNCHANGED <<objs, auths, workers, pc, handed, revoked>>
          /\ reqs[r].state = "asked"
          /\ UNCHANGED db \/ db' = AfterVerify(db, t)
      BY DEF AuthDone, web
    <2> PICK u : u = [user |-> reqs[r].user, gen |-> gen[reqs[r].user]]
      OBVIOUS
    <2> PICK ok \in (IF reqs[r].kind = "login" THEN BOOLEAN ELSE {Verifies(db, t)}) :
                reqs' = [reqs EXCEPT ![r].state = "result", ![r].su = IF ok THEN u ELSE NoUser]
      BY DEF AuthDone
    <2> PICK su : su = IF ok THEN u ELSE NoUser
      OBVIOUS
    <2>2. su # NoUser => su.user = reqs[r].user
      OBVIOUS
    <2>3. su # NoUser => reqs[r].kind = "login" \/ Verifies(db, t)
      OBVIOUS
    <2> QED
      BY <2>1, <2>2, <2>3
  <1> PICK su : /\ reqs' = [reqs EXCEPT ![r].state = "result", ![r].su = su]
                /\ su # NoUser => su.user = reqs[r].user
                /\ su # NoUser => reqs[r].kind = "login" \/ Verifies(db, t)
    BY <1>1
  <1> PICK q : q = [reqs[r] EXCEPT !.state = "result", !.su = su]
    OBVIOUS
  <1>2. /\ DOMAIN reqs[r] = ReqFields /\ reqs[r].loop \in Loops /\ RequestOK(r)
    BY <1>1 DEF Structure, ReqsOK, Agreement, RequestsOK
  <1>3. /\ DOMAIN q = ReqFields /\ q.kind = reqs[r].kind /\ q.loop = reqs[r].loop
        /\ q.token = t /\ q.user = reqs[r].user /\ q.su = su /\ q.state = "result"
    BY ONLY <1>2, t = reqs[r].token, q = [reqs[r] EXCEPT !.state = "result", !.su = su]
    DEF ReqFields
  <1>4. reqs' = [reqs EXCEPT ![r] = q]
    OBVIOUS
  <1>5. /\ DOMAIN reqs' = DOMAIN reqs /\ reqs'[r] = q
        /\ \A s \in DOMAIN reqs \ {r} : reqs'[s] = reqs[s]
    BY <1>2, <1>3, <1>4, ChangedRequest
  <1>6. Steady /\ ObjectsKeepTokens /\ MapShrinks
    BY <1>1, LesserFacts DEF Agreement, ObjectsKeepTokens, MapShrinks
  <1>7. \A p : Tokens(p)' = Tokens(p)
    BY <1>1 DEF Tokens
  <1>8. RequestsOK'
    <2>1. RequestOK(r)'
      <3>1. RequestOK(r) /\ UNCHANGED workers /\ Tokens("session")' = Tokens("session")
            /\ Tokens("share")' = Tokens("share")
        BY <1>1, <1>2, <1>7
      <3> QED
        BY ONLY <1>2, <1>3, <1>5, <3>1, t = reqs[r].token,
           su # NoUser => su.user = reqs[r].user DEF RequestOK
    <2>2. ASSUME NEW s \in DOMAIN reqs \ {r}, reqs[s].state \in {"asked", "result"}
          PROVE  RequestOK(s)'
      BY <1>1, <1>5, <1>7, <2>2 DEF Agreement, RequestsOK, RequestOK
    <2> QED
      BY <1>5, <2>1, <2>2 DEF RequestsOK
  <1>9. HandlersOK'
    <2>1. \A m \in Loops : HandlerStays(m)
      BY <1>1, <1>3, <1>5 DEF HandlerStays, Structure, StepsOK
    <2> QED
      BY <1>1, <1>6, <2>1, AllStay
  <1>10. OutOK'
    <2>1. Out' = Out
      BY <1>1 DEF Out
    <2>2. OutOK /\ DbOK /\ Forward
      BY <1>6, SteadyForward DEF Agreement
    <2>3. Out' \subseteq IdRange' /\ Out' \cap Ids(db') = {}
      BY <2>1, <2>2 DEF OutOK, Forward, DbOK, IdRange
    <2>4. su # NoUser => t.id \notin Out
      <3>1. CASE reqs[r].kind = "login"
        BY <1>2, <2>2, <3>1 DEF RequestOK, NoToken, OutOK, IdRange
      <3>2. CASE Verifies(db, t)
        BY <2>2, <3>2 DEF OutOK, Verifies, CanRefresh
      <3> QED
        BY <3>1, <3>2
    <2> QED
      BY <1>1, <1>3, <1>5, <2>1, <2>2, <2>3, <2>4 DEF OutOK
  <1> QED
    BY <1>1, <1>6, <1>8, <1>9, <1>10, SteadyParts DEF Agreement
\* A handler answers its request: the ones being authenticated are others, and
\* no other handler has it.
LEMMA AnswerKeepsRequests ==
    ASSUME Structure, Agreement, NEW l \in Loops, pc[l].op # "rest",
           Answer(pc[l].r), UNCHANGED workers, handed \subseteq handed'
    PROVE  /\ RequestsOK' /\ DOMAIN reqs' = DOMAIN reqs
           /\ \A s \in DOMAIN reqs' : reqs'[s].state # "spent" => reqs'[s] = reqs[s]
           /\ \A m \in Loops \ {l} :
                 pc[m].op # "rest" => pc[m].r \in DOMAIN reqs /\ reqs'[pc[m].r] = reqs[pc[m].r]
  <1> PICK r : r = pc[l].r
    OBVIOUS
  <1>1. r \in DOMAIN reqs /\ reqs[r].loop = l
    BY DEF Structure, StepsOK
  <1>2. reqs' = [reqs EXCEPT ![r] = Closed] /\ DOMAIN Closed = ReqFields /\ Closed.state = "spent"
    BY RequestFields DEF Answer
  <1>3. /\ DOMAIN reqs' = DOMAIN reqs /\ reqs'[r].state = "spent"
        /\ \A s \in DOMAIN reqs \ {r} : reqs'[s] = reqs[s]
    BY <1>1, <1>2, ChangedRequest
  <1>4. Tokens("session") \subseteq Tokens("session")' /\ Tokens("share") \subseteq Tokens("share")'
    BY DEF Tokens
  <1>5. RequestsOK'
    BY <1>3, <1>4 DEF Agreement, RequestsOK, RequestOK
  <1>6. \A m \in Loops \ {l} :
                 pc[m].op # "rest" => pc[m].r \in DOMAIN reqs /\ reqs'[pc[m].r] = reqs[pc[m].r]
    BY <1>1, <1>3 DEF Structure, StepsOK
  <1> QED
    BY <1>3, <1>5, <1>6

\* The tokens of an authorization are sent: one more session token, no later than
\* any that is about to be stored.
LEMMA SendAgrees ==
    ASSUME Structure, Agreement, NEW l \in Loops, Send(l)
    PROVE  Agreement'
  <1> PICK o : o = pc[l].obj
    OBVIOUS
  <1> PICK h : h = [token |-> objs[o].token, purpose |-> "session"]
    OBVIOUS
  <1>1. /\ UNCHANGED <<db, objs, auths, workers, revoked>>
        /\ pc[l].op = "send" /\ GoOn(l, Resting)
        /\ \/ handed' = handed \cup {h} /\ Answer(pc[l].r)
           \/ UNCHANGED <<handed, reqs>>
    BY DEF Send, Crash, web
  <1>2. pc'[l].op = "rest" /\ \A m \in Loops \ {l} : pc'[m] = pc[m]
    BY <1>1 DEF Structure, StepsOK, GoOn, Resting
  <1>3. o \in DOMAIN objs /\ Known(objs[o].token)
    BY <1>1 DEF Structure, StepsOK, Agreement, ObjectsOK
  <1>4. Steady /\ ObjectsKeepTokens /\ MapShrinks /\ ObjectsKeepIds /\ Forward
    BY <1>1, UnchangedDb, SteadyForward
    DEF Agreement, ObjectsKeepTokens, MapShrinks, ObjectsKeepIds
  <1>5. /\ RequestsOK'
        /\ \A s \in DOMAIN reqs' : reqs'[s].state # "spent" => s \in DOMAIN reqs /\ reqs'[s] = reqs[s]
        /\ \A m \in Loops \ {l} : HandlerStays(m)
    <2>1. CASE UNCHANGED <<handed, reqs>>
      BY <1>1, <1>2, <2>1 DEF HandlerStays, Agreement, RequestsOK, RequestOK, Tokens
    <2>2. CASE handed' = handed \cup {h} /\ Answer(pc[l].r)
      BY <1>1, <1>2, <2>2, AnswerKeepsRequests DEF HandlerStays
    <2> QED
      BY <1>1, <2>1, <2>2
  <1>6. HandedOK' /\ HandedGrows
    <2>1. CASE UNCHANGED handed
      BY <1>4, <2>1, HandedStays, HandedUnchanged DEF Agreement
    <2>2. CASE handed' = handed \cup {h}
      <3>1. /\ Tokens("session")' = Tokens("session") \cup {objs[o].token}
            /\ Tokens("share")' = Tokens("share")
        BY <2>2 DEF Tokens
      <3>2. SharedIds' = SharedIds
        BY <3>1 DEF SharedIds
      <3>3. HandedGrows
        BY <1>3, <3>1, <3>2 DEF HandedGrows
      <3>4. \A g \in handed' : Known(g.token)' /\ g.purpose \in {"session", "share"}
        BY <1>1, <1>3, <2>2 DEF Agreement, HandedOK, Known, IdRange
      <3>5. HandedOK'
        BY <1>1, <1>3, <3>1, <3>2, <3>4 DEF Agreement, HandedOK
      <3> QED
        BY <3>3, <3>5
    <2> QED
      BY <1>1, <2>1, <2>2
  <1>7. HandlersOK'
    <2>1. \A m \in Loops : Storing(m) => Undisturbed(pc[m].token)
      BY <1>1 DEF Undisturbed
    <2>2. HandlerOK(l)' /\ ~(Storing(l))'
      BY <1>2 DEF HandlerOK, Storing
    <2> QED
      BY <1>4, <1>5, <1>6, <2>1, <2>2, OthersStay
  <1>8. OutOK'
    <2>1. Out' \subseteq Out
      BY <1>1, <1>2 DEF Out
    <2> QED
      BY <1>1, <1>2, <1>4, <1>5, <2>1, OutStays DEF Agreement
  <1>9. DbOK' /\ ObjectsOK' /\ NumbersAgree'
    BY <1>1, <1>4, ObjectsStayKnown, NumbersStay DEF Agreement, Steady
  <1> QED
    BY <1>5, <1>6, <1>7, <1>8, <1>9 DEF Agreement

\* An authorization is erased for good, once its token is out.
LEMMA EraseRevokedAgrees ==
    ASSUME Structure, Agreement, NEW l \in Loops, EraseRevoked(l)
    PROVE  Agreement'
  <1> PICK id : id = pc[l].id
    OBVIOUS
  <1>1. /\ UNCHANGED <<db, objs, workers, handed>>
        /\ pc[l].op = "erase" /\ GoOn(l, Resting) /\ Answer(pc[l].r)
        /\ auths' = [i \in DOMAIN auths \ {id} |-> auths[i]]
        /\ revoked' = IF pc[l].out THEN revoked \cup {id} ELSE revoked
    BY DEF EraseRevoked, Erase, Restrict
  <1>2. pc'[l].op = "rest" /\ \A m \in Loops \ {l} : pc'[m] = pc[m]
    BY <1>1 DEF Structure, StepsOK, GoOn, Resting
  <1>3. Steady /\ ObjectsKeepTokens /\ MapShrinks /\ ObjectsKeepIds /\ Forward
    BY <1>1, UnchangedDb, SteadyForward
    DEF Agreement, ObjectsKeepTokens, MapShrinks, ObjectsKeepIds
  <1>4. /\ RequestsOK'
        /\ \A s \in DOMAIN reqs' : reqs'[s].state # "spent" => s \in DOMAIN reqs /\ reqs'[s] = reqs[s]
        /\ \A m \in Loops \ {l} : HandlerStays(m)
    BY <1>1, <1>2, AnswerKeepsRequests DEF HandlerStays
  <1>5. HandlersOK'
    <2>1. \A m \in Loops : Storing(m) => Undisturbed(pc[m].token)
      BY <1>1 DEF Undisturbed
    <2>2. HandlerOK(l)' /\ ~(Storing(l))'
      BY <1>2 DEF HandlerOK, Storing
    <2> QED
      BY <1>1, <1>3, <1>4, <2>1, <2>2, OthersStay, HandedUnchanged
  <1>6. OutOK'
    <2>1. Out' \subseteq Out
      BY <1>1, <1>2 DEF Out
    <2>2. revoked' \cap DOMAIN auths' = {}
      BY <1>1 DEF Agreement, OutOK
    <2> QED
      BY <1>1, <1>2, <1>4, <2>1, <2>2 DEF Agreement, OutOK, IdRange
  <1> QED
    BY <1>1, <1>3, <1>4, <1>5, <1>6, SteadyParts DEF Agreement

\* A token is revoked: its row goes, and if nobody is using it, it is out.
LEMMA RevokeAgrees ==
    ASSUME Structure, Agreement, NEW l \in Loops, Revoke(l)
    PROVE  Agreement'
  <1> PICK n : n = Len(reqs) + 1
    OBVIOUS
  <1>1. PICK h \in handed, access \in BOOLEAN :
          /\ db' = IF access THEN db ELSE Destroy(db, h.token)
          /\ reqs' = Append(reqs, [Request("revoke", l, h.token, h.token.user)
                                      EXCEPT !.state = "spent"])
          /\ pc' = [pc EXCEPT ![l] = [op |-> "erase", id |-> h.token.id, r |-> n,
                                out |-> ~access /\ h.token.id \in Ids(db) /\ ~InUse(h.token.id)]]
          /\ UNCHANGED <<objs, auths, workers, handed, revoked>> /\ Idle(l)
    BY DEF Revoke, Room, web, hist
  <1> PICK t : t = h.token
    OBVIOUS
  <1> PICK q : q = [Request("revoke", l, h.token, h.token.user) EXCEPT !.state = "spent"]
    OBVIOUS
  <1>2. DOMAIN q = ReqFields /\ q.state = "spent"
    BY RequestFields DEF Request
  <1>3. /\ DOMAIN reqs' = DOMAIN reqs \cup {n} /\ n \notin DOMAIN reqs
        /\ reqs'[n] = q /\ \A r \in DOMAIN reqs : reqs'[r] = reqs[r]
    BY <1>1, <1>2, NewRequest
  <1>4. /\ pc'[l].op = "erase" /\ pc'[l].id = t.id
        /\ pc'[l].out => ~access /\ t.id \in Ids(db) /\ ~InUse(t.id)
        /\ \A m \in Loops \ {l} : pc'[m] = pc[m]
    BY <1>1 DEF Structure, StepsOK
  <1>5. Steady /\ ObjectsKeepTokens /\ MapShrinks /\ Forward /\ ObjectsKeepIds
    BY <1>1, LesserFacts, SteadyForward
    DEF Agreement, ObjectsKeepTokens, MapShrinks, ObjectsKeepIds
  <1>6. RequestsOK'
    BY <1>1, <1>2, <1>3 DEF Agreement, RequestsOK, RequestOK, Tokens
  <1>7. \A m \in Loops \ {l} : HandlerStays(m)
    BY <1>3, <1>4 DEF HandlerStays, Structure, StepsOK
  <1>8. HandlersOK'
    <2>1. \A m \in Loops : Storing(m) => Undisturbed(pc[m].token)
      <3> TAKE m \in Loops
      <3>1. Storing(m) => Known(pc[m].token)
        BY DEF Agreement, HandlersOK, HandlerOK, Storing
      <3> QED
        BY <1>5, <3>1, SteadyUndisturbed
    <2>2. HandlerOK(l)' /\ ~(Storing(l))'
      BY <1>4 DEF HandlerOK, Storing
    <2> QED
      BY <1>1, <1>5, <1>7, <2>1, <2>2, OthersStay, HandedUnchanged
  <1>9. OutOK'
    <2>1. OutOK /\ DbOK /\ Known(t)
      BY DEF Agreement, HandedOK
    <2>2. ASSUME pc'[l].out
          PROVE  /\ t.id \in IdRange /\ t.id \notin Ids(db')
                 /\ \A m \in Loops : pc[m].op = "store" => pc[m].token.id # t.id
                 /\ \A r \in DOMAIN reqs :
                       reqs[r].state = "result" /\ reqs[r].su # NoUser => reqs[r].token.id # t.id
      <3>1. ~access /\ t.id \in Ids(db) /\ ~InUse(t.id)
        BY <1>4, <2>2
      <3>2. db' = RemoveRow(db, t.id)
        BY <1>1, <2>1, <3>1 DEF Destroy, Known
      <3>3. t.id \notin Ids(db')
        BY <2>1, <3>2, RemoveFacts
      <3> QED
        BY <2>1, <3>1, <3>3 DEF InUse, Known
    <2>3. Out' \subseteq Out \cup (IF pc'[l].out THEN {t.id} ELSE {})
      BY <1>1, <1>4 DEF Out
    <2>4. Out' \subseteq IdRange' /\ Out' \cap Ids(db') = {}
      BY <1>5, <2>1, <2>2, <2>3 DEF OutOK, Forward, DbOK, IdRange
    <2> QED
      BY <1>1, <1>2, <1>3, <1>4, <2>1, <2>2, <2>3, <2>4 DEF OutOK
  <1> QED
    BY <1>1, <1>5, <1>6, <1>8, <1>9, SteadyParts DEF Agreement

\* A shared link gets a row of its own, of an id that nobody knows.
LEMMA CreateShareAgrees ==
    ASSUME ~RowidsReused, Structure, Agreement, NEW l \in Loops, CreateShare(l)
    PROVE  Agreement'
  <1> PICK k : k = db.next
    OBVIOUS
  <1>1. PICK user : /\ db' = Insert(db, user)
                    /\ handed' = handed \cup {[token |-> Token(Insert(db, user), NextId(db)),
                                               purpose |-> "share"]}
                    /\ reqs' = Append(reqs, Closed)
                    /\ UNCHANGED <<objs, auths, workers, pc, revoked>>
    BY DEF CreateShare, web
  <1>2. /\ Steady /\ NextId(db) = k /\ k \notin Ids(db) /\ Ids(db') = Ids(db) \cup {k}
        /\ db'.rows[k].user = user /\ db'.rows[k].n = 1 /\ db'.next = k + 1
    BY <1>1, InsertFacts DEF Agreement
  <1> PICK t : t = Token(Insert(db, user), NextId(db))
    OBVIOUS
  <1>3. t.id = k /\ t.n = 1 /\ t.user = user
    BY <1>1, <1>2 DEF Token
  <1>4. Forward /\ ObjectsKeepTokens /\ MapShrinks /\ ObjectsKeepIds /\ DbOK /\ DbOK'
    BY <1>1, <1>2, SteadyForward
    DEF Agreement, ObjectsKeepTokens, MapShrinks, ObjectsKeepIds, Forward
  <1>5. k \in IdRange' /\ k \notin IdRange
    BY <1>2, <1>4 DEF DbOK, IdRange
  <1>6. DOMAIN reqs \subseteq DOMAIN reqs' /\ (\A r \in DOMAIN reqs : reqs'[r] = reqs[r])
        /\ \A r \in DOMAIN reqs' : reqs'[r].state # "spent" => r \in DOMAIN reqs /\ reqs'[r] = reqs[r]
    BY <1>1, NewRequest, RequestFields
  <1>7. /\ Tokens("session")' = Tokens("session")
        /\ Tokens("share")' = Tokens("share") \cup {t}
    <2> PICK g : g = [token |-> t, purpose |-> "share"]
      OBVIOUS
    <2>1. handed' = handed \cup {g} /\ g.token = t /\ g.purpose = "share"
      BY <1>1
    <2> QED
      BY ONLY <2>1 DEF Tokens
  <1>8. SharedIds' = SharedIds \cup {k} /\ \A id \in SharedIds : id \in IdRange
    BY <1>3, <1>7 DEF SharedIds, Agreement, HandedOK, Tokens, Known
  <1>9. HandedOK'
    <2>1. \A h \in handed : Known(h.token)'
      BY <1>4, KnownStays DEF Agreement, HandedOK
    <2>2. Known(t)'
      BY <1>2, <1>3, <1>5 DEF Known
    <2>3. \A h \in handed' : Known(h.token)' /\ h.purpose \in {"session", "share"}
      <3> PICK g : g = [token |-> t, purpose |-> "share"]
        OBVIOUS
      <3>1. handed' = handed \cup {g} /\ g.purpose = "share" /\ g.token = t
        BY <1>1
      <3>2. Known(g.token)'
        BY <2>2, <3>1 DEF Known
      <3> QED
        BY <2>1, <3>1, <3>2 DEF Agreement, HandedOK
    <2> QED
      BY <1>3, <1>7, <2>3 DEF Agreement, HandedOK
  <1>10. HandlersOK'
    <2>1. HandedGrows
      BY <1>5, <1>7, <1>8 DEF HandedGrows
    <2>2. \A m \in Loops : HandlerStays(m)
      BY <1>1, <1>6 DEF HandlerStays, Structure, StepsOK
    <2>3. \A m \in Loops : HandlerOK(m)'
      <3> TAKE m \in Loops
      <3>1. Storing(m) => Undisturbed(pc[m].token)
        <4>1. Storing(m) => Known(pc[m].token)
          BY DEF Agreement, HandlersOK, HandlerOK, Storing
        <4> QED
          BY <1>2, <1>4, <4>1, SteadyUndisturbed
      <3> QED
        BY <1>4, <2>1, <2>2, <3>1, HandlerStaysOK
    <2>4. HandlersDiffer'
      BY <1>4, <2>2, HandlersStillDiffer DEF Agreement, Storing, HandlerStays
    <2> QED
      BY <2>3, <2>4 DEF HandlersOK
  <1>11. RequestsOK'
    BY <1>1, <1>6, <1>7 DEF Agreement, RequestsOK, RequestOK
  <1>12. OutOK'
    <2>1. Out' = Out
      BY <1>1 DEF Out
    <2> QED
      BY <1>1, <1>4, <1>6, <2>1, OutStays DEF Agreement
  <1>13. ObjectsOK' /\ NumbersAgree'
    BY <1>1, <1>2, <1>4, ObjectsStayKnown, NumbersStay DEF Agreement
  <1> QED
    BY <1>4, <1>9, <1>10, <1>11, <1>12, <1>13 DEF Agreement
-----------------------------------------------------------------------------
(* Agreement is kept: what the handlers store.                              *)

\* The token finds no authorization: one is made, at the number of its row.
LEMMA MakeAgrees ==
    ASSUME Structure, Agreement, NEW l \in Loops, pc[l].op = "store",
           pc[l].token.id \notin DOMAIN auths,
           Storing(l) \/ pc[l].su.user = pc[l].token.user,
           objs' = Append(objs, [token |-> pc[l].token, su |-> pc[l].su, timer |-> TRUE]),
           auths' = [i \in DOMAIN auths \cup {pc[l].token.id} |->
                        IF i = pc[l].token.id THEN Len(objs) + 1 ELSE auths[i]],
           \/ Answer(pc[l].r) /\ GoOn(l, Resting)
           \/ /\ Storing(l) /\ UNCHANGED reqs
              /\ GoOn(l, [op |-> "send", r |-> pc[l].r, obj |-> Len(objs) + 1]),
           UNCHANGED <<db, workers, handed, revoked>>
    PROVE  Agreement'
  <1> PICK t : t = pc[l].token
    OBVIOUS
  <1> PICK n : n = Len(objs) + 1
    OBVIOUS
  <1> PICK x : x = [token |-> t, su |-> pc[l].su, timer |-> TRUE]
    OBVIOUS
  <1>1. IsSeq(objs) /\ objs' = Append(objs, x)
    BY DEF Structure, ObjsOK
  <1>2. /\ DOMAIN objs' = DOMAIN objs \cup {n} /\ n \notin DOMAIN objs
        /\ objs'[n] = x /\ \A o \in DOMAIN objs : objs'[o] = objs[o]
    <2>1. Len(objs) \in Nat /\ DOMAIN objs = 1..Len(objs) /\ DOMAIN objs' = 1..(Len(objs) + 1)
      BY ONLY <1>1, AppendFacts
    <2>2. objs'[n] = x /\ \A o \in DOMAIN objs : objs'[o] = objs[o]
      BY ONLY <1>1, AppendFacts, n = Len(objs) + 1
    <2> QED
      BY ONLY <2>1, <2>2, n = Len(objs) + 1
  <1>3. /\ DOMAIN auths' = DOMAIN auths \cup {t.id} /\ auths'[t.id] = n
        /\ \A id \in DOMAIN auths : auths'[id] = auths[id] /\ auths[id] \in DOMAIN objs
    BY DEF Structure, MapOK
  <1>4. Steady /\ Forward /\ HandedGrows /\ HandedOK'
    BY UnchangedDb, SteadyForward, HandedUnchanged, HandedStays DEF Agreement
  <1>5. /\ Known(t) /\ pc[l].su.user = t.user /\ t.id \notin Out
        /\ ~Storing(l) => t \in Tokens("share")
        /\ Storing(l) => Fresh(t)
    BY DEF Agreement, HandlersOK, HandlerOK, OutOK
  <1>6. ObjectsKeepIds
    BY <1>2 DEF ObjectsKeepIds
  <1>7. ObjectsOK'
    <2>1. x.token = t /\ x.su.user = t.user /\ Known(t)'
      BY <1>5 DEF Known, IdRange
    <2>2. ASSUME NEW o \in DOMAIN objs, NEW y, y = objs[o].token
          PROVE  Known(y)'
      <3>1. Known(y)
        BY <2>2 DEF Agreement, ObjectsOK
      <3> QED
        BY <1>4, <3>1, KnownStays DEF Agreement
    <2>3. ASSUME NEW o \in DOMAIN objs'
          PROVE  Known(objs[o].token)' /\ objs'[o].su.user = objs'[o].token.user
      <3>1. CASE o = n
        BY <1>2, <2>1, <3>1 DEF Known
      <3>2. CASE o \in DOMAIN objs
        <4> PICK y : y = objs[o].token
          OBVIOUS
        <4>1. objs'[o].token = y /\ Known(y)'
          BY <1>2, <2>2, <3>2 DEF Known
        <4>2. Known(objs[o].token)'
          BY <4>1 DEF Known
        <4> QED
          BY <1>2, <3>2, <4>2 DEF Agreement, ObjectsOK
      <3> QED
        BY <1>2, <3>1, <3>2
    <2> QED
      BY <2>3 DEF ObjectsOK
  <1>8. NumbersAgree'
    <2>1. t.id \in Ids(db) => t.n = db.rows[t.id].n \/ t \in Tokens("share")
      BY <1>5 DEF Fresh
    <2>2. Tokens("share")' = Tokens("share")
      BY DEF Tokens
    <2>3. /\ t \in Tokens("share") => OfLink(n)'
          /\ \A o \in DOMAIN objs : OfLink(o) => OfLink(o)'
      BY <1>2, <2>2 DEF OfLink
    <2> QED
      BY <1>2, <1>3, <2>1, <2>3 DEF Agreement, NumbersAgree
  <1>9. /\ RequestsOK'
        /\ \A s \in DOMAIN reqs' : reqs'[s].state # "spent" => s \in DOMAIN reqs /\ reqs'[s] = reqs[s]
        /\ \A m \in Loops \ {l} :
              pc[m].op # "rest" => pc[m].r \in DOMAIN reqs /\ reqs'[pc[m].r] = reqs[pc[m].r]
    <2>1. CASE UNCHANGED reqs
      BY <2>1 DEF Structure, StepsOK, Agreement, RequestsOK, RequestOK, Tokens
    <2>2. CASE Answer(pc[l].r)
      BY <2>2, AnswerKeepsRequests
    <2> QED
      BY <2>1, <2>2
  <1>10. /\ \A m \in Loops \ {l} : pc'[m] = pc[m]
         /\ pc'[l].op \in {"rest", "send"}
         /\ pc'[l].op = "send" => Storing(l) /\ pc'[l].obj = n
    BY DEF Structure, StepsOK, GoOn, Resting
  <1>11. HandlersOK'
    <2>1. \A m \in Loops \ {l} : HandlerStays(m)
      BY <1>9, <1>10 DEF HandlerStays
    <2>2. HandlerOK(l)' /\ ~(Storing(l))'
      <3>1. ~(Storing(l))'
        BY <1>10 DEF Storing
      <3> QED
        BY <1>10, <3>1 DEF HandlerOK
    <2>3. ASSUME NEW m \in Loops \ {l}, Storing(m)
          PROVE  Undisturbed(pc[m].token)
      <3> SUFFICES ASSUME pc[m].token.id \in Ids(db)
                   PROVE  pc[m].token.id # t.id \/ t.n < pc[m].token.n
        BY <1>2 DEF Undisturbed
      <3>1. CASE Storing(l)
        BY <2>3, <3>1 DEF Agreement, HandlersOK, HandlersDiffer
      <3>2. CASE ~Storing(l)
        <4>1. t \in Tokens("share") /\ t.n = 1
          BY <1>5, <3>2 DEF Agreement, HandedOK
        <4>2. pc[m].token.id \in SharedIds => pc[m].token.n > 1
          BY <2>3 DEF Agreement, HandlersOK, HandlerOK
        <4> QED
          BY <4>1, <4>2 DEF SharedIds
      <3> QED
        BY <3>1, <3>2
    <2> QED
      BY <1>4, <1>6, <2>1, <2>2, <2>3, OthersStay
  <1>12. OutOK'
    <2>1. Out' \subseteq Out
      BY <1>10 DEF Out
    <2>2. revoked' \cap DOMAIN auths' = {}
      BY <1>3, <1>5 DEF Agreement, OutOK, Out
    <2>3. Out' \subseteq IdRange' /\ Out' \cap Ids(db') = {}
      BY <2>1 DEF Agreement, OutOK, IdRange
    <2> QED
      BY <1>9, <1>10, <2>1, <2>2, <2>3 DEF Agreement, OutOK
  <1> QED
    BY <1>4, <1>7, <1>8, <1>9, <1>11, <1>12 DEF Agreement, Steady

LEMMA StoreAgrees ==
    ASSUME Structure, Agreement, NEW l \in Loops, Store(l)
    PROVE  Agreement'
  <1> PICK t : t = pc[l].token
    OBVIOUS
  <1>1. pc[l].op = "store" /\ UNCHANGED <<workers, handed, revoked>>
    BY DEF Store, hist
  <1>2. \/ /\ db' = db \/ db' = Destroy(db, t)
           /\ Answer(pc[l].r) /\ GoOn(l, Resting) /\ UNCHANGED <<auths, objs>>
        \/ /\ t.id \notin DOMAIN auths
           /\ Storing(l) \/ pc[l].su.user = t.user
           /\ objs' = Append(objs, [token |-> t, su |-> pc[l].su, timer |-> TRUE])
           /\ auths' = [i \in DOMAIN auths \cup {t.id} |->
                           IF i = t.id THEN Len(objs) + 1 ELSE auths[i]]
           /\ \/ Answer(pc[l].r) /\ GoOn(l, Resting)
              \/ /\ Storing(l) /\ UNCHANGED reqs
                 /\ GoOn(l, [op |-> "send", r |-> pc[l].r, obj |-> Len(objs) + 1])
           /\ UNCHANGED db
    BY DEF Store, Storing
  <1>3. ASSUME db' = db \/ db' = Destroy(db, t),
               Answer(pc[l].r), GoOn(l, Resting), UNCHANGED <<auths, objs>>
        PROVE  Agreement'
    <2>1. pc'[l].op = "rest" /\ \A m \in Loops \ {l} : pc'[m] = pc[m]
      BY <1>3 DEF Structure, StepsOK, GoOn, Resting
    <2>2. Steady /\ ObjectsKeepTokens /\ MapShrinks /\ Forward /\ ObjectsKeepIds
      BY <1>3, LesserFacts, SteadyForward
      DEF Agreement, ObjectsKeepTokens, MapShrinks, ObjectsKeepIds
    <2>3. /\ RequestsOK'
          /\ \A s \in DOMAIN reqs' : reqs'[s].state # "spent" => s \in DOMAIN reqs /\ reqs'[s] = reqs[s]
          /\ \A m \in Loops \ {l} : HandlerStays(m)
      BY <1>1, <1>3, <2>1, AnswerKeepsRequests DEF HandlerStays
    <2>4. HandlersOK'
      <3>1. \A m \in Loops : Storing(m) => Undisturbed(pc[m].token)
        <4> TAKE m \in Loops
        <4>1. Storing(m) => Known(pc[m].token)
          BY DEF Agreement, HandlersOK, HandlerOK, Storing
        <4> QED
          BY <2>2, <4>1, SteadyUndisturbed
      <3>2. HandlerOK(l)' /\ ~(Storing(l))'
        BY <2>1 DEF HandlerOK, Storing
      <3> QED
        BY <1>1, <2>2, <2>3, <3>1, <3>2, OthersStay, HandedUnchanged
    <2>5. OutOK'
      <3>1. Out' \subseteq Out
        BY <1>1, <2>1 DEF Out
      <3> QED
        BY <1>1, <1>3, <2>1, <2>2, <2>3, <3>1, OutStays DEF Agreement
    <2> QED
      BY <1>1, <2>2, <2>3, <2>4, <2>5, SteadyParts DEF Agreement
  <1> QED
    BY <1>1, <1>2, <1>3, MakeAgrees
-----------------------------------------------------------------------------
(* Agreement is kept: the results of the authenticator.                     *)

\* A result is about the request its loop is waiting to go on with.
LEMMA ResultTaken ==
    ASSUME Structure, Agreement, NEW r \in DOMAIN reqs, reqs[r].state = "result",
           NEW l, l = reqs[r].loop,
           workers' = [workers EXCEPT ![l] = [t |-> 0, cont |-> 0]],
           DOMAIN reqs' = DOMAIN reqs, reqs'[r].state = "spent",
           \A s \in DOMAIN reqs \ {r} : reqs'[s] = reqs[s],
           UNCHANGED handed, \A m \in Loops \ {l} : pc'[m] = pc[m]
    PROVE  /\ l \in Loops /\ RequestOK(r) /\ workers[l].cont = r /\ RequestsOK'
           /\ \A m \in Loops \ {l} : HandlerStays(m)
           /\ \A s \in DOMAIN reqs' : reqs'[s].state # "spent" => reqs'[s] = reqs[s]
           /\ pc[l].op # "rest" => pc[l].r # r /\ reqs'[pc[l].r] = reqs[pc[l].r]
  <1>1. RequestOK(r)
    BY DEF Agreement, RequestsOK
  <1>2. l \in Loops /\ workers[l].cont = r
    BY <1>1 DEF RequestOK
  <1>3. \A m \in Loops \ {l} : workers'[m] = workers[m]
    BY DEF Structure
  <1>4. Tokens("session")' = Tokens("session") /\ Tokens("share")' = Tokens("share")
    BY DEF Tokens
  <1>5. RequestsOK'
    <2> SUFFICES ASSUME NEW s \in DOMAIN reqs', reqs'[s].state \in {"asked", "result"}
                 PROVE  RequestOK(s)'
      BY DEF RequestsOK
    <2>1. s # r /\ reqs'[s] = reqs[s] /\ RequestOK(s)
      BY DEF Agreement, RequestsOK
    <2>2. reqs[s].loop # l
      BY <1>2, <2>1 DEF RequestOK
    <2> QED
      BY <1>3, <1>4, <2>1, <2>2 DEF RequestOK
  <1>6. \A m \in Loops : pc[m].op # "rest" =>
            pc[m].r \in DOMAIN reqs /\ pc[m].r # r /\ reqs'[pc[m].r] = reqs[pc[m].r]
    BY <1>2 DEF Structure, StepsOK
  <1> QED
    BY <1>1, <1>2, <1>5, <1>6 DEF HandlerStays

\* A loop that has taken the result of request r goes on to store or to send.
GoesOn(r, l) ==
    /\ DOMAIN reqs' = DOMAIN reqs /\ UNCHANGED <<handed, revoked>>
    /\ reqs[r].state = "result" /\ reqs[r].su # NoUser
    /\ l = reqs[r].loop /\ l \in Loops
    /\ RequestOK(r) /\ RequestsOK' /\ pc[l].op = "rest"
    /\ reqs'[r].kind = reqs[r].kind
    /\ \A m \in Loops \ {l} : HandlerStays(m)
    /\ \A s \in DOMAIN reqs' : reqs'[s].state # "spent" => reqs'[s] = reqs[s]

LEMMA GoesOnOut ==
    ASSUME Agreement, NEW r \in DOMAIN reqs, NEW l, GoesOn(r, l), Forward, UNCHANGED auths,
           pc'[l].op \in {"store", "send"},
           pc'[l].op = "store" => pc'[l].token.id \notin Out
    PROVE  OutOK'
  <1>1. Out' \subseteq Out
    BY DEF Out, GoesOn, HandlerStays
  <1>2. Out' \subseteq IdRange' /\ Out' \cap Ids(db') = {}
    BY <1>1 DEF Agreement, OutOK, Forward, DbOK, IdRange
  <1> QED
    BY <1>1, <1>2 DEF Agreement, OutOK, GoesOn, HandlerStays

\* A login, or a refresh that comes too late: a new token, of an id nobody knows.
LEMMA NewTokenAgrees ==
    ASSUME ~RowidsReused, Structure, Agreement, NEW r \in DOMAIN reqs, NEW l, GoesOn(r, l),
           reqs[r].kind # "share", NEW su, su = reqs[r].su,
           NEW d, d = Insert(db, su.user), db' = d, UNCHANGED <<objs, auths>>,
           pc'[l] = [op |-> "store", r |-> r, su |-> su, token |-> Token(d, NextId(db))]
    PROVE  Agreement'
  <1> PICK k : k = db.next
    OBVIOUS
  <1> PICK t : t = Token(d, NextId(db))
    OBVIOUS
  <1>0. DbOK /\ l \in Loops /\ UNCHANGED handed
    BY DEF Agreement, GoesOn
  <1>1. /\ Steady /\ NextId(db) = k /\ k \notin Ids(db) /\ Ids(db') = Ids(db) \cup {k}
        /\ db'.rows[k].user = su.user /\ db'.rows[k].n = 1 /\ db'.next = k + 1
    BY <1>0, InsertFacts
  <1>2. t.id = k /\ t.n = 1 /\ t.user = su.user
    BY <1>1 DEF Token
  <1>3. Forward /\ ObjectsKeepTokens /\ MapShrinks /\ ObjectsKeepIds /\ HandedGrows
    BY <1>0, <1>1, SteadyForward, HandedUnchanged
    DEF ObjectsKeepTokens, MapShrinks, ObjectsKeepIds
  <1>4. k \in IdRange' /\ k \notin IdRange
    BY <1>0, <1>1 DEF DbOK, IdRange
  <1>5. pc'[l].op = "store" /\ pc'[l].r = r /\ pc'[l].su = su /\ pc'[l].token = t
    OBVIOUS
  <1>6. /\ \A id \in DOMAIN auths : id \in IdRange
        /\ \A o \in DOMAIN objs : objs[o].token.id \in IdRange
        /\ \A p : \A s \in Tokens(p) : s.id \in IdRange
        /\ \A id \in SharedIds : id \in IdRange
    BY DEF Agreement, ObjectsOK, HandedOK, Known, Tokens, SharedIds, Structure, MapOK
  <1>7. HandlersOK'
    <2>1. HandlerOK(l)'
      <3>1. Known(t)'
        BY <1>1, <1>2, <1>4 DEF Known
      <3>2. Fresh(t)'
        BY <1>0, <1>1, <1>2, <1>4, <1>6 DEF Fresh, Tokens
      <3>3. (Known(pc[l].token))' /\ (Fresh(pc[l].token))'
        BY <1>5, <3>1, <3>2 DEF Known, Fresh
      <3>4. pc'[l].token.id \notin SharedIds'
        BY <1>0, <1>2, <1>4, <1>5, <1>6 DEF SharedIds, Tokens
      <3>5. (Storing(l))'
        BY <1>5 DEF Storing, GoesOn
      <3> QED
        BY <1>2, <1>5, <3>3, <3>4, <3>5 DEF HandlerOK
    <2>2. \A m \in Loops \ {l} : HandlerStays(m)
      BY DEF GoesOn
    <2>3. ASSUME NEW m \in Loops \ {l}, Storing(m)
          PROVE  Undisturbed(pc[m].token) /\ pc'[l].token.id # pc[m].token.id
      <3>1. Known(pc[m].token)
        BY <2>3 DEF Agreement, HandlersOK, HandlerOK, Storing
      <3> QED
        BY <1>1, <1>2, <1>3, <1>4, <1>5, <3>1, SteadyUndisturbed DEF Known
    <2> QED
      BY <1>0, <1>3, <2>1, <2>2, <2>3, OthersStay
  <1>8. OutOK'
    BY <1>2, <1>3, <1>4, <1>5, GoesOnOut DEF Agreement, OutOK
  <1>9. RequestsOK'
    BY DEF GoesOn
  <1> QED
    BY <1>0, <1>1, <1>3, <1>7, <1>8, <1>9, SteadyParts DEF Agreement

\* A refresh whose authorization is gone: the token is exchanged, for one that is
\* later than any that has been given out.
LEMMA ExchangeAgrees ==
    ASSUME Structure, Agreement, NEW r \in DOMAIN reqs, NEW l, GoesOn(r, l),
           reqs[r].kind = "refresh", NEW q, q = reqs[r].token, ~Found(q), CanRefresh(db, q),
           NEW su, su = reqs[r].su, db' = Refresh(db, q), UNCHANGED <<objs, auths>>,
           pc'[l] = [op |-> "store", r |-> r, su |-> su, token |-> Token(Refresh(db, q), q.id)]
    PROVE  Agreement'
  <1> PICK t : t = Token(Refresh(db, q), q.id)
    OBVIOUS
  <1>0. DbOK /\ l \in Loops /\ UNCHANGED handed
    BY DEF Agreement, GoesOn
  <1>1. /\ Forward /\ Ids(db') = Ids(db) /\ db'.next = db.next
        /\ q.id \in Ids(db) /\ q.n = db.rows[q.id].n /\ q.user = db.rows[q.id].user
        /\ db'.rows[q.id].n = db.rows[q.id].n + 1
        /\ \A id \in Ids(db) \ {q.id} : db'.rows[id] = db.rows[id]
        /\ \A id \in Ids(db) : db'.rows[id].user = db.rows[id].user
    BY <1>0, RefreshFacts
  <1>2. t.id = q.id /\ t.n = q.n + 1 /\ t.user = q.user
    BY <1>1 DEF Token
  <1>3. pc'[l].op = "store" /\ pc'[l].r = r /\ pc'[l].su = su /\ pc'[l].token = t
    OBVIOUS
  <1>4. q \in Tokens("session") \cup Tokens("share") /\ Known(q) /\ su.user = q.user
    <2>1. q \in Tokens("session") \cup Tokens("share") /\ su.user = q.user
      BY DEF GoesOn, RequestOK
    <2> QED
      BY <2>1 DEF Agreement, HandedOK, Tokens
  <1>5. q.id \in DOMAIN auths => OfLink(auths[q.id])
    BY <1>1 DEF Agreement, NumbersAgree, Found
  <1>6. /\ \A o \in DOMAIN objs : objs[o].token.id = q.id => objs[o].token.n < t.n
        /\ \A s \in Tokens("session") : s.id = q.id => s.n < t.n
    <2>1. ASSUME NEW s, Known(s), s.id = q.id PROVE s.n < t.n
      BY <1>0, <1>1, <1>2, <2>1 DEF Known, DbOK
    <2> QED
      BY <2>1 DEF Agreement, ObjectsOK, HandedOK, Tokens
  <1>7. /\ Tokens("session")' = Tokens("session") /\ Tokens("share")' = Tokens("share")
        /\ SharedIds' = SharedIds
    BY <1>0 DEF Tokens, SharedIds
  <1>8. HandedOK'
    <2>1. \A h \in handed : Known(h.token)'
      BY <1>0, <1>1, KnownStays DEF Agreement, HandedOK
    <2> QED
      BY <1>0, <1>7, <2>1 DEF Agreement, HandedOK
  <1>9. ObjectsOK' /\ NumbersAgree'
    <2>1. \A o \in DOMAIN objs : Known(objs[o].token)'
      <3> TAKE o \in DOMAIN objs
      <3> PICK y : y = objs[o].token
        OBVIOUS
      <3>1. Known(y)'
        BY <1>0, <1>1, KnownStays DEF Agreement, ObjectsOK
      <3> QED
        BY <3>1 DEF Known
    <2>2. \A o : OfLink(o)' <=> OfLink(o)
      BY <1>0, <1>7 DEF OfLink
    <2> QED
      BY <1>1, <1>5, <2>1, <2>2 DEF Agreement, ObjectsOK, NumbersAgree
  <1>10. HandlersOK'
    <2>1. HandlerOK(l)'
      <3>1. Known(t)'
        BY <1>1, <1>2, <1>4 DEF Known, IdRange
      <3>2. Fresh(t)'
        BY ZenonT(60), <1>1, <1>2, <1>6, <1>7 DEF Fresh
      <3>3. (Known(pc[l].token))' /\ (Fresh(pc[l].token))'
        BY <1>3, <3>1, <3>2 DEF Known, Fresh
      <3>4. (Storing(l))'
        BY <1>3 DEF Storing, GoesOn
      <3>5. t.n > 1
        BY <1>0, <1>1, <1>2 DEF DbOK
      <3> QED
        BY <1>2, <1>3, <1>4, <3>3, <3>4, <3>5 DEF HandlerOK
    <2>2. \A m \in Loops \ {l} : HandlerStays(m)
      BY DEF GoesOn
    <2>3. ASSUME NEW m \in Loops \ {l}, Storing(m)
          PROVE  Undisturbed(pc[m].token) /\ pc'[l].token.id # pc[m].token.id
      <3>1. pc[m].token.id # q.id
        <4>1. /\ Fresh(pc[m].token)
              /\ pc[m].token.id \in SharedIds => pc[m].token.n > 1
          BY <2>3 DEF Agreement, HandlersOK, HandlerOK
        <4>2. CASE q \in Tokens("session")
          BY <1>0, <1>1, <4>1, <4>2 DEF Fresh, DbOK
        <4>3. CASE q \in Tokens("share")
          <5> SUFFICES ASSUME pc[m].token.id = q.id PROVE FALSE
            OBVIOUS
          <5>1. q.n = 1 /\ q.id \in SharedIds
            BY <4>3 DEF Agreement, HandedOK, SharedIds
          <5>2. pc[m].token.n = q.n
            BY <1>1, <4>1 DEF Fresh
          <5>3. pc[m].token.n > 1
            BY <4>1, <5>1
          <5> QED
            BY ONLY <5>1, <5>2, <5>3
        <4> QED
          BY <1>4, <4>2, <4>3
      <3> QED
        BY <1>1, <1>2, <1>3, <3>1 DEF Undisturbed
    <2> QED
      BY <1>0, <1>1, <2>1, <2>2, <2>3, OthersStay, HandedUnchanged DEF ObjectsKeepIds
  <1>11. OutOK'
    BY <1>1, <1>2, <1>3, GoesOnOut DEF Agreement, OutOK
  <1>12. RequestsOK' /\ DbOK'
    BY <1>1 DEF GoesOn, Forward
  <1> QED
    BY <1>8, <1>9, <1>10, <1>11, <1>12 DEF Agreement

\* The token of a shared link is stored as it is.
LEMMA SharedLinkAgrees ==
    ASSUME Structure, Agreement, NEW r \in DOMAIN reqs, NEW l, GoesOn(r, l),
           reqs[r].kind = "share", NEW q, q = reqs[r].token,
           NEW su, UNCHANGED <<db, objs, auths>>,
           pc'[l] = [op |-> "store", r |-> r, su |-> su, token |-> q]
    PROVE  Agreement'
  <1>0. DbOK /\ l \in Loops /\ UNCHANGED handed
    BY DEF Agreement, GoesOn
  <1>1. Steady /\ Forward /\ ObjectsKeepTokens /\ MapShrinks /\ ObjectsKeepIds
    BY <1>0, UnchangedDb, SteadyForward DEF ObjectsKeepTokens, MapShrinks, ObjectsKeepIds
  <1>2. q \in Tokens("share") /\ Known(q) /\ q.id \notin Out
    BY DEF GoesOn, RequestOK, Agreement, OutOK, HandedOK, Tokens
  <1>3. pc'[l].op = "store" /\ pc'[l].r = r /\ pc'[l].token = q /\ ~(Storing(l))'
    BY DEF Storing, GoesOn
  <1>4. HandlerOK(l)'
    <2>1. Known(pc[l].token)'
      BY <1>2, <1>3 DEF Known, IdRange
    <2>2. Tokens("share")' = Tokens("share")
      BY <1>0 DEF Tokens
    <2> QED
      BY <1>2, <1>3, <2>1, <2>2 DEF HandlerOK
  <1>5. HandlersOK'
    <2>1. \A m \in Loops : Storing(m) => Undisturbed(pc[m].token)
      BY DEF Undisturbed
    <2>2. \A m \in Loops \ {l} : HandlerStays(m)
      BY DEF GoesOn
    <2> QED
      BY <1>0, <1>1, <1>3, <1>4, <2>1, <2>2, OthersStay, HandedUnchanged
  <1>6. OutOK' /\ RequestsOK'
    BY <1>1, <1>2, <1>3, GoesOnOut DEF GoesOn
  <1> QED
    BY <1>0, <1>1, <1>5, <1>6, SteadyParts DEF Agreement

\* A refresh whose authorization is there: its token is exchanged along with the row.
LEMMA RenewAgrees ==
    ASSUME Structure, Agreement, NEW r \in DOMAIN reqs, NEW l, GoesOn(r, l),
           reqs[r].kind = "refresh", reqs[r].token.id \in DOMAIN auths,
           NEW o, o = auths[reqs[r].token.id], UNCHANGED auths,
           CanRefresh(db, objs[o].token), db' = Refresh(db, objs[o].token),
           NEW x, objs' = [objs EXCEPT ![o] = x], x.su = reqs[r].su,
           x.token.id = objs[o].token.id, x.token.user = objs[o].token.user,
           x.token.n = objs[o].token.n + 1,
           pc'[l].op = "send", pc'[l].obj = o
    PROVE  Agreement'
  <1> PICK q : q = reqs[r].token
    OBVIOUS
  <1> PICK su : su = reqs[r].su
    OBVIOUS
  <1> PICK t : t = objs[o].token
    OBVIOUS
  <1> PICK y : y = x.token
    OBVIOUS
  <1>0. DbOK /\ l \in Loops /\ UNCHANGED handed
    BY DEF Agreement, GoesOn
  <1>1. o \in DOMAIN objs /\ t.id = q.id
    BY DEF Structure, MapOK
  <1>2. /\ Forward /\ Ids(db') = Ids(db) /\ db'.next = db.next
        /\ q.id \in Ids(db) /\ t.n = db.rows[q.id].n /\ t.user = db.rows[q.id].user
        /\ db'.rows[q.id].n = db.rows[q.id].n + 1
        /\ \A id \in Ids(db) \ {q.id} : db'.rows[id] = db.rows[id]
        /\ \A id \in Ids(db) : db'.rows[id].user = db.rows[id].user
    <2>1. /\ Forward /\ Ids(db') = Ids(db) /\ db'.next = db.next
          /\ t.id \in Ids(db) /\ t.n = db.rows[t.id].n /\ t.user = db.rows[t.id].user
          /\ db'.rows[t.id].n = db.rows[t.id].n + 1
          /\ \A id \in Ids(db) \ {t.id} : db'.rows[id] = db.rows[id]
          /\ \A id \in Ids(db) : db'.rows[id].user = db.rows[id].user
      <3>1. CanRefresh(db, t) /\ db' = Refresh(db, t)
        OBVIOUS
      <3> QED
        BY ONLY <1>0, <3>1, RefreshFacts
    <2> QED
      BY ONLY <1>1, <2>1
  <1>3. /\ DOMAIN objs' = DOMAIN objs /\ objs'[o] = x
        /\ \A p \in DOMAIN objs \ {o} : objs'[p] = objs[p]
    BY <1>1
  <1>4. y.id = q.id /\ y.n = t.n + 1 /\ y.user = t.user /\ x.su = su
    BY <1>1
  <1>5. Known(q) /\ su.user = q.user
    <2>1. q \in Tokens("session") \cup Tokens("share") /\ su.user = q.user
      BY DEF GoesOn, RequestOK
    <2> QED
      BY <2>1 DEF Agreement, HandedOK, Tokens
  <1>6. /\ Tokens("session")' = Tokens("session") /\ Tokens("share")' = Tokens("share")
        /\ SharedIds' = SharedIds
    BY <1>0 DEF Tokens, SharedIds
  <1>7. HandedOK'
    <2>1. HandedOK /\ DbOK
      BY DEF Agreement
    <2>2. \A h \in handed : Known(h.token)'
      BY <1>0, <1>2, <2>1, KnownStays DEF HandedOK
    <2> QED
      BY ONLY <1>0, <1>6, <2>1, <2>2 DEF HandedOK
  <1>8. ObjectsOK'
    <2>1. Known(y)' /\ su.user = y.user
      <3>1. Known(t) /\ su.user = t.user
        BY <1>1, <1>2, <1>5 DEF Agreement, ObjectsOK, Known
      <3> QED
        BY ONLY <1>0, <1>1, <1>2, <1>4, <3>1 DEF Known, IdRange
    <2>2. ASSUME NEW p \in DOMAIN objs'
          PROVE  Known(objs[p].token)' /\ objs'[p].su.user = objs'[p].token.user
      <3>1. CASE p = o
        BY <1>3, <1>4, <2>1, <3>1 DEF Known
      <3>2. CASE p # o
        <4> PICK z : z = objs[p].token
          OBVIOUS
        <4>1. Known(z)' /\ p \in DOMAIN objs
          BY <1>0, <1>2, <1>3, KnownStays DEF Agreement, ObjectsOK
        <4>2. objs'[p] = objs[p]
          BY <1>3, <3>2
        <4> QED
          BY <4>1, <4>2 DEF Known, Agreement, ObjectsOK
      <3> QED
        BY <3>1, <3>2
    <2> QED
      BY <2>2 DEF ObjectsOK
  <1>9. NumbersAgree'
    <2>1. \A id \in DOMAIN auths \ {q.id} : auths[id] # o /\ auths[id] \in DOMAIN objs
      BY <1>1 DEF Structure, MapOK
    <2>2. NumbersAgree /\ UNCHANGED auths /\ auths[q.id] = o
      BY DEF Agreement
    <2>3. \A p \in DOMAIN objs \ {o} : OfLink(p)' <=> OfLink(p)
      BY ONLY <1>3, <1>6 DEF OfLink
    <2> QED
      BY ONLY <1>2, <1>3, <1>4, <2>1, <2>2, <2>3, y = x.token DEF NumbersAgree
  <1>10. HandlersOK'
    <2>1. ObjectsKeepIds
      BY <1>1, <1>3, <1>4 DEF ObjectsKeepIds
    <2>2. HandlerOK(l)' /\ ~(Storing(l))'
      BY DEF HandlerOK, Storing
    <2>3. \A m \in Loops \ {l} : HandlerStays(m)
      BY DEF GoesOn
    <2>4. ASSUME NEW m \in Loops \ {l}, Storing(m)
          PROVE  Undisturbed(pc[m].token)
      <3>1. Fresh(pc[m].token)
        BY <2>4 DEF Agreement, HandlersOK, HandlerOK
      <3>2. pc[m].token.id # q.id
        <4>1. pc[m].token.id = q.id => t.n = pc[m].token.n /\ t.n < pc[m].token.n
          BY <1>1, <1>2, <3>1 DEF Fresh
        <4>2. t.n \in Nat
          BY <1>1 DEF Agreement, ObjectsOK, Known
        <4> QED
          BY <4>1, <4>2
      <3> QED
        BY <1>1, <1>2, <1>3, <1>4, <3>2 DEF Undisturbed
    <2> QED
      BY <1>0, <1>2, <2>1, <2>2, <2>3, <2>4, OthersStay, HandedUnchanged
  <1>11. OutOK' /\ RequestsOK' /\ DbOK'
    BY <1>2, GoesOnOut DEF GoesOn, Forward
  <1> QED
    BY <1>7, <1>8, <1>9, <1>10, <1>11 DEF Agreement

\* A refresh whose authorization is there, and cannot be exchanged: it expires.
LEMMA ExpiredAgrees ==
    ASSUME Structure, Agreement, NEW r \in DOMAIN reqs, NEW l, GoesOn(r, l),
           reqs[r].kind = "refresh", reqs[r].token.id \in DOMAIN auths,
           NEW o, o = auths[reqs[r].token.id], Expire(o), UNCHANGED <<db, auths>>,
           pc'[l] = [op |-> "send", r |-> r, obj |-> o]
    PROVE  Agreement'
  <1>0. DbOK /\ l \in Loops /\ UNCHANGED handed
    BY DEF Agreement, GoesOn
  <1>1. o \in DOMAIN objs /\ objs[o].token.id = reqs[r].token.id
    BY DEF Structure, MapOK
  <1>2. ObjectsKeepTokens /\ MapShrinks /\ Steady /\ Forward
    BY <1>0, <1>1, ExpireFacts, UnchangedDb, SteadyForward DEF ObjectsKeepTokens, MapShrinks
  <1>4. HandlersOK'
    <2>1. HandlerOK(l)' /\ ~(Storing(l))'
      <3>1. pc'[l].op = "send" /\ pc'[l].obj = o
        OBVIOUS
      <3> QED
        BY <3>1 DEF HandlerOK, Storing
    <2>2. \A m \in Loops \ {l} : HandlerStays(m)
      BY DEF GoesOn
    <2>3. \A m \in Loops : Storing(m) => Undisturbed(pc[m].token)
      <3> TAKE m \in Loops
      <3>1. Storing(m) => Known(pc[m].token)
        BY DEF Agreement, HandlersOK, HandlerOK, Storing
      <3> QED
        BY <1>2, <3>1, SteadyUndisturbed
    <2>4. ObjectsKeepIds
      BY <1>2 DEF ObjectsKeepIds, ObjectsKeepTokens
    <2> QED
      BY <1>0, <1>2, <2>1, <2>2, <2>3, <2>4, OthersStay, HandedUnchanged
  <1>5. OutOK' /\ RequestsOK'
    BY <1>2, GoesOnOut DEF GoesOn
  <1> QED
    BY <1>0, <1>2, <1>4, <1>5, SteadyParts DEF Agreement

LEMMA OnAuthResultAgrees ==
    ASSUME ~RowidsReused, Structure, Agreement, NEW r \in DOMAIN reqs, OnAuthResult(r)
    PROVE  Agreement'
  <1> PICK l : l = reqs[r].loop
    OBVIOUS
  <1> PICK u : u = Spent(reqs[r])
    OBVIOUS
  <1> PICK spent : spent = [reqs EXCEPT ![r] = u]
    OBVIOUS
  <1> PICK su : su = reqs[r].su
    OBVIOUS
  <1>1. /\ Idle(l) /\ reqs[r].state = "result"
        /\ workers' = [workers EXCEPT ![l] = [t |-> 0, cont |-> 0]]
        /\ UNCHANGED <<handed, revoked>>
    BY DEF OnAuthResult, hist, Crash
  <1>2. DOMAIN reqs[r] = ReqFields /\ RequestOK(r)
    BY <1>1 DEF Structure, ReqsOK, Agreement, RequestsOK
  <1>3. l \in Loops /\ workers[l].cont = r /\ workers[l].t \in {0, r} /\ r # 0
    BY <1>2, SeqDomain DEF RequestOK, Structure, WorkersOK, ReqsOK
  <1>4. DOMAIN u = ReqFields /\ u.state = "spent" /\ u.kind = reqs[r].kind
    BY <1>2, SpentFacts
  <1>5. spent = [reqs EXCEPT ![r].state = "spent", ![r].su = NoUser, ![r].token = NoToken]
    BY DEF Spent
  <1>6. /\ DOMAIN spent = DOMAIN reqs /\ spent[r] = u
        /\ \A s \in DOMAIN reqs \ {r} : spent[s] = reqs[s]
    OBVIOUS
  <1>7. pc[l].op = "rest"
    BY <1>1, <1>3 DEF Idle, Resting
  <1>8. \/ reqs' = [spent EXCEPT ![r] = Closed] /\ UNCHANGED <<db, objs, auths, pc>>
        \/ su # NoUser /\ reqs' = spent /\ Continue(l, r, su)
    <2>1. \/ reqs' = [spent EXCEPT ![workers[l].t] = Closed] /\ workers[l].t # 0
             /\ UNCHANGED <<db, pc>> /\ UNCHANGED web
          \/ reqs' = [spent EXCEPT ![workers[l].cont] = Closed]
             /\ UNCHANGED <<db, pc>> /\ UNCHANGED web
          \/ su # NoUser /\ reqs' = spent /\ Continue(l, workers[l].cont, su)
      BY <1>3, <1>5 DEF OnAuthResult, Continue
    <2> QED
      BY <1>3, <2>1 DEF web, Continue
  <1>9. CASE reqs' = [spent EXCEPT ![r] = Closed] /\ UNCHANGED <<db, objs, auths, pc>>
    <2>1. DOMAIN reqs' = DOMAIN reqs /\ reqs'[r].state = "spent"
          /\ \A s \in DOMAIN reqs \ {r} : reqs'[s] = reqs[s]
      BY <1>6, <1>9, RequestFields
    <2>2. /\ RequestsOK' /\ \A m \in Loops \ {l} : HandlerStays(m)
          /\ \A s \in DOMAIN reqs' : reqs'[s].state # "spent" => reqs'[s] = reqs[s]
      BY <1>1, <1>9, <2>1, ResultTaken
    <2>3. Steady /\ ObjectsKeepTokens /\ MapShrinks /\ Forward
      BY <1>9, UnchangedDb, SteadyForward DEF Agreement, ObjectsKeepTokens, MapShrinks
    <2>4. HandlersOK'
      <3>1. \A m \in Loops : HandlerStays(m)
        BY <1>7, <1>9, <2>2 DEF HandlerStays
      <3> QED
        BY <1>1, <2>3, <3>1, AllStay
    <2>5. OutOK'
      <3>1. Out' = Out
        BY <1>1, <1>9 DEF Out
      <3> QED
        BY <1>1, <1>9, <2>1, <2>2, <2>3, <3>1, OutStays DEF Agreement
    <2> QED
      BY <1>1, <2>2, <2>3, <2>4, <2>5, SteadyParts DEF Agreement
  <1>10. CASE su # NoUser /\ reqs' = spent /\ Continue(l, r, su)
    <2> PICK q : q = reqs[r].token
      OBVIOUS
    <2>1. DOMAIN pc = Loops
      BY DEF Structure, StepsOK
    <2>2. \A m \in Loops \ {l} : pc'[m] = pc[m]
      <3>1. Waiting(l, r)
        BY <1>2 DEF Waiting, RequestOK
      <3>2. \E step : GoOn(l, step)
        BY <1>3, <1>10, <3>1, ContinueFacts
      <3> QED
        BY <2>1, <3>2 DEF GoOn
    <2>3. GoesOn(r, l)
      <3>1. /\ RequestsOK' /\ \A m \in Loops \ {l} : HandlerStays(m)
            /\ \A s \in DOMAIN reqs' : reqs'[s].state # "spent" => reqs'[s] = reqs[s]
        BY <1>1, <1>4, <1>6, <1>10, <2>2, ResultTaken
      <3> QED
        BY <1>1, <1>2, <1>3, <1>4, <1>6, <1>7, <1>10, <3>1 DEF GoesOn
    <2>4. reqs[r].kind \in Kinds
      BY <1>2 DEF RequestOK
    <2>5. CASE reqs[r].kind = "share"
      <3>1. /\ UNCHANGED <<db, objs, auths>>
            /\ pc'[l] = [op |-> "store", r |-> r, su |-> su, token |-> q]
        BY <1>3, <1>10, <2>1, <2>5 DEF Continue, GoOn, web
      <3> QED
        BY <2>3, <2>5, <3>1, SharedLinkAgrees
    <2>6. CASE reqs[r].kind = "refresh" /\ Found(q)
      <3> PICK o : o = auths[q.id]
        OBVIOUS
      <3>1. /\ SetSessionUser(o, su) /\ UNCHANGED auths /\ q.id \in DOMAIN auths
            /\ pc'[l] = [op |-> "send", r |-> r, obj |-> o]
        <4>1. /\ SetSessionUser(auths[q.id], su) /\ UNCHANGED auths
              /\ GoOn(l, [op |-> "send", r |-> r, obj |-> auths[q.id]])
          BY <1>10, <2>6 DEF Continue
        <4>2. SetSessionUser(o, su)
          BY <4>1 DEF SetSessionUser, Expire
        <4>3. pc'[l] = [op |-> "send", r |-> r, obj |-> o]
          BY <1>3, <2>1, <4>1 DEF GoOn
        <4> QED
          BY <2>6, <4>1, <4>2, <4>3 DEF Found
      <3>2. CASE CanRefresh(db, objs[o].token)
        <4> PICK t : t = objs[o].token
          OBVIOUS
        <4> PICK y : y = Token(Refresh(db, t), t.id)
          OBVIOUS
        <4> PICK x : x = [token |-> y, su |-> su, timer |-> TRUE]
          OBVIOUS
        <4>1. CanRefresh(db, t) /\ db' = Refresh(db, t) /\ objs' = [objs EXCEPT ![o] = x]
          BY <3>1, <3>2 DEF SetSessionUser
        <4>2. /\ t.id \in Ids(db) /\ t.n = db.rows[t.id].n /\ t.user = db.rows[t.id].user
              /\ db'.rows[t.id].n = db.rows[t.id].n + 1
              /\ \A id \in Ids(db) : db'.rows[id].user = db.rows[id].user
          BY <4>1, RefreshFacts DEF Agreement
        <4>3. y.id = t.id /\ y.n = t.n + 1 /\ y.user = t.user /\ y = x.token /\ x.su = su
          BY <4>1, <4>2 DEF Token
        <4>4. /\ CanRefresh(db, objs[o].token) /\ db' = Refresh(db, objs[o].token)
              /\ x.token.id = objs[o].token.id /\ x.token.user = objs[o].token.user
              /\ x.token.n = objs[o].token.n + 1 /\ x.su = reqs[r].su
          BY <4>1, <4>3
        <4>5. /\ pc'[l].op = "send" /\ pc'[l].obj = o /\ UNCHANGED auths
              /\ reqs[r].token.id \in DOMAIN auths /\ o = auths[reqs[r].token.id]
              /\ reqs[r].kind = "refresh" /\ objs' = [objs EXCEPT ![o] = x]
          BY SMTT(30), <2>6, <3>1, <4>1
        <4> QED
          BY ONLY <2>3, <4>4, <4>5, RenewAgrees, Structure, Agreement, r \in DOMAIN reqs
      <3>3. CASE ~CanRefresh(db, objs[o].token)
        BY <2>3, <2>6, <3>1, <3>3, ExpiredAgrees DEF SetSessionUser
      <3> QED
        BY <3>2, <3>3
    <2>7. CASE reqs[r].kind = "refresh" /\ ~Found(q) /\ CanRefresh(db, q)
      <3>1. /\ db' = Refresh(db, q) /\ UNCHANGED <<objs, auths>>
            /\ pc'[l] = [op |-> "store", r |-> r, su |-> su,
                         token |-> Token(Refresh(db, q), q.id)]
        BY <1>3, <1>10, <2>1, <2>7 DEF Continue, GoOn, web
      <3> QED
        BY <2>3, <2>7, <3>1, ExchangeAgrees
    <2>8. CASE \/ reqs[r].kind = "login"
               \/ reqs[r].kind = "refresh" /\ ~Found(q) /\ ~CanRefresh(db, q)
      <3> PICK d : d = Insert(db, su.user)
        OBVIOUS
      <3>1. /\ db' = d /\ UNCHANGED <<objs, auths>>
            /\ pc'[l] = [op |-> "store", r |-> r, su |-> su, token |-> Token(d, NextId(db))]
        BY <1>3, <1>10, <2>1, <2>8 DEF Continue, GoOn, web
      <3> QED
        BY <2>3, <2>8, <3>1, NewTokenAgrees
    <2> QED
      BY <2>4, <2>5, <2>6, <2>7, <2>8 DEF Kinds
  <1> QED
    BY <1>8, <1>9, <1>10

-----------------------------------------------------------------------------
(* Agreement holds.                                                         *)

LEMMA AgreementInit == Init => Agreement
  <1> SUFFICES ASSUME Init PROVE Agreement
    OBVIOUS
  <1>1. DOMAIN reqs = {} /\ DOMAIN objs = {} /\ DOMAIN auths = {} /\ handed = {} /\ revoked = {}
    BY DEF Init
  <1>2. DbOK
    BY DEF Init, EmptyDb, DbOK, Ids
  <1>3. \A l \in Loops : pc[l].op = "rest"
    BY DEF Init, Resting
  <1>4. HandedOK
    BY <1>1 DEF HandedOK, Tokens, SharedIds
  <1> QED
    BY <1>1, <1>2, <1>3, <1>4
    DEF Agreement, ObjectsOK, RequestsOK, HandlersOK, HandlersDiffer, HandlerOK, Storing,
        NumbersAgree, OutOK, Out

LEMMA AgreementStep ==
    ASSUME ~RowidsReused, ~Overlap, Structure, Agreement, [Next]_vars
    PROVE  Agreement'
  <1>1. ASSUME NEW l \in Loops, Requests(l)
        PROVE  Agreement'
    <2>1. CASE Login(l)
      BY <2>1, AskAgrees DEF Login, Kinds
    <2>2. CASE DoRefresh(l)
      <3> PICK h \in handed : Ask("refresh", l, h.token, h.token.user)
        BY <2>2 DEF DoRefresh
      <3> PICK t : t = h.token
        OBVIOUS
      <3>1. t \in Tokens("session") \cup Tokens("share")
        BY DEF Agreement, HandedOK, Tokens
      <3> QED
        BY <3>1, AskAgrees DEF Kinds
    <2>3. CASE Share(l)
      BY <2>3, AskAgrees DEF Share, Kinds
    <2> QED
      BY <1>1, <2>1, <2>2, <2>3, CreateShareAgrees, RevokeAgrees DEF Requests
  <1>2. ASSUME NEW l \in Loops, Handler(l)
        PROVE  Agreement'
    BY <1>2, StoreAgrees, SendAgrees, EraseRevokedAgrees DEF Handler
  <1>3. ASSUME NEW r \in DOMAIN reqs, AuthDone(r) \/ OnAuthResult(r)
        PROVE  Agreement'
    BY <1>3, AuthDoneAgrees, OnAuthResultAgrees
  <1> QED
    BY <1>1, <1>2, <1>3, QuietActions DEF Next

LEMMA AgreementHolds == ASSUME ~RowidsReused, ~Overlap PROVE Spec => []Agreement
  <1>1. Structure /\ Agreement /\ [Next]_vars => Agreement'
    BY AgreementStep
  <1> QED
    BY AgreementInit, StructureHolds, <1>1, PTL DEF Spec

\* An authorization belongs to the user of its row, and is at its number or was made
\* for a shared link, with the token of the link: so it is as long as each loop
\* authenticates one request at a time and the ids of rows that are gone are not used
\* again, as those of the data base in memory are not (set_session_user(),
\* make_authorization(), do_token_refresh(), refresh() of the token manager).
THEOREM AuthorizationsFollowRows ==
    ASSUME ~RowidsReused, ~Overlap
    PROVE  Spec => []AuthorizationsAgree
  <1>1. ASSUME Structure, Agreement PROVE AuthorizationsAgree
    BY <1>1 DEF Structure, MapOK, Agreement, ObjectsOK, NumbersAgree, Known, AuthorizationsAgree
  <1> QED
    BY <1>1, StructureHolds, AgreementHolds, PTL

\* What is revoked while nobody is using it stays out, for every number of loops,
\* users and requests: no refresh, login or shared link brings its authorization back
\* (do_revoke(), make_authorization()).
THEOREM RevokedStaysOut ==
    ASSUME ~RowidsReused, ~Overlap
    PROVE  Spec => []RevokedIsOut
  <1>1. Agreement => RevokedIsOut
    BY DEF Agreement, OutOK, RevokedIsOut
  <1> QED
    BY <1>1, AgreementHolds, PTL
=============================================================================
