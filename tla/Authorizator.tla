---------------------------- MODULE Authorizator ----------------------------
(***************************************************************************)
(* The authorizations of the web interface (http/handlers/authorizator.cpp *)
(* and authorizator/authorization.cpp), with the shared links that use     *)
(* them (authorized_file_sharer.cpp), over the manager of the tokens.      *)
(*                                                                         *)
(* Requests run on the loops of their sessions, which may be threads of    *)
(* their own; the authorizations live on the main loop, where their timers *)
(* fire, their users change and they are erased.  A handler is one step    *)
(* for each section it runs under mutex_: what it does next is in pc.  An  *)
(* authorization is an object of its own, which queued events and the      *)
(* handler that sends its tokens refer to without owning it.               *)
(***************************************************************************)
EXTENDS TokenManager, Sequences, SequencesExt

CONSTANTS
    Main, Loops,    \* the main loop, and the loops of the sessions
    MaxEvents,      \* bound on the requests of all clients, users removed,
                    \* tokens that get too old and resets
    Overlap         \* two requests of a loop may be authenticated at once

ASSUME LoopsAssumption  == Loops # {}
ASSUME BoundsAssumption == MaxEvents \in Nat
ASSUME ModesAssumption  == Overlap \in BOOLEAN

VARIABLES
    db,       \* of the token manager
    objs,     \* the authorizations ever made, see Set
    auths,    \* authorizations_: the object of an id
    expired,  \* expired events on their way to the authorizator, by object
    changed,  \* objects that a shared_user_changed event is on its way to
    reqs,     \* the requests, see Request
    workers,  \* of each loop: t and continuation, a request or 0
    pc,       \* what the handler that runs on a loop does next
    gen,      \* the number of a user's shared user, to tell old from new
    gone,     \* shared users whose id is empty
    unsaid,   \* of these, the ones whose holders have not been notified
    handed,   \* history: the refresh tokens given out, and for what
    revoked,  \* history: ids revoked while nobody was using them
    replayed, \* history: ids of which an exchanged token has been presented
    crashed

vars == <<db, objs, auths, expired, changed, reqs, workers, pc, gen, gone, unsaid,
          handed, revoked, replayed, crashed>>

web   == <<objs, auths, expired, changed>>
users == <<gen, gone, unsaid>>
hist  == <<handed, revoked, replayed, crashed>>

NoUser  == [user |-> Nobody, gen |-> 0]
Resting == [op |-> "rest"]

Idle(l) == (l \in Loops => pc[l] = Resting) /\ ~crashed

Alive(o) == \E id \in DOMAIN auths : auths[id] = o

Init ==
    /\ db = EmptyDb
    /\ objs = <<>> /\ auths = <<>> /\ expired = <<>> /\ changed = {}
    /\ reqs = <<>> /\ workers = [l \in Loops |-> [t |-> 0, cont |-> 0]]
    /\ pc = [l \in Loops |-> Resting]
    /\ gen = [u \in Users |-> 1] /\ gone = {} /\ unsaid = {}
    /\ handed = {} /\ revoked = {} /\ replayed = {} /\ crashed = FALSE

-----------------------------------------------------------------------------
(* Requests.                                                               *)

Request(kind, l, token, user) ==
    [kind |-> kind, loop |-> l, token |-> token, user |-> user,
     state |-> "asked", su |-> NoUser, answered |-> FALSE]

(* What is left of a request that has been answered.                       *)
Closed == [Request("closed", Main, NoToken, Nobody) EXCEPT !.state = "spent", !.answered = TRUE]

Pending(l) == \E r \in DOMAIN reqs : reqs[r].loop = l /\ reqs[r].state \in {"asked", "result"}

More == Len(reqs) + Cardinality(gone) + (db.key - 1) + Cardinality({id \in Ids(db) : db.rows[id].old})
            < MaxEvents

Room(l) == Idle(l) /\ More

(* worker::authenticate; a request for a share has no transaction          *)
Ask(kind, l, token, user) ==
    /\ Room(l) /\ (Overlap \/ ~Pending(l))
    /\ reqs' = Append(reqs, Request(kind, l, token, user))
    /\ workers' = [workers EXCEPT ![l] =
                       [t |-> IF kind = "share" THEN 0 ELSE Len(reqs) + 1, cont |-> Len(reqs) + 1]]
    /\ UNCHANGED <<db, pc>> /\ UNCHANGED <<web, users, hist>>

Decrypts(token) == token.key = db.key

(* get_authorization: the one of the id, if it is at the same number       *)
Found(token) == token.id \in DOMAIN auths /\ objs[auths[token.id]].token.n = token.n

Grants(token) ==
    /\ Found(token)
    /\ LET o == objs[auths[token.id]] IN o.timer /\ o.su \notin gone

Tokens(purpose) == {h.token : h \in {h \in handed : h.purpose = purpose}}

Login(l) == \E u \in Users : Ask("login", l, NoToken, u)

(* do_token_refresh: by the token of a session or of a share, which are    *)
(* encrypted with the same key; what follows a share's is not looked at.   *)
DoRefresh(l) ==
    \E h \in handed : Decrypts(h.token) /\ Ask("refresh", l, h.token, h.token.user)

(* authorize: at once if there is an authorization                         *)
Share(l) ==
    \E t \in Tokens("share") :
        /\ Decrypts(t) /\ ~Grants(t)
        /\ Ask("share", l, t, t.user)

(* do_create of authorized_file_sharer                                     *)
CreateShare(l) ==
    /\ Room(l)
    /\ \E t \in Tokens("session") :
        /\ Grants(t)
        /\ LET id == NextId(db)
               d  == Insert(db, objs[auths[t.id]].su.user)
           IN db' = d /\ handed' = handed \cup {[token |-> Token(d, id), purpose |-> "share"]}
        /\ reqs' = Append(reqs, Closed)
    /\ UNCHANGED <<workers, pc, revoked, replayed, crashed>> /\ UNCHANGED <<web, users>>

(* Nobody who has shown a token of this id to the token manager is still   *)
(* to use the result.                                                      *)
InUse(id) ==
    \/ \E r \in DOMAIN reqs : /\ reqs[r].state = "result" /\ reqs[r].su # NoUser
                              /\ reqs[r].token.id = id
    \/ \E l \in Loops : pc[l].op = "store" /\ pc[l].token.id = id

(* do_revoke: by a refresh token, of a session or a share, or by an access *)
(* token; then the authorization is erased.                                *)
Revoke(l) ==
    /\ Room(l)
    /\ \E h \in handed, access \in BOOLEAN :
        LET t == h.token IN
        /\ access \/ Decrypts(t)
        /\ db' = IF access THEN db ELSE Destroy(db, t)
        /\ pc' = [pc EXCEPT ![l] = [op |-> "erase", id |-> t.id, r |-> Len(reqs) + 1,
                                    out |-> ~access /\ t.id \in Ids(db) /\ ~InUse(t.id)]]
        /\ reqs' = Append(reqs, [Request("revoke", l, t, t.user) EXCEPT !.state = "spent"])
    /\ UNCHANGED workers /\ UNCHANGED <<web, users, hist>>

-----------------------------------------------------------------------------
(* The authorizations.                                                     *)

(* The destructor takes with it the events for the object, not the ones it *)
(* has sent.                                                               *)
\* mutated form: the destructor leaves the events for the object as well
EraseAlone(id) ==
    auths' = Restrict(auths, DOMAIN auths \ {id}) /\ UNCHANGED changed

Erase(id) ==
    /\ auths' = Restrict(auths, DOMAIN auths \ {id})
    /\ changed' = changed \ {o \in changed : id \in DOMAIN auths /\ auths[id] = o}

\* mutated form: the timer is stopped, and that is all
ExpireSilently(o) ==
    objs' = [objs EXCEPT ![o].timer = FALSE] /\ UNCHANGED expired

Expire(o) ==
    /\ objs' = [objs EXCEPT ![o].timer = FALSE]
    /\ expired' = Append(expired, o)

(* set_session_user: the token is exchanged and the timer starts again     *)
SetSessionUser(o, su) ==
    IF CanRefresh(db, objs[o].token)
    THEN LET d == Refresh(db, objs[o].token)
         IN /\ db' = d
            /\ objs' = [objs EXCEPT ![o] = [token |-> Token(d, @.token.id), su |-> su, timer |-> TRUE]]
            /\ UNCHANGED expired
    ELSE Expire(o) /\ UNCHANGED db

OnTimer(o) ==
    /\ Idle(Main) /\ Alive(o) /\ objs[o].timer
    /\ Expire(o)
    /\ UNCHANGED <<db, auths, changed, reqs, workers, pc>> /\ UNCHANGED <<users, hist>>

OnUserChanged(o) ==
    /\ Idle(Main) /\ o \in changed
    /\ changed' = changed \ {o}
    /\ expired' = IF objs[o].su \in gone THEN Append(expired, o) ELSE expired
    /\ UNCHANGED <<db, objs, auths, reqs, workers, pc>> /\ UNCHANGED <<users, hist>>

Crash == crashed' = TRUE /\ UNCHANGED <<handed, revoked, replayed>>

(* The expired event: the object it refers to may be gone, or its memory   *)
(* still tell the id.                                                      *)
OnExpired ==
    /\ Idle(Main) /\ expired # <<>>
    /\ expired' = Tail(expired)
    /\ LET o == Head(expired)
       IN \/ Erase(objs[o].token.id) /\ UNCHANGED hist
          \/ ~Alive(o) /\ Crash /\ UNCHANGED <<auths, changed>>
    /\ UNCHANGED <<db, objs, reqs, workers, pc>> /\ UNCHANGED users

-----------------------------------------------------------------------------
(* Authentication.                                                         *)

Answer(r) == reqs' = [reqs EXCEPT ![r] = Closed]

(* The authenticator: a password may be wrong, a token is verified.        *)
AuthDone(r) ==
    /\ Idle(Main) /\ reqs[r].state = "asked"
    /\ LET q == reqs[r]
           t == q.token
           login == q.kind = "login"
           su    == [user |-> q.user, gen |-> gen[q.user]]
       IN /\ \E ok \in (IF login THEN BOOLEAN ELSE {Verifies(db, t)}) :
                reqs' = [reqs EXCEPT ![r].state = "result", ![r].su = IF ok THEN su ELSE NoUser]
          /\ db' = IF login THEN db ELSE AfterVerify(db, t)
          /\ replayed' = IF ~login /\ Stale(db, t) THEN replayed \cup {t.id} ELSE replayed
    /\ UNCHANGED <<workers, pc, handed, revoked, crashed>> /\ UNCHANGED <<web, users>>

GoOn(l, step) == pc' = [pc EXCEPT ![l] = step]

(* The continuation of request r, with the user su.                        *)
Continue(l, r, su) ==
    LET q  == reqs[r]
        id == NextId(db)
        d  == Insert(db, su.user)
        made == /\ db' = d
                /\ GoOn(l, [op |-> "store", r |-> r, su |-> su, token |-> Token(d, id)])
    IN CASE q.kind = "login" -> made /\ UNCHANGED web
         [] q.kind = "share" -> /\ GoOn(l, [op |-> "store", r |-> r, su |-> su, token |-> q.token])
                                /\ UNCHANGED db /\ UNCHANGED web
         [] q.kind = "refresh" /\ Found(q.token) ->
                LET o == auths[q.token.id]
                IN /\ SetSessionUser(o, su)
                   /\ GoOn(l, [op |-> "send", r |-> r, obj |-> o])
                   /\ UNCHANGED <<auths, changed>>
         [] q.kind = "refresh" /\ ~Found(q.token) ->
                /\ UNCHANGED web
                /\ IF CanRefresh(db, q.token)
                   THEN /\ db' = Refresh(db, q.token)
                        /\ GoOn(l, [op |-> "store", r |-> r, su |-> su,
                                    token |-> Token(Refresh(db, q.token), q.token.id)])
                   ELSE made

OnAuthResult(r) ==
    LET l  == reqs[r].loop
        w  == workers[l]
        su == reqs[r].su
        spent == [reqs EXCEPT ![r].state = "spent", ![r].su = NoUser, ![r].token = NoToken]
    IN /\ Idle(l) /\ reqs[r].state = "result"
       /\ workers' = [workers EXCEPT ![l] = [t |-> 0, cont |-> 0]]
       /\ \/ /\ su = NoUser /\ w.t # 0                         \* 401
             /\ reqs' = [spent EXCEPT ![w.t] = Closed]
             /\ UNCHANGED <<db, pc>> /\ UNCHANGED <<web, hist>>
          \/ /\ (su # NoUser \/ w.t = 0) /\ w.cont = 0         \* bad_function_call
             /\ reqs' = spent /\ Crash
             /\ UNCHANGED <<db, pc>> /\ UNCHANGED web
          \/ /\ su = NoUser /\ w.t = 0 /\ w.cont # 0           \* 403
             /\ reqs' = [spent EXCEPT ![w.cont] = Closed]
             /\ UNCHANGED <<db, pc>> /\ UNCHANGED <<web, hist>>
          \/ /\ su # NoUser /\ w.cont # 0
             /\ reqs' = spent /\ Continue(l, w.cont, su) /\ UNCHANGED hist
       /\ UNCHANGED users

(* make_authorization: what is made or destroyed under mutex_              *)
Store(l) ==
    /\ ~crashed /\ pc[l].op = "store"
    /\ LET s  == pc[l]
           id == s.token.id
           o  == Len(objs) + 1
           share == reqs[s.r].kind = "share"
       IN IF share /\ s.su.user # s.token.user
          THEN Answer(s.r) /\ GoOn(l, Resting) /\ UNCHANGED <<db, auths, objs>>
          ELSE IF id \in DOMAIN auths
          THEN /\ db' = Destroy(db, s.token)
               /\ Answer(s.r) /\ GoOn(l, Resting) /\ UNCHANGED <<auths, objs>>
          ELSE /\ objs' = Append(objs, [token |-> s.token, su |-> s.su, timer |-> TRUE])
               /\ auths' = [i \in DOMAIN auths \cup {id} |-> IF i = id THEN o ELSE auths[i]]
               /\ UNCHANGED db
               /\ IF share THEN Answer(s.r) /\ GoOn(l, Resting)
                  ELSE GoOn(l, [op |-> "send", r |-> s.r, obj |-> o]) /\ UNCHANGED reqs
    /\ UNCHANGED <<expired, changed, workers>> /\ UNCHANGED <<users, hist>>

(* send_auth_tokens: by now the object may be gone                         *)
Send(l) ==
    /\ ~crashed /\ pc[l].op = "send"
    /\ LET s == pc[l]
       IN \/ /\ handed' = handed \cup {[token |-> objs[s.obj].token, purpose |-> "session"]}
             /\ Answer(s.r) /\ UNCHANGED <<revoked, replayed, crashed>>
          \/ ~Alive(s.obj) /\ Crash /\ UNCHANGED reqs
    /\ GoOn(l, Resting)
    /\ UNCHANGED <<db, workers>> /\ UNCHANGED <<web, users>>

(* The second section of do_revoke.                                        *)
EraseRevoked(l) ==
    /\ ~crashed /\ pc[l].op = "erase"
    /\ Erase(pc[l].id)
    /\ revoked' = IF pc[l].out THEN revoked \cup {pc[l].id} ELSE revoked
    /\ Answer(pc[l].r) /\ GoOn(l, Resting)
    /\ UNCHANGED <<db, objs, expired, workers, handed, replayed, crashed>> /\ UNCHANGED users

-----------------------------------------------------------------------------
(* The administrator, and time.                                            *)

(* file_based_authenticator::update of a user that is not there any more,  *)
(* or not enabled; its holders are notified later.                         *)
Dispose(u) ==
    /\ Idle(Main) /\ More
    /\ gone' = gone \cup {[user |-> u, gen |-> gen[u]]}
    /\ unsaid' = unsaid \cup {[user |-> u, gen |-> gen[u]]}
    /\ gen' = [gen EXCEPT ![u] = @ + 1]
    /\ UNCHANGED <<db, reqs, workers, pc>> /\ UNCHANGED <<web, hist>>

Notify(su) ==
    /\ Idle(Main) /\ unsaid' = unsaid \ {su}
    /\ changed' = changed \cup {o \in DOMAIN objs : Alive(o) /\ objs[o].timer /\ objs[o].su = su}
    /\ UNCHANGED <<db, objs, auths, expired, reqs, workers, pc, gen, gone>> /\ UNCHANGED hist

(* reset, for destroy_webui_tokens                                         *)
ResetAll ==
    /\ Idle(Main) /\ More
    /\ db' = Reset(db) /\ auths' = <<>> /\ changed' = {}
    /\ UNCHANGED <<objs, expired, reqs, workers, pc>> /\ UNCHANGED <<users, hist>>

Age(id) ==
    /\ More /\ ~crashed /\ ~db.rows[id].old
    /\ db' = [db EXCEPT !.rows[id].old = TRUE]
    /\ UNCHANGED <<reqs, workers, pc>> /\ UNCHANGED <<web, users, hist>>

Requests(l) == Login(l) \/ DoRefresh(l) \/ Share(l) \/ CreateShare(l) \/ Revoke(l)
Handler(l)  == Store(l) \/ Send(l) \/ EraseRevoked(l)

Next ==
    \/ \E l \in Loops : Requests(l) \/ Handler(l)
    \/ \E r \in DOMAIN reqs : AuthDone(r) \/ OnAuthResult(r)
    \/ \E o \in DOMAIN objs : OnTimer(o) \/ OnUserChanged(o)
    \/ OnExpired
    \/ \E u \in Users : Dispose(u)
    \/ \E su \in unsaid : Notify(su)
    \/ ResetAll
    \/ \E id \in Ids(db) : Age(id)

Spec == Init /\ [][Next]_vars

-----------------------------------------------------------------------------
(* Properties.                                                             *)

(* Events and handlers refer to objects that have been made, the map has   *)
(* every object once and under its own id, and the news of a changed user  *)
(* goes to authorizations that are still there.                            *)
TypeOK ==
    /\ Range(expired) \subseteq DOMAIN objs /\ changed \subseteq Range(auths)
    /\ \A id \in DOMAIN auths : auths[id] \in DOMAIN objs /\ objs[auths[id]].token.id = id
    /\ \A l \in Loops : pc[l].op \in {"rest", "store", "send", "erase"}
    /\ \A l \in Loops : pc[l].op = "send" => pc[l].obj \in DOMAIN objs
    /\ unsaid \subseteq gone
    /\ Cardinality(Range(auths)) = Cardinality(DOMAIN auths)

(* An authorization belongs to the user of its row and is at the same      *)
(* number, so that the next refresh finds them equal; unless it was made   *)
(* for a shared link, with the token of the link, which somebody exchanged *)
(* while the link was being followed.                                      *)
OfLink(o) == objs[o].token \in Tokens("share")

AuthorizationsAgree ==
    \A id \in DOMAIN auths \cap Ids(db) :
        LET o == objs[auths[id]]
        IN /\ o.token.user = db.rows[id].user /\ o.su.user = db.rows[id].user
           /\ o.token.n = db.rows[id].n \/ OfLink(auths[id])

(* No authorization is left behind: its timer runs, or the event that will *)
(* have it erased is on its way.                                           *)
AuthorizationsEnd ==
    \A id \in DOMAIN auths :
        objs[auths[id]].timer \/ auths[id] \in Range(expired)

(* A token that is revoked while nobody is using it stays out: no refresh, *)
(* login or shared link brings its authorization back.                     *)
RevokedIsOut == revoked \cap DOMAIN auths = {}

(* Refuted: a token that has been exchanged already is presented again,    *)
(* and the one derived from it stays valid.                                *)
ReplayedIsOut == replayed \cap Ids(db) = {}
=============================================================================
