---------------------------- MODULE SharedUsers -----------------------------
(***************************************************************************)
(* The users of the file-based authenticator while they are logged in      *)
(* (authentication/file_based_authenticator.cpp, authentication/user.cpp)  *)
(* and the FTP sessions that hold them (ftp/session.cpp).                  *)
(*                                                                         *)
(* All sessions of a name share one object, which the authenticator knows  *)
(* by a weak pointer.  When the administrator changes the entries, the     *)
(* object is brought up to date in place, or disposed of by clearing its   *)
(* id; whoever has subscribed to it is told later, once the directories of *)
(* its mount points exist, on the loop of the session.  What is done under *)
(* the mutex of the authenticator is one step.                             *)
(***************************************************************************)
EXTENDS Naturals, Sequences, Functions

CONSTANTS
    Names,      \* names of users
    Sys,        \* the entry for users of the operating system
    Temp,       \* the name of a temporary user
    Sessions,
    Slots,      \* bound on the shared users there are at a time
    MaxChanges  \* bound on what the administrator does

(* The empty string: no name, no id, no impersonator.                      *)
None == "none"

ASSUME NamesAssumption  == /\ Sys \notin Names /\ Temp \notin Names \cup {Sys}
                           /\ None \notin Names \cup {Sys, Temp}
ASSUME SlotsAssumption  == Slots \subseteq Nat \ {0}
ASSUME BoundAssumption  == MaxChanges \in Nat

VARIABLES
    entries,  \* users_: of a name, see Entry
    temps,    \* temp_users_, the names
    default,  \* the token of the default impersonator, or None
    objs,     \* shared users, by slot
    weak,     \* weak_users_map_: the slot of a name
    creating, \* slots whose directories are made, before their holders are told
    news,     \* shared_user_changed events under way: session and slot
    subs,     \* handlers_: sessions and the slots they have subscribed to
    result,   \* of a session: the slot a login has given it, on its way, or 0
    user,     \* of a session: user_, or 0
    at,       \* of a session: the section it is at in its handler of a login, or 0
    view,     \* of a session: the settings it has taken over
    quitting, \* sessions that have asked to be ended
    changes

admin == <<entries, temps, default, changes>>
pool  == <<objs, weak, creating>>
vars  == <<admin, pool, news, subs, result, user, at, view, quitting>>

Entry(version, own) == [enabled |-> TRUE, version |-> version, own |-> own]
NoSettings == [version |-> 0, token |-> "unset"]
Nobody     == [name |-> None, id |-> None, set |-> NoSettings]

Init ==
    /\ \E there \in SUBSET Names :
           entries \in [there \cup {Sys} -> {[Entry(0, own) EXCEPT !.enabled = e] : e, own \in BOOLEAN}]
    /\ \A n \in DOMAIN entries : entries[n].own = (n = Sys) /\ (n # Sys => entries[n].enabled)
    /\ temps = {} /\ default = None /\ changes = 0
    /\ objs = [o \in Slots |-> Nobody] /\ weak = <<>> /\ creating = {}
    /\ news = {} /\ subs = {}
    /\ result = [s \in Sessions |-> 0] /\ user = [s \in Sessions |-> 0]
    /\ at = [s \in Sessions |-> 0] /\ view = [s \in Sessions |-> NoSettings]
    /\ quitting = {}

(* Somebody holds the object.                                              *)
Alive(o) == o \in creating \/ \E s \in Sessions : o \in {result[s], user[s]}

(* A slot can be given to a new object when nothing refers to the old one. *)
Free(o) == ~Alive(o) /\ ~\E s \in Sessions : <<s, o>> \in news

Known(name) == name \in DOMAIN weak /\ Alive(weak[name])

Told(slots) == {p \in subs : p[2] \in slots}

-----------------------------------------------------------------------------
(* The administrator.                                                      *)

(* update: a user without a usable entry, or whose files were accessed in  *)
(* the name of a default impersonator that has changed                     *)
\* mutated form: the default impersonator does not matter
MustGoByEntry(o, users, token) ==
    objs[o].id \notin DOMAIN users \/ ~users[objs[o].id].enabled

MustGo(o, users, token) ==
    \/ objs[o].id \notin DOMAIN users
    \/ ~users[objs[o].id].enabled
    \/ ~users[objs[o].id].own /\ objs[o].set.token # token

\* mutated form: only the holders of the users that stay are told
ToTell(held, out) == held \ out

Touched(held, out) == held

Update(users, token) ==
    LET held == {weak[n] : n \in {n \in DOMAIN weak : Known(n)}}
        out  == {o \in held : MustGo(o, users, token)}
    IN /\ changes < MaxChanges /\ changes' = changes + 1
       /\ entries' = users /\ default' = token
       /\ weak' = Restrict(weak, {n \in DOMAIN weak : weak[n] \in held \ out})
       /\ objs' = [o \in Slots |->
                      IF o \in out THEN [objs[o] EXCEPT !.id = None]
                      ELSE IF o \in held
                      THEN [objs[o] EXCEPT !.set.version = users[objs[o].id].version]
                      ELSE objs[o]]
       /\ creating' = creating \cup Touched(held, out)
       /\ UNCHANGED <<temps, news, subs, result, user, at, view, quitting>>

(* add_user and remove_user; set_groups_and_users changes an entry, or the *)
(* impersonator, as well.                                                  *)
RemoveUser(name) ==
    /\ name \in DOMAIN entries
    /\ Update(Restrict(entries, DOMAIN entries \ {name}), default)

SetUser(name, entry) ==
    Update([n \in DOMAIN entries \cup {name} |-> IF n = name THEN entry ELSE entries[n]], default)

SetDefault(token) == token # default /\ Update(entries, token)

ChangeTemp(names) ==
    /\ changes < MaxChanges /\ changes' = changes + 1
    /\ names # temps /\ temps' = names
    /\ UNCHANGED <<entries, default, pool, news, subs, result, user, at, view, quitting>>

MakeTempUser   == ChangeTemp({Temp})
RemoveTempUser == ChangeTemp({})

(* The directories are there: notify.                                      *)
Created(o) ==
    /\ o \in creating /\ creating' = creating \ {o}
    /\ news' = news \cup Told({o})
    /\ UNCHANGED <<admin, objs, weak, subs, result, user, at, view, quitting>>

-----------------------------------------------------------------------------
(* Logins.                                                                 *)

(* worker::authenticate: an own entry, a temporary one, or the system's;   *)
(* the id of the shared user, None if there is none                        *)
IdOf(name) ==
    IF name \in DOMAIN entries THEN (IF entries[name].enabled THEN name ELSE None)
    ELSE IF name \in temps THEN name
    ELSE IF name # Temp /\ entries[Sys].enabled THEN Sys
    ELSE None

EntryOf(id) == IF id = Temp THEN Entry(0, FALSE) ELSE entries[id]

(* In whose name the files are accessed.                                   *)
TokenOf(name, id) == IF EntryOf(id).own THEN name ELSE default

(* get_or_make_shared_user: the one there is, if its token is the same     *)
Authenticate(s, name) ==
    LET id    == IdOf(name)
        token == TokenOf(name, id)
        old   == IF Known(name) THEN {weak[name]} ELSE {}
        keep  == \E o \in old : objs[o].set.token = token
    IN /\ at[s] = 0 /\ user[s] = 0 /\ result[s] = 0 /\ s \notin quitting /\ id # None
       /\ IF keep
          THEN /\ result' = [result EXCEPT ![s] = weak[name]]
               /\ UNCHANGED <<objs, weak, news>>
          ELSE \E o \in {o \in Slots : Free(o) /\ \A p \in Slots : Free(p) => o <= p} :
               /\ result' = [result EXCEPT ![s] = o]
               /\ objs' = [p \in Slots |->
                              IF p = o THEN [name |-> name, id |-> id,
                                             set |-> [version |-> EntryOf(id).version, token |-> token]]
                              ELSE IF p \in old THEN [objs[p] EXCEPT !.id = None]
                              ELSE objs[p]]
               /\ weak' = [n \in {n \in DOMAIN weak : Known(n)} \cup {name} |->
                              IF n = name THEN o ELSE weak[n]]
               /\ news' = news \cup Told(old)
       /\ UNCHANGED <<admin, creating, subs, user, at, view, quitting>>

(* on_authenticator_operation_result, one section for each time it takes   *)
(* the mutex                                                               *)
\* mutated form: the user is looked at before the session subscribes to it
SectionsSwapped == <<"look", "subscribe">>

Sections == <<"subscribe", "look">>

OnAuthenticatorOperationResult(s) ==
    /\ at[s] = 0 /\ result[s] # 0
    /\ user' = [user EXCEPT ![s] = result[s]] /\ result' = [result EXCEPT ![s] = 0]
    /\ at' = [at EXCEPT ![s] = 1]
    /\ UNCHANGED <<admin, pool, news, subs, view, quitting>>

(* on_shared_user_changed_event, of the session's own user                 *)
Look(s) ==
    IF objs[user[s]].id = None
    THEN quitting' = quitting \cup {s} /\ UNCHANGED view
    ELSE view' = [view EXCEPT ![s] = objs[user[s]].set] /\ UNCHANGED quitting

Section(s) ==
    /\ at[s] # 0
    /\ at' = [at EXCEPT ![s] = IF @ = Len(Sections) THEN 0 ELSE @ + 1]
    /\ \/ Sections[at[s]] = "subscribe" /\ subs' = subs \cup {<<s, user[s]>>} /\ UNCHANGED <<view, quitting>>
       \/ Sections[at[s]] = "look" /\ Look(s) /\ UNCHANGED subs
    /\ UNCHANGED <<admin, pool, news, result, user>>

OnSharedUserChanged(s) ==
    /\ at[s] = 0
    /\ \E o \in Slots :
        /\ <<s, o>> \in news /\ news' = news \ {<<s, o>>}
        /\ IF user[s] = o THEN Look(s) ELSE UNCHANGED <<view, quitting>>
    /\ UNCHANGED <<admin, pool, subs, result, user, at>>

(* The session is destroyed, which another one may follow: the client has  *)
(* hung up, or the server has heard that the session has to end.           *)
\* mutated form: the session stays subscribed
LeaveSubscribed(s) == UNCHANGED subs

Unsubscribe(s) == subs' = subs \ {<<s, user[s]>>}

End(s) ==
    /\ at[s] = 0 /\ (user[s] # 0 \/ result[s] # 0)
    /\ news' = {p \in news : p[1] # s} /\ Unsubscribe(s)
    /\ result' = [result EXCEPT ![s] = 0] /\ user' = [user EXCEPT ![s] = 0]
    /\ view' = [view EXCEPT ![s] = NoSettings] /\ quitting' = quitting \ {s}
    /\ UNCHANGED <<admin, pool, at>>

HangUp(s)  == s \notin quitting /\ End(s)
OnEnded(s) == s \in quitting /\ End(s)

Next ==
    \/ \E n \in Names : RemoveUser(n)
    \/ \E n \in Names \cup {Sys}, own, enabled \in BOOLEAN :
           SetUser(n, [Entry(changes + 1, own) EXCEPT !.enabled = enabled])
    \/ \E token \in {None, "svc"} : SetDefault(token)
    \/ MakeTempUser \/ RemoveTempUser
    \/ \E o \in Slots : Created(o)
    \/ \E s \in Sessions, n \in Names \cup {Temp} : Authenticate(s, n)
    \/ \E s \in Sessions :
           OnAuthenticatorOperationResult(s) \/ Section(s) \/ OnSharedUserChanged(s)
           \/ HangUp(s) \/ OnEnded(s)

(* The events of the loops are handled, directories get made, and a        *)
(* session that has asked for it is destroyed.                             *)
Fairness ==
    /\ \A o \in Slots : WF_vars(Created(o))
    /\ \A s \in Sessions :
        /\ WF_vars(OnAuthenticatorOperationResult(s)) /\ WF_vars(Section(s))
        /\ WF_vars(OnSharedUserChanged(s)) /\ WF_vars(OnEnded(s))

Spec == Init /\ [][Next]_vars /\ Fairness

-----------------------------------------------------------------------------
(* Properties.                                                             *)

(* The handlers of a shared user are those of the sessions that hold it    *)
(* and are still there, and events are under way to these only.            *)
TypeOK ==
    /\ \A n \in DOMAIN weak : weak[n] \in Slots /\ objs[weak[n]].name = n
    /\ news \subseteq subs
    /\ \A p \in subs : user[p[1]] = p[2]
    /\ \A s \in Sessions : user[s] \in Slots \cup {0} /\ result[s] \in Slots \cup {0}
    /\ changes \in 0..MaxChanges

(* A shared user somebody holds, and that has not been disposed of, is the *)
(* only one of its name, has an enabled entry with the same settings, and  *)
(* accesses files as the default impersonator unless its entry has one.    *)
SharedUsersAreCurrent ==
    \A o \in Slots : Alive(o) /\ objs[o].id # None =>
        LET id == objs[o].id
        IN /\ objs[o].name \in DOMAIN weak /\ weak[objs[o].name] = o
           /\ id # Temp =>
                /\ id \in DOMAIN entries /\ entries[id].enabled
                /\ objs[o].set.version = entries[id].version
                /\ ~entries[id].own => objs[o].set.token = default

Out(s)   == user[s] # 0 /\ objs[user[s]].id = None
Stale(s) == user[s] # 0 /\ view[s] # objs[user[s]].set

(* A session whose user has changed, or has been disposed of, will be told,*)
(* even if that happened while it was logging in.                          *)
ChangesAreOnTheirWay ==
    \A s \in Sessions : at[s] = 0 /\ s \notin quitting /\ (Out(s) \/ Stale(s)) =>
        user[s] \in creating \/ <<s, user[s]>> \in news

(* A session does not go on with a user that has been removed or disabled, *)
(* nor with settings that are not its user's any more.                     *)
RemovedIsOut ==
    \A s \in Sessions : (Out(s) \/ Stale(s)) ~> ~(Out(s) \/ Stale(s))

(* Refuted: a user with an entry of its own has the settings of the entry. *)
OwnEntryCounts ==
    \A s \in Sessions :
        user[s] # 0 /\ ~Out(s) /\ objs[user[s]].name \in DOMAIN entries =>
            objs[user[s]].set.version = entries[objs[user[s]].name].version

(* Refuted: a temporary user stays until it is removed.                    *)
TempUserStays ==
    \A s \in Sessions : Temp \in temps /\ Out(s) => objs[user[s]].name # Temp
=============================================================================
