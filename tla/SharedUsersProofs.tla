------------------------- MODULE SharedUsersProofs --------------------------
(* Proofs about SharedUsers, for any names, sessions and bounds.            *)
EXTENDS SharedUsers, TLAPS

EntryType == [enabled : BOOLEAN, version : Nat, own : BOOLEAN]
Settings  == [version : Nat, token : Names \cup {Temp, None, "svc", "unset"}]
Object    == [name : Names \cup {Temp, None}, id : Names \cup {Sys, Temp, None}, set : Settings]

Types ==
    /\ entries \in [DOMAIN entries -> EntryType]
    /\ Sys \in DOMAIN entries /\ DOMAIN entries \subseteq Names \cup {Sys}
    /\ temps \subseteq {Temp} /\ default \in {None, "svc"} /\ changes \in 0..MaxChanges
    /\ objs \in [Slots -> Object] /\ weak \in [DOMAIN weak -> Slots] /\ creating \subseteq Slots
    /\ subs \subseteq Sessions \X Slots /\ news \subseteq subs
    /\ result \in [Sessions -> Slots \cup {0}] /\ user \in [Sessions -> Slots \cup {0}]
    /\ at \in [Sessions -> 0..2] /\ view \in [Sessions -> Settings]
    /\ quitting \subseteq Sessions

\* The map of weak pointers agrees with the objects, also with those that
\* nobody holds any more; handlers are those of the holders.
References ==
    /\ \A n \in DOMAIN weak : objs[weak[n]].name = n
    /\ \A s \in Sessions, o \in Slots : <<s, o>> \in subs => user[s] = o

\* A shared user that is held and not disposed of.
CurrentAt(o) ==
    Alive(o) /\ objs[o].id # None =>
        /\ objs[o].name \in DOMAIN weak /\ weak[objs[o].name] = o
        /\ objs[o].id # Temp =>
             /\ objs[o].id \in DOMAIN entries /\ entries[objs[o].id].enabled
             /\ objs[o].set.version = entries[objs[o].id].version
             /\ ~entries[objs[o].id].own => objs[o].set.token = default

Current == \A o \in Slots : CurrentAt(o)

\* A session subscribes before it goes on with its user.
SessionOK(s) ==
    /\ result[s] # 0 => user[s] = 0 /\ at[s] = 0
    /\ at[s] # 0 => user[s] # 0
    /\ at[s] # 1 /\ user[s] # 0 => <<s, user[s]>> \in subs
    /\ at[s] = 0 /\ s \notin quitting /\ (Out(s) \/ Stale(s)) =>
         user[s] \in creating \/ <<s, user[s]>> \in news

SessionsOK == \A s \in Sessions : SessionOK(s)

Inv == Types /\ References /\ Current /\ SessionsOK

LEMMA Constants ==
    /\ Sys \notin Names /\ Temp \notin Names \cup {Sys}
    /\ None \notin Names \cup {Sys, Temp}
    /\ Slots \subseteq Nat \ {0} /\ 0 \notin Slots /\ MaxChanges \in Nat
  BY NamesAssumption, SlotsAssumption, BoundAssumption

LEMMA TwoSections ==
    Len(Sections) = 2 /\ Sections[1] = "subscribe" /\ Sections[2] = "look"
  BY DEF Sections

LEMMA InvInit ==
    ASSUME Init
    PROVE  Inv
  <1>1. Types
    <2>1. entries \in [DOMAIN entries -> EntryType] /\ Sys \in DOMAIN entries
          /\ DOMAIN entries \subseteq Names \cup {Sys}
      <3>1. {[Entry(0, own) EXCEPT !.enabled = e] : e, own \in BOOLEAN} \subseteq EntryType
        <4>1. \A e, own \in BOOLEAN : [Entry(0, own) EXCEPT !.enabled = e] \in EntryType
          BY DEF Entry, EntryType
        <4> SUFFICES ASSUME NEW x \in {[Entry(0, own) EXCEPT !.enabled = e] : e, own \in BOOLEAN}
                     PROVE  x \in EntryType
          OBVIOUS
        <4>2. PICK e \in BOOLEAN, own \in BOOLEAN : x = [Entry(0, own) EXCEPT !.enabled = e]
          OBVIOUS
        <4> QED
          BY <4>1, <4>2
      <3>2. PICK there \in SUBSET Names :
              entries \in [there \cup {Sys} -> {[Entry(0, own) EXCEPT !.enabled = e] : e, own \in BOOLEAN}]
        BY DEF Init
      <3> QED
        BY <3>1, <3>2
    <2>2. weak = <<>> /\ DOMAIN weak = {}
      BY DEF Init
    <2>3. weak \in [DOMAIN weak -> Slots]
      BY <2>2
    <2>4. objs \in [Slots -> Object] /\ view \in [Sessions -> Settings]
      BY DEF Init, Nobody, NoSettings, Object, Settings
    <2> QED
      BY <2>1, <2>2, <2>3, <2>4, Constants DEF Init, Types
  <1>2. References
    <2>1. DOMAIN weak = {}
      BY DEF Init
    <2> QED
      BY <2>1 DEF Init, References
  <1>3. Current
    BY Constants DEF Init, Current, CurrentAt, Alive
  <1>4. SessionsOK
    BY DEF Init, SessionsOK, SessionOK, Out, Stale
  <1> QED
    BY <1>1, <1>2, <1>3, <1>4 DEF Inv

-----------------------------------------------------------------------------
(* The administrator.                                                       *)

\* update() reaches every shared user that is held and not disposed of,
\* because the map of weak pointers knows it.
LEMMA UpdateStep ==
    ASSUME Inv, NEW users, NEW token, Update(users, token),
           users \in [DOMAIN users -> EntryType],
           Sys \in DOMAIN users, DOMAIN users \subseteq Names \cup {Sys},
           token \in {None, "svc"}
    PROVE  Inv'
  <1>1. Types /\ References /\ Current /\ SessionsOK
    BY DEF Inv
  <1> PICK held : held = {weak[n] : n \in {n \in DOMAIN weak : Known(n)}}
    OBVIOUS
  <1> PICK out : out = {o \in held : MustGo(o, users, token)}
    OBVIOUS
  <1>2. /\ changes < MaxChanges /\ changes' = changes + 1
        /\ entries' = users /\ default' = token
        /\ weak' = Restrict(weak, {n \in DOMAIN weak : weak[n] \in held \ out})
        /\ objs' = [o \in Slots |->
                       IF o \in out THEN [objs[o] EXCEPT !.id = None]
                       ELSE IF o \in held
                       THEN [objs[o] EXCEPT !.set.version = users[objs[o].id].version]
                       ELSE objs[o]]
        /\ creating' = creating \cup held
        /\ UNCHANGED <<temps, news, subs, result, user, at, view, quitting>>
    BY DEF Update, Touched
  <1>3. held \subseteq Slots /\ \A o \in held : Alive(o)
    BY <1>1 DEF Types, Known
  <1>4. \A o \in Slots : Alive(o) /\ objs[o].id # None => o \in held
    BY <1>1 DEF Current, CurrentAt, Known
  <1>5. \A o \in held \ out : objs[o].id \in DOMAIN users /\ users[objs[o].id].enabled
                              /\ (users[objs[o].id].own \/ objs[o].set.token = token)
    BY DEF MustGo
  <1>6. ASSUME NEW o \in Slots
        PROVE  /\ objs'[o] \in Object /\ objs'[o].name = objs[o].name
               /\ o \in out => objs'[o].id = None
               /\ o \in held \ out =>
                    /\ objs'[o].id = objs[o].id /\ objs'[o].set.token = objs[o].set.token
                    /\ objs'[o].set.version = users[objs[o].id].version
               /\ o \notin held => objs'[o] = objs[o]
    <2>1. objs[o] \in Object
      BY <1>1 DEF Types
    <2>2. CASE o \in out
      BY <1>2, <2>1, <2>2 DEF Object
    <2>3. CASE o \in held \ out
      <3>1. users[objs[o].id].version \in Nat
        BY <1>5, <2>3 DEF EntryType
      <3>2. objs'[o] = [objs[o] EXCEPT !.set.version = users[objs[o].id].version]
        BY <1>2, <2>3
      <3> QED
        BY <2>1, <2>3, <3>1, <3>2 DEF Object, Settings
    <2>4. CASE o \notin held
      BY <1>2, <2>1, <2>4 DEF Object
    <2> QED
      BY <2>2, <2>3, <2>4
  <1>7. /\ DOMAIN weak' = {n \in DOMAIN weak : weak[n] \in held \ out}
        /\ \A n \in DOMAIN weak' : weak'[n] = weak[n]
        /\ weak' \in [DOMAIN weak' -> Slots]
    BY <1>1, <1>2 DEF Restrict, Types
  <1>8. Types'
    <2>1. objs' \in [Slots -> Object]
      BY <1>2, <1>6
    <2>2. changes' \in 0..MaxChanges
      BY <1>1, <1>2, Constants DEF Types
    <2> QED
      BY <1>1, <1>2, <1>3, <1>7, <2>1, <2>2 DEF Types
  <1>9. References'
    <2>1. ASSUME NEW n \in DOMAIN weak' PROVE objs'[weak'[n]].name = n
      <3>1. n \in DOMAIN weak /\ weak'[n] = weak[n] /\ weak[n] \in Slots
        BY <1>3, <1>7
      <3> QED
        BY <1>1, <1>6, <3>1 DEF References
    <2> QED
      BY <1>1, <1>2, <2>1 DEF References
  <1>10. \A o \in Slots : Alive(o)' => Alive(o)
    BY <1>2, <1>3 DEF Alive
  <1>11. ASSUME NEW o \in Slots PROVE CurrentAt(o)'
    <2> SUFFICES ASSUME Alive(o)', objs'[o].id # None
                 PROVE  /\ objs'[o].name \in DOMAIN weak' /\ weak'[objs'[o].name] = o
                        /\ objs'[o].id # Temp =>
                             /\ objs'[o].id \in DOMAIN entries' /\ entries'[objs'[o].id].enabled
                             /\ objs'[o].set.version = entries'[objs'[o].id].version
                             /\ ~entries'[objs'[o].id].own => objs'[o].set.token = default'
      BY DEF CurrentAt
    <2>1. o \in held \ out
      BY <1>4, <1>6, <1>10
    <2>2. objs[o].id # None
      BY <1>6, <2>1
    <2>3. objs[o].name \in DOMAIN weak /\ weak[objs[o].name] = o
      BY <1>1, <1>10, <2>2 DEF Current, CurrentAt
    <2>4. objs'[o].name \in DOMAIN weak' /\ weak'[objs'[o].name] = o
      BY <1>6, <1>7, <2>1, <2>3
    <2> QED
      BY <1>2, <1>5, <1>6, <2>1, <2>4
  <1>12. ASSUME NEW s \in Sessions PROVE SessionOK(s)'
    <2>1. SessionOK(s)
      BY <1>1 DEF SessionsOK
    <2>2. user[s] # 0 => user[s] \in Slots
      BY <1>1 DEF Types
    <2>3. user[s] # 0 /\ user[s] \notin creating' => objs'[user[s]] = objs[user[s]]
      BY <1>2, <1>6, <2>2
    <2> QED
      BY <1>2, <2>1, <2>3 DEF SessionOK, Out, Stale
  <1> QED
    BY <1>8, <1>9, <1>11, <1>12 DEF Inv, Current, SessionsOK

LEMMA RemoveUserStep ==
    ASSUME Inv, NEW n \in Names, RemoveUser(n)
    PROVE  Inv'
  <1> PICK users : users = Restrict(entries, DOMAIN entries \ {n})
    OBVIOUS
  <1>1. Update(users, default)
    BY DEF RemoveUser
  <1>2. /\ users \in [DOMAIN users -> EntryType] /\ Sys \in DOMAIN users
        /\ DOMAIN users \subseteq Names \cup {Sys} /\ default \in {None, "svc"}
    BY Constants DEF Restrict, Inv, Types
  <1> QED
    BY <1>1, <1>2, UpdateStep

LEMMA SetUserStep ==
    ASSUME Inv, NEW n \in Names \cup {Sys}, NEW own \in BOOLEAN, NEW enabled \in BOOLEAN,
           SetUser(n, [Entry(changes + 1, own) EXCEPT !.enabled = enabled])
    PROVE  Inv'
  <1> PICK entry : entry = [Entry(changes + 1, own) EXCEPT !.enabled = enabled]
    OBVIOUS
  <1> PICK users : users = [m \in DOMAIN entries \cup {n} |-> IF m = n THEN entry ELSE entries[m]]
    OBVIOUS
  <1>1. Update(users, default)
    BY DEF SetUser
  <1>2. entry \in EntryType
    <2>1. changes + 1 \in Nat
      BY Constants DEF Inv, Types
    <2> QED
      BY <2>1 DEF Entry, EntryType
  <1>3. /\ users \in [DOMAIN users -> EntryType] /\ Sys \in DOMAIN users
        /\ DOMAIN users \subseteq Names \cup {Sys} /\ default \in {None, "svc"}
    BY <1>2 DEF Inv, Types
  <1> QED
    BY <1>1, <1>3, UpdateStep

LEMMA SetDefaultStep ==
    ASSUME Inv, NEW token \in {None, "svc"}, SetDefault(token)
    PROVE  Inv'
  BY UpdateStep DEF SetDefault, Inv, Types

LEMMA ChangeTempStep ==
    ASSUME Inv, MakeTempUser \/ RemoveTempUser
    PROVE  Inv'
  <1>1. /\ changes' \in 0..MaxChanges /\ temps' \subseteq {Temp}
        /\ UNCHANGED <<entries, default, objs, weak, creating, news, subs, result, user,
                       at, view, quitting>>
    BY Constants DEF MakeTempUser, RemoveTempUser, ChangeTemp, pool, Inv, Types
  <1> QED
    BY <1>1 DEF Inv, Types, References, Current, CurrentAt, Alive, SessionsOK, SessionOK,
       Out, Stale

\* Whoever has the object by now has subscribed to it.
LEMMA CreatedStep ==
    ASSUME Inv, NEW o \in Slots, Created(o)
    PROVE  Inv'
  <1>1. Types /\ References /\ Current /\ SessionsOK
    BY DEF Inv
  <1>2. /\ creating' = creating \ {o} /\ news' = news \cup Told({o})
        /\ UNCHANGED <<entries, temps, default, changes, objs, weak, subs, result, user, at,
                       view, quitting>>
    BY DEF Created, admin
  <1>3. \A s \in Sessions : <<s, o>> \in subs => <<s, o>> \in news'
    BY <1>1, <1>2 DEF Told, Types
  <1>4. Told({o}) \subseteq subs
    BY DEF Told
  <1>5. Types'
    BY <1>1, <1>2, <1>4 DEF Types
  <1>6. References'
    BY <1>1, <1>2 DEF References
  <1>7. Current'
    BY <1>1, <1>2 DEF Current, CurrentAt, Alive
  <1>8. ASSUME NEW s \in Sessions PROVE SessionOK(s)'
    <2>1. SessionOK(s)
      BY <1>1 DEF SessionsOK
    <2>2. at[s] = 0 /\ user[s] # 0 /\ user[s] = o => <<s, user[s]>> \in news'
      BY <1>3, <2>1 DEF SessionOK
    <2>3. user[s] \in creating /\ user[s] # o => user[s] \in creating'
      BY <1>2
    <2> QED
      BY <1>2, <2>1, <2>2, <2>3 DEF SessionOK, Out, Stale
  <1> QED
    BY <1>5, <1>6, <1>7, <1>8 DEF Inv, SessionsOK

-----------------------------------------------------------------------------
(* The sessions.                                                            *)

\* A shared user that is made takes a slot nothing refers to; the one that it
\* takes the place of is disposed of.
LEMMA AuthenticateStep ==
    ASSUME Inv, NEW s \in Sessions, NEW name \in Names \cup {Temp}, Authenticate(s, name)
    PROVE  Inv'
  <1>1. Types /\ References /\ Current /\ SessionsOK /\ SessionOK(s)
    BY DEF Inv, SessionsOK
  <1> PICK id : id = IdOf(name)
    OBVIOUS
  <1> PICK token : token = TokenOf(name, id)
    OBVIOUS
  <1> PICK old : old = IF Known(name) THEN {weak[name]} ELSE {}
    OBVIOUS
  <1>2. /\ at[s] = 0 /\ user[s] = 0 /\ result[s] = 0 /\ s \notin quitting /\ id # None
        /\ UNCHANGED <<entries, temps, default, changes, creating, subs, user, at, view, quitting>>
        /\ old \subseteq Slots
    BY <1>1 DEF Authenticate, admin, Types, Known
  <1>3. CASE \E o \in old : objs[o].set.token = token
    <2>1. /\ Known(name) /\ weak[name] \in Slots /\ result' = [result EXCEPT ![s] = weak[name]]
          /\ UNCHANGED <<objs, weak, news>>
      BY <1>1, <1>3 DEF Authenticate, Known, Types
    <2>2. result' \in [Sessions -> Slots \cup {0}] /\ \A t \in Sessions \ {s} : result'[t] = result[t]
      BY <1>1, <2>1 DEF Types
    <2>3. Types'
      BY <1>1, <1>2, <2>1, <2>2 DEF Types
    <2>4. References'
      BY <1>1, <1>2, <2>1 DEF References
    <2>5. \A o \in Slots : Alive(o)' => Alive(o)
      <3>1. Alive(weak[name])
        BY <2>1 DEF Known
      <3> QED
        BY <1>1, <1>2, <2>1, <3>1 DEF Alive, Types
    <2>6. Current'
      BY <1>1, <1>2, <2>1, <2>5 DEF Current, CurrentAt
    <2>7. ASSUME NEW t \in Sessions PROVE SessionOK(t)'
      BY <1>1, <1>2, <2>1, <2>2 DEF SessionsOK, SessionOK, Out, Stale
    <2> QED
      BY <2>3, <2>4, <2>6, <2>7 DEF Inv, SessionsOK
  <1>4. CASE ~ \E o \in old : objs[o].set.token = token
    <2> PICK o \in Slots :
          /\ Free(o)
          /\ result' = [result EXCEPT ![s] = o]
          /\ objs' = [p \in Slots |->
                         IF p = o THEN [name |-> name, id |-> id,
                                        set |-> [version |-> EntryOf(id).version, token |-> token]]
                         ELSE IF p \in old THEN [objs[p] EXCEPT !.id = None]
                         ELSE objs[p]]
          /\ weak' = [n \in {n \in DOMAIN weak : Known(n)} \cup {name} |->
                         IF n = name THEN o ELSE weak[n]]
          /\ news' = news \cup Told(old)
      BY <1>4 DEF Authenticate
    <2>1. /\ o \notin creating /\ \A t \in Sessions : result[t] # o /\ user[t] # o
          /\ \A t \in Sessions : <<t, o>> \notin news
      BY DEF Free, Alive
    <2>2. /\ o \notin old
          /\ \A n \in DOMAIN weak : Known(n) => weak[n] # o
      BY DEF Free, Known
    <2>3. /\ id \in Names \cup {Sys, Temp} /\ EntryOf(id) \in EntryType
          /\ token \in Names \cup {Temp, None, "svc"}
          /\ id # Temp => /\ id \in DOMAIN entries /\ entries[id].enabled
                          /\ EntryOf(id) = entries[id]
                          /\ ~ entries[id].own => token = default
      <3>1. Entry(0, FALSE) \in EntryType
        BY DEF Entry, EntryType
      <3>2. id \in Names \cup {Sys, Temp} /\ (id # Temp => id \in DOMAIN entries /\ entries[id].enabled)
        BY <1>1, <1>2 DEF IdOf, Types
      <3>3. EntryOf(id) \in EntryType /\ (id # Temp => EntryOf(id) = entries[id])
        BY <1>1, <3>1, <3>2 DEF EntryOf, Types
      <3>4. token = IF EntryOf(id).own THEN name ELSE default
        BY DEF TokenOf
      <3> QED
        BY <1>1, <3>2, <3>3, <3>4 DEF Types
    <2>4. /\ objs'[o] \in Object /\ objs'[o].name = name /\ objs'[o].id = id
          /\ objs'[o].set.version = EntryOf(id).version /\ objs'[o].set.token = token
      BY <2>3 DEF Object, Settings, EntryType
    <2>5. ASSUME NEW p \in Slots, p # o
          PROVE  /\ objs'[p] \in Object /\ objs'[p].name = objs[p].name
                 /\ p \in old => objs'[p].id = None
                 /\ p \notin old => objs'[p] = objs[p]
      <3>1. objs[p] \in Object
        BY <1>1 DEF Types
      <3> QED
        BY <2>5, <3>1 DEF Object
    <2>6. /\ DOMAIN weak' = {n \in DOMAIN weak : Known(n)} \cup {name} /\ weak'[name] = o
          /\ \A n \in DOMAIN weak' : n # name => Known(n) /\ weak'[n] = weak[n] /\ weak[n] \in Slots
          /\ weak' \in [DOMAIN weak' -> Slots]
      BY <1>1 DEF Types, Known
    <2>7. /\ result' \in [Sessions -> Slots \cup {0}] /\ result'[s] = o
          /\ \A t \in Sessions \ {s} : result'[t] = result[t]
      BY <1>1 DEF Types
    <2>8. Types'
      <3>1. objs' \in [Slots -> Object]
        BY <2>4, <2>5
      <3>2. Told(old) \subseteq subs
        BY DEF Told
      <3> QED
        BY <1>1, <1>2, <2>6, <2>7, <3>1, <3>2 DEF Types
    <2>9. References'
      <3>1. ASSUME NEW n \in DOMAIN weak' PROVE objs'[weak'[n]].name = n
        <4>1. CASE n = name
          BY <2>4, <2>6, <4>1
        <4>2. CASE n # name
          BY <1>1, <2>2, <2>5, <2>6, <4>2 DEF References, Known
        <4> QED
          BY <4>1, <4>2
      <3> QED
        BY <1>1, <1>2, <3>1 DEF References
    <2>10. \A p \in Slots : p # o /\ Alive(p)' => Alive(p)
      BY <1>2, <2>7 DEF Alive
    <2>11. ASSUME NEW p \in Slots PROVE CurrentAt(p)'
      <3>1. CASE p = o
        <4>1. objs'[o].name \in DOMAIN weak' /\ weak'[objs'[o].name] = o
          BY <2>4, <2>6
        <4>2. ASSUME objs'[o].id # Temp
              PROVE  /\ objs'[o].id \in DOMAIN entries' /\ entries'[objs'[o].id].enabled
                     /\ objs'[o].set.version = entries'[objs'[o].id].version
                     /\ ~entries'[objs'[o].id].own => objs'[o].set.token = default'
          <5>1. /\ id # Temp /\ entries' = entries /\ default' = default
                /\ objs'[o].id = id
            BY <1>2, <2>4, <4>2
          <5>2. /\ id \in DOMAIN entries /\ entries[id].enabled
                /\ EntryOf(id) = entries[id] /\ (~entries[id].own => token = default)
            BY <2>3, <5>1
          <5> QED
            BY ONLY <2>4, <5>1, <5>2
        <4> QED
          BY <3>1, <4>1, <4>2 DEF CurrentAt
      <3>2. CASE p # o
        <4> SUFFICES ASSUME Alive(p)', objs'[p].id # None PROVE CurrentAt(p)'
          BY DEF CurrentAt
        <4>1. p \notin old /\ objs'[p] = objs[p] /\ Alive(p)
          BY <2>5, <2>10, <3>2
        <4>2. objs[p].name \in DOMAIN weak /\ weak[objs[p].name] = p /\ CurrentAt(p)
          BY <1>1, <4>1 DEF Current, CurrentAt
        <4>3. Known(objs[p].name) /\ objs[p].name # name
          BY <4>1, <4>2 DEF Known
        <4>4. objs'[p].name \in DOMAIN weak' /\ weak'[objs'[p].name] = p
          BY <2>6, <4>1, <4>2, <4>3
        <4> QED
          BY <1>2, <4>1, <4>2, <4>4 DEF CurrentAt
      <3> QED
        BY <3>1, <3>2
    <2>12. ASSUME NEW t \in Sessions PROVE SessionOK(t)'
      <3>1. SessionOK(t) /\ user'[t] = user[t] /\ (user[t] # 0 => user[t] \in Slots \ {o})
        BY <1>1, <1>2, <2>1 DEF SessionsOK, Types
      <3>2. CASE t = s
        BY <1>2, <3>1, <3>2 DEF SessionOK, Out, Stale
      <3>3. CASE t # s
        <4>1. user[t] # 0 /\ at[t] = 0 /\ user[t] \in old => <<t, user[t]>> \in news'
          BY <3>1 DEF SessionOK, Told
        <4>2. user[t] # 0 /\ user[t] \notin old => objs'[user[t]] = objs[user[t]]
          BY <2>5, <3>1
        <4> QED
          BY <1>2, <2>7, <3>1, <3>3, <4>1, <4>2 DEF SessionOK, Out, Stale
      <3> QED
        BY <3>2, <3>3
    <2> QED
      BY <2>8, <2>9, <2>11, <2>12 DEF Inv, Current, SessionsOK
  <1> QED
    BY <1>3, <1>4

\* Steps that leave the authenticator alone, and its objects as alive as they
\* were or less.
LEMMA AuthenticatorKept ==
    ASSUME Inv, UNCHANGED <<entries, default, objs, weak>>,
           \A o \in Slots : Alive(o)' => Alive(o)
    PROVE  Current'
  BY DEF Inv, Current, CurrentAt

LEMMA ResultStep ==
    ASSUME Inv, NEW s \in Sessions, OnAuthenticatorOperationResult(s)
    PROVE  Inv'
  <1>1. Types /\ References /\ Current /\ SessionsOK /\ SessionOK(s)
    BY DEF Inv, SessionsOK
  <1>2. /\ at[s] = 0 /\ user[s] = 0 /\ result[s] # 0 /\ result[s] \in Slots
        /\ user' \in [Sessions -> Slots \cup {0}] /\ user'[s] = result[s]
        /\ result' \in [Sessions -> Slots \cup {0}] /\ result'[s] = 0
        /\ at' \in [Sessions -> 0..2] /\ at'[s] = 1
        /\ \A t \in Sessions \ {s} : user'[t] = user[t] /\ result'[t] = result[t] /\ at'[t] = at[t]
        /\ UNCHANGED <<entries, temps, default, changes, objs, weak, creating, news, subs, view, quitting>>
    BY <1>1 DEF OnAuthenticatorOperationResult, Types, SessionOK, admin, pool
  <1>3. Types'
    BY <1>1, <1>2 DEF Types
  <1>4. References'
    BY <1>1, <1>2, Constants DEF References
  <1>5. Current'
    BY <1>2, AuthenticatorKept DEF Alive
  <1>6. ASSUME NEW t \in Sessions PROVE SessionOK(t)'
    BY <1>1, <1>2, Constants DEF SessionsOK, SessionOK, Out, Stale
  <1> QED
    BY <1>3, <1>4, <1>5, <1>6 DEF Inv, SessionsOK

\* What the session knows of its user after it has looked.
LEMMA LookFacts ==
    ASSUME Inv, NEW s \in Sessions, user[s] # 0, Look(s), UNCHANGED <<user, objs>>
    PROVE  /\ view' \in [Sessions -> Settings] /\ quitting' \subseteq Sessions
           /\ s \notin quitting' => ~ Out(s)' /\ ~ Stale(s)'
           /\ \A t \in Sessions \ {s} : view'[t] = view[t] /\ (t \in quitting' <=> t \in quitting)
  <1>1. objs[user[s]] \in Object /\ view \in [Sessions -> Settings] /\ quitting \subseteq Sessions
    BY DEF Inv, Types
  <1> QED
    BY <1>1 DEF Look, Out, Stale, Object

LEMMA SectionStep ==
    ASSUME Inv, NEW s \in Sessions, Section(s)
    PROVE  Inv'
  <1>1. Types /\ References /\ Current /\ SessionsOK /\ SessionOK(s)
    BY DEF Inv, SessionsOK
  <1>2. /\ at[s] \in {1, 2} /\ user[s] # 0 /\ user[s] \in Slots /\ result[s] = 0
        /\ at' \in [Sessions -> 0..2] /\ at'[s] = (IF at[s] = 2 THEN 0 ELSE 2)
        /\ \A t \in Sessions \ {s} : at'[t] = at[t]
        /\ UNCHANGED <<entries, temps, default, changes, objs, weak, creating, news, result, user>>
    BY <1>1, TwoSections DEF Section, Types, SessionOK, admin, pool
  <1>3. Current'
    BY <1>2, AuthenticatorKept DEF Alive
  <1>4. CASE at[s] = 1
    <2>1. subs' = subs \cup {<<s, user[s]>>} /\ UNCHANGED <<view, quitting>>
      BY <1>4, TwoSections DEF Section
    <2>2. Types'
      BY <1>1, <1>2, <2>1 DEF Types
    <2>3. References'
      BY <1>1, <1>2, <2>1 DEF References
    <2>4. ASSUME NEW t \in Sessions PROVE SessionOK(t)'
      BY <1>1, <1>2, <1>4, <2>1 DEF SessionsOK, SessionOK, Out, Stale
    <2> QED
      BY <1>3, <2>2, <2>3, <2>4 DEF Inv, SessionsOK
  <1>5. CASE at[s] = 2
    <2>1. subs' = subs /\ Look(s)
      BY <1>5, TwoSections DEF Section
    <2>2. /\ view' \in [Sessions -> Settings] /\ quitting' \subseteq Sessions
          /\ s \notin quitting' => ~ Out(s)' /\ ~ Stale(s)'
          /\ \A t \in Sessions \ {s} : view'[t] = view[t] /\ (t \in quitting' <=> t \in quitting)
      BY <1>2, <2>1, LookFacts
    <2>3. Types'
      BY <1>1, <1>2, <2>1, <2>2 DEF Types
    <2>4. References'
      BY <1>1, <1>2, <2>1 DEF References
    <2>5. ASSUME NEW t \in Sessions PROVE SessionOK(t)'
      <3>1. CASE t = s
        BY <1>1, <1>2, <1>5, <2>1, <2>2, <3>1 DEF SessionOK
      <3>2. CASE t # s
        BY <1>1, <1>2, <2>1, <2>2, <3>2 DEF SessionsOK, SessionOK, Out, Stale
      <3> QED
        BY <3>1, <3>2
    <2> QED
      BY <1>3, <2>3, <2>4, <2>5 DEF Inv, SessionsOK
  <1> QED
    BY <1>2, <1>4, <1>5

LEMMA ChangedStep ==
    ASSUME Inv, NEW s \in Sessions, OnSharedUserChanged(s)
    PROVE  Inv'
  <1>1. Types /\ References /\ Current /\ SessionsOK /\ SessionOK(s)
    BY DEF Inv, SessionsOK
  <1> PICK o \in Slots :
        /\ <<s, o>> \in news /\ news' = news \ {<<s, o>>}
        /\ IF user[s] = o THEN Look(s) ELSE UNCHANGED <<view, quitting>>
    BY DEF OnSharedUserChanged
  <1>2. /\ at[s] = 0 /\ <<s, o>> \in subs /\ user[s] = o /\ o # 0 /\ Look(s)
        /\ UNCHANGED <<entries, temps, default, changes, objs, weak, creating, subs, result, user, at>>
    BY <1>1, Constants DEF OnSharedUserChanged, Types, References, admin, pool
  <1>3. /\ view' \in [Sessions -> Settings] /\ quitting' \subseteq Sessions
        /\ s \notin quitting' => ~ Out(s)' /\ ~ Stale(s)'
        /\ \A t \in Sessions \ {s} : view'[t] = view[t] /\ (t \in quitting' <=> t \in quitting)
    BY <1>2, LookFacts
  <1>4. Types'
    BY <1>1, <1>2, <1>3 DEF Types
  <1>5. References'
    BY <1>1, <1>2 DEF References
  <1>6. Current'
    BY <1>2, AuthenticatorKept DEF Alive
  <1>7. ASSUME NEW t \in Sessions PROVE SessionOK(t)'
    <2>1. CASE t = s
      BY <1>1, <1>2, <1>3, <2>1 DEF SessionOK
    <2>2. CASE t # s
      BY <1>1, <1>2, <1>3, <2>2 DEF SessionsOK, SessionOK, Out, Stale
    <2> QED
      BY <2>1, <2>2
  <1> QED
    BY <1>4, <1>5, <1>6, <1>7 DEF Inv, SessionsOK

LEMMA EndStep ==
    ASSUME Inv, NEW s \in Sessions, End(s)
    PROVE  Inv'
  <1>1. Types /\ References /\ Current /\ SessionsOK /\ SessionOK(s)
    BY DEF Inv, SessionsOK
  <1>2. /\ at[s] = 0 /\ subs' = subs \ {<<s, user[s]>>} /\ news' = {p \in news : p[1] # s}
        /\ result' \in [Sessions -> Slots \cup {0}] /\ result'[s] = 0
        /\ user' \in [Sessions -> Slots \cup {0}] /\ user'[s] = 0
        /\ view' \in [Sessions -> Settings] /\ quitting' = quitting \ {s}
        /\ \A t \in Sessions \ {s} :
             result'[t] = result[t] /\ user'[t] = user[t] /\ view'[t] = view[t]
        /\ UNCHANGED <<entries, temps, default, changes, objs, weak, creating, at>>
    <2>1. NoSettings \in Settings
      BY DEF NoSettings, Settings
    <2> QED
      BY <1>1, <2>1 DEF End, Unsubscribe, Types, admin, pool
  <1>3. \A o \in Slots : <<s, o>> \notin subs'
    BY <1>1, <1>2 DEF References
  <1>4. news' \subseteq subs'
    BY <1>1, <1>2 DEF Types
  <1>5. Types'
    BY <1>1, <1>2, <1>4 DEF Types
  <1>6. References'
    BY <1>1, <1>2, <1>3 DEF References
  <1>7. Current'
    BY <1>2, Constants, AuthenticatorKept DEF Alive
  <1>8. ASSUME NEW t \in Sessions PROVE SessionOK(t)'
    <2>1. CASE t = s
      BY <1>2, <2>1 DEF SessionOK, Out, Stale
    <2>2. CASE t # s
      <3>1. <<t, user[t]>> \in news => <<t, user[t]>> \in news'
        BY <1>2, <2>2
      <3>2. <<t, user[t]>> \in subs => <<t, user[t]>> \in subs'
        BY <1>2, <2>2
      <3> QED
        BY <1>1, <1>2, <2>2, <3>1, <3>2 DEF SessionsOK, SessionOK, Out, Stale
    <2> QED
      BY <2>1, <2>2
  <1> QED
    BY <1>5, <1>6, <1>7, <1>8 DEF Inv, SessionsOK

LEMMA StutterStep ==
    ASSUME Inv, UNCHANGED vars
    PROVE  Inv'
  BY DEF Inv, Types, References, Current, CurrentAt, Alive, SessionsOK, SessionOK, Out,
     Stale, vars, admin, pool

-----------------------------------------------------------------------------
(* The theorems.                                                            *)

LEMMA InvHolds == Spec => []Inv
  <1>1. Init => Inv
    BY InvInit
  <1>2. Inv /\ [Next]_vars => Inv'
    <2> SUFFICES ASSUME Inv, [Next]_vars PROVE Inv'
      OBVIOUS
    <2>1. CASE \E n \in Names : RemoveUser(n)
      BY <2>1, RemoveUserStep
    <2>2. CASE \E n \in Names \cup {Sys}, own, enabled \in BOOLEAN :
                  SetUser(n, [Entry(changes + 1, own) EXCEPT !.enabled = enabled])
      BY <2>2, SetUserStep
    <2>3. CASE \E token \in {None, "svc"} : SetDefault(token)
      BY <2>3, SetDefaultStep
    <2>4. CASE MakeTempUser \/ RemoveTempUser
      BY <2>4, ChangeTempStep
    <2>5. CASE \E o \in Slots : Created(o)
      BY <2>5, CreatedStep
    <2>6. CASE \E s \in Sessions, n \in Names \cup {Temp} : Authenticate(s, n)
      BY <2>6, AuthenticateStep
    <2>7. ASSUME NEW s \in Sessions,
                 \/ OnAuthenticatorOperationResult(s) \/ Section(s) \/ OnSharedUserChanged(s)
                 \/ HangUp(s) \/ OnEnded(s)
          PROVE  Inv'
      BY <2>7, ResultStep, SectionStep, ChangedStep, EndStep DEF HangUp, OnEnded
    <2>8. CASE UNCHANGED vars
      BY <2>8, StutterStep
    <2> QED
      BY <2>1, <2>2, <2>3, <2>4, <2>5, <2>6, <2>7, <2>8 DEF Next
  <1> QED
    BY <1>1, <1>2, PTL DEF Spec

\* The handlers of a shared user are those of the sessions that hold it, and
\* only they are told of changes (authentication/user.cpp).
THEOREM HandlersHold == Spec => []TypeOK
  <1>1. Inv => TypeOK
    <2> SUFFICES ASSUME Inv PROVE TypeOK
      OBVIOUS
    <2>1. Types /\ References
      BY DEF Inv
    <2>2. ASSUME NEW p \in subs PROVE user[p[1]] = p[2]
      <3>1. p[1] \in Sessions /\ p[2] \in Slots /\ p = <<p[1], p[2]>>
        BY <2>1 DEF Types
      <3> QED
        BY <2>1, <3>1 DEF References
    <2> QED
      BY <2>1, <2>2 DEF TypeOK, Types, References
  <1> QED
    BY <1>1, InvHolds, PTL

\* Whatever the administrator does and whoever logs in meanwhile, a shared user
\* that is held is the only one of its name and as its entry says, or disposed
\* of (update(), get_or_make_shared_user()).
THEOREM SharedUsersStayCurrent == Spec => []SharedUsersAreCurrent
  <1>1. Inv => SharedUsersAreCurrent
    BY DEF Inv, Current, CurrentAt, SharedUsersAreCurrent
  <1> QED
    BY <1>1, InvHolds, PTL

\* No change of a user is lost on a session, also if it comes between the
\* session's login and its subscription.
THEOREM NoChangeIsLost == Spec => []ChangesAreOnTheirWay
  <1>1. Inv => ChangesAreOnTheirWay
    BY DEF Inv, SessionsOK, SessionOK, ChangesAreOnTheirWay
  <1> QED
    BY <1>1, InvHolds, PTL

=============================================================================
