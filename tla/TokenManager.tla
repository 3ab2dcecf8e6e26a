---------------------------- MODULE TokenManager ----------------------------
(***************************************************************************)
(* The manager of the refresh tokens of the web interface                  *)
(* (authentication/token_manager.cpp) over its data base: the one in       *)
(* memory, whose ids are new, or the one in a file                         *)
(* (authentication/sqlite_token_db.cpp), which leaves the choice of the    *)
(* row to SQLite.                                                          *)
(*                                                                         *)
(* A token is an id and a number of the times it has been refreshed, with  *)
(* the name of its user, encrypted with the key of the data base; the same *)
(* id and number, encrypted with a key of the authorizator, make the       *)
(* access token that goes with it.                                         *)
(***************************************************************************)
EXTENDS Naturals, FiniteSetsExt

CONSTANTS
    Users,          \* names
    RowidsReused    \* the data base is SQLite's

ASSUME RowidsAssumption == RowidsReused \in BOOLEAN

(* The name in a token, and of a user, that is not there.                  *)
Nobody == "nobody"

ASSUME UsersAssumption == Nobody \notin Users

NoToken == [id |-> 0, n |-> 0, user |-> Nobody, key |-> 0]
Valid(token) == token.id # 0 /\ token.n # 0

EmptyDb == [rows |-> <<>>, next |-> 1, key |-> 1]

Ids(db) == DOMAIN db.rows

(* The id of the next row: SQLite takes the one after the largest in use.  *)
NextId(db) == IF RowidsReused THEN Max(Ids(db) \cup {0}) + 1 ELSE db.next

Row(user) == [user |-> user, n |-> 1, old |-> FALSE]

Token(db, id) == [id |-> id, n |-> db.rows[id].n, user |-> db.rows[id].user, key |-> db.key]

Insert(db, user) ==
    LET id == NextId(db)
    IN [db EXCEPT !.rows = [i \in Ids(db) \cup {id} |-> IF i = id THEN Row(user) ELSE @[i]],
                  !.next = @ + 1]

RemoveRow(db, id) == [db EXCEPT !.rows = [i \in Ids(db) \ {id} |-> @[i]]]

(* refresh: the token is exchanged for the one with the next number        *)
\* mutated form: an exchanged token is exchanged again
CanRefreshAnew(db, token) ==
    token.id \in Ids(db) /\ db.rows[token.id].user = token.user

CanRefresh(db, token) ==
    /\ token.id \in Ids(db)
    /\ db.rows[token.id].user = token.user
    /\ db.rows[token.id].n = token.n

Refresh(db, token) == [db EXCEPT !.rows[token.id].n = @ + 1]

(* destroy: any token of the id will do, of any number                     *)
\* mutated form: only the token that is valid now
DestroyCurrent(db, token) ==
    IF CanRefresh(db, token) THEN RemoveRow(db, token.id) ELSE db

Destroy(db, token) ==
    IF token.id \in Ids(db) /\ db.rows[token.id].user = token.user
    THEN RemoveRow(db, token.id) ELSE db

(* verify, and what it does to the data base: a token that has been        *)
(* exchanged already, or is too old, invalidates a row, the one whose id   *)
(* is the number of the token in the data base.                            *)
Stale(db, token) ==
    /\ token.id \in Ids(db) /\ db.rows[token.id].user = token.user
    /\ db.rows[token.id].n # token.n

Verifies(db, token) == CanRefresh(db, token) /\ ~db.rows[token.id].old

AfterVerify(db, token) ==
    IF Stale(db, token) \/ (CanRefresh(db, token) /\ db.rows[token.id].old)
    THEN RemoveRow(db, db.rows[token.id].n) ELSE db

(* reset: with another key no token of before can be decrypted any more.   *)
Reset(db) == [db EXCEPT !.rows = <<>>, !.key = @ + 1]
=============================================================================
