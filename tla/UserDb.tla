------------------------------- MODULE UserDb -------------------------------
(***************************************************************************)
(* users.db: the tables of maranode-store/src/sql/migrate_users.sql and    *)
(* the statements of user_db.rs on them. One statement is one step of      *)
(* SQLite; what a handler does between two of them is in Identity.         *)
(*                                                                         *)
(* last_login and created_at are left out: nothing is decided by them (the *)
(* order of sessions by created_at is that of expires_at, since all are    *)
(* given the same lifetime).                                               *)
(***************************************************************************)
EXTENDS Naturals, FiniteSets

CONSTANTS
    Uids, Names, Emails, Passwords, Roles, Subs,
    Tokens,                 \* session tokens
    Resets,                 \* password reset tokens
    SessionTtl, ResetTtl,   \* lifetimes, in ticks
    MaxNow,                 \* bound: the last instant
    None

Sso       == {"oidc", "ldap", "saml"}
Providers == Sso \cup {"local"}

Row == [name: Names, email: Emails \cup {None}, pw: Passwords \cup {None}, role: Roles,
        provider: Providers, sub: Subs \cup {None}, active: BOOLEAN]

Session == [token: Tokens, user: Uids, exp: Nat, via: Providers]
Reset   == [token: Resets, user: Uids, exp: Nat]

ASSUME UserDbConstants ==
    /\ SessionTtl \in Nat /\ ResetTtl \in Nat /\ MaxNow \in Nat
    /\ None \notin Row \cup Emails \cup Passwords \cup Roles \cup Subs \cup BOOLEAN
    /\ "admin" \in Roles

VARIABLES
    users,     \* id -> row
    sessions,
    resets,    \* password_reset_tokens
    minted,    \* ids and tokens generated so far: a UUID is never generated twice
    now

dbvars == << users, sessions, resets, minted, now >>

DbTypeOK ==
    /\ users \in [Uids -> Row \cup {None}]
    /\ sessions \subseteq Session
    /\ resets \subseteq Reset
    /\ minted \subseteq Uids \cup Tokens \cup Resets
    /\ now \in 0..MaxNow

-----------------------------------------------------------------------------
(* users *)

\* Option fields of a request: None leaves the column alone.
Patch   == [email: Emails \cup {None}, pw: Passwords \cup {None},
            role: Roles \cup {None}, active: BOOLEAN \cup {None}]
NoPatch == [email |-> None, pw |-> None, role |-> None, active |-> None]

Or(new, old) == IF new = None THEN old ELSE new

\* Mutant of Patched: the password column is written even if the request has none.
PatchedBlank(row, q) ==
    [row EXCEPT !.email = Or(q.email, @), !.pw = q.pw,
                !.role = Or(q.role, @), !.active = Or(q.active, @)]

Patched(row, q) ==
    [row EXCEPT !.email = Or(q.email, @), !.pw = Or(q.pw, @),
                !.role = Or(q.role, @), !.active = Or(q.active, @)]

NewRow(name, email, pw, role, provider, sub) ==
    [name |-> name, email |-> email, pw |-> pw, role |-> role,
     provider |-> provider, sub |-> sub, active |-> TRUE]

\* The UNIQUE columns let row be stored under u.
Fits(u, row) ==
    \A v \in Uids \ {u} :
        users[v] # None => /\ users[v].name # row.name
                           /\ users[v].email # row.email \/ row.email = None

Named(name) == {u \in Uids : users[u] # None /\ users[u].name = name}

WithEmail(email) == {u \in Uids : users[u] # None /\ users[u].email = email}

\* Mutant of WithSub: an account without an address is not found.
WithSubMailed(provider, sub) ==
    {u \in Uids : /\ users[u] # None /\ users[u].email # None
                  /\ users[u].provider = provider /\ users[u].sub = sub}

WithSub(provider, sub) ==
    {u \in Uids : /\ users[u] # None
                  /\ users[u].provider = provider /\ users[u].sub = sub}

\* INSERT INTO users, where the UNIQUE columns allow it.
create(u, row) ==
    /\ u \in Uids \ minted
    /\ Fits(u, row)
    /\ users' = [users EXCEPT ![u] = row]

\* UPDATE users SET every column WHERE id = u; no row, no effect.
update(u, row) == users' = IF users[u] = None THEN users ELSE [users EXCEPT ![u] = row]

\* DELETE FROM users; ON DELETE CASCADE takes the rows that refer to it.
delete(u) ==
    /\ users' = [users EXCEPT ![u] = None]
    /\ sessions' = {s \in sessions : s.user # u}
    /\ resets' = {r \in resets : r.user # u}

-----------------------------------------------------------------------------
(* sessions and reset tokens *)

create_session(u, t, via) ==
    /\ t \in Tokens \ minted
    /\ sessions' = {s \in sessions : ~(s.user = u /\ s.exp < now)}
                       \cup {[token |-> t, user |-> u, exp |-> now + SessionTtl, via |-> via]}

\* The sessions that resolve_session finds under t: unexpired, of an active user.
Resolved(t) == {s \in sessions : /\ s.token = t /\ s.exp > now
                                 /\ users[s.user] # None /\ users[s.user].active}

create_reset_token(u, t) ==
    /\ t \in Resets \ minted
    /\ resets' = {r \in resets : ~(r.exp < now)}
                     \cup {[token |-> t, user |-> u, exp |-> now + ResetTtl]}

Redeemable(t) == {r \in resets : r.token = t /\ r.exp > now}

consume_reset_token(t) == resets' = {r \in resets : r.token # t}
=============================================================================
