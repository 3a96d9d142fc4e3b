------------------------------ MODULE Identity ------------------------------
(***************************************************************************)
(* Accounts, sessions and logins: the handlers of routes/users.rs,         *)
(* routes/identity.rs and routes/reset.rs, the extractor of user_ctx.rs,   *)
(* the pending OIDC logins and the login rate limit of state.rs, and the   *)
(* commands of `maranode users`, which open users.db in a process of their *)
(* own.                                                                    *)
(*                                                                         *)
(* In the daemon UserDb is behind one mutex. A handler that only reads and *)
(* then inserts or deletes is one step here, whatever another process does *)
(* between its statements: the effect is that of a step before or after    *)
(* it. A handler that reads a row and writes all its columns back is two,  *)
(* with the mutex (txn) held between them. The command line does not take  *)
(* the mutex, and `set-password` waits for its prompt between the two.     *)
(***************************************************************************)
EXTENDS UserDb, Sequences

CONSTANTS
    Requests,               \* requests under way in the daemon
    Clis,                   \* `maranode users` processes
    States,                 \* CSRF state tokens of OIDC logins
    Ips,
    Prefix,                 \* token -> its first eight characters
    Lower,                  \* name -> its lower case
    AdminName, AdminKey,    \* "admin"; the key is the first admin's password
    DefaultRole,            \* of new OIDC and SAML users
    PendingTtl, Window,     \* lifetimes, in ticks
    MaxLogin, MaxReset,     \* attempts per window: 20 and 10
    MapCap,                 \* 4096
    U32Max

Prefixes == {Prefix[t] : t \in Tokens}

\* A request that has passed the extractor (at = "ctx"), that has matched a
\* session to revoke, or whose OIDC code is being exchanged.
Ctx    == [at: {"ctx"}, uid: Uids \cup {None}, role: Roles, token: Tokens \cup {None}]
Match  == [at: {"matched"}, uid: Uids \cup {None}, role: Roles, target: Uids, prefix: Prefixes]
Coded  == [at: {"exchange"}]

\* A row read to be written back with q applied; via names the provider if a
\* session follows.
Write  == [uid: Uids, was: Row, q: Patch, via: Sso \cup {None}]

\* An address's count and the start of its window.
Entry  == [count: 0..U32Max, start: 0..MaxNow]

ASSUME IdentityConstants ==
    /\ Prefix \in [Tokens -> Prefixes] /\ Lower \in [Names -> Names]
    /\ AdminName \in Names /\ AdminKey \in Passwords /\ DefaultRole \in Roles
    /\ PendingTtl \in Nat /\ Window \in Nat \ {0} /\ MapCap \in Nat
    /\ MaxLogin \in Nat \ {0} /\ MaxReset \in 0..MaxLogin
    /\ U32Max \in Nat /\ MaxLogin < U32Max
    /\ Resets \cap States = {}
    /\ None \notin Ctx \cup Match \cup Coded \cup Write \cup Entry \cup Uids \cup Tokens \cup Nat

VARIABLES
    req,      \* requests that are between two steps
    txn,      \* the daemon's write in preparation, under the mutex of user_db
    cli,      \* a command's write in preparation
    pending,  \* oidc_pending: state token -> when it expires
    issued,   \* state tokens generated so far
    limiter,  \* auth_ip_limiter: ip -> count and start of its window
    \* What the properties need to know:
    order,    \* the row as the orders given so far make it
    raced,    \* ids of which a command overwrote, or may have spoilt, a write
    uses,     \* one-time token -> how often it was accepted
    accepted  \* ip -> the instants of the attempts that passed the rate limit

idvars == << req, txn, cli, pending, issued, limiter, order, raced, uses, accepted >>
vars   == << dbvars, idvars >>

\* Every variable holds a value of the kind the code gives it.
IdTypeOK ==
    /\ DbTypeOK
    /\ req \in [Requests -> Ctx \cup Match \cup Coded \cup {None}]
    /\ txn \in Write \cup {None}
    /\ cli \in [Clis -> Write \cup {None}]
    /\ pending \in [States -> Nat \cup {None}]
    /\ issued \subseteq States
    /\ limiter \in [Ips -> Entry \cup {None}]
    /\ order \in [Uids -> Row \cup {None}]
    /\ raced \subseteq Uids
    /\ uses \in [Resets \cup States -> Nat]
    /\ accepted \in [Ips -> Seq(0..MaxNow)]

NoHistory == [ip \in Ips |-> << >>]
FirstAdmin == NewRow(AdminName, None, AdminKey, "admin", "local", None)

\* The first start of the daemon, with an admin key: the database is empty and
\* gets its admin.
Init ==
    /\ \E u \in Uids : /\ users = [v \in Uids |-> IF v = u THEN FirstAdmin ELSE None]
                       /\ minted = {u}
    /\ order = users
    /\ sessions = {} /\ resets = {} /\ now = 0
    /\ req = [p \in Requests |-> None] /\ txn = None /\ cli = [c \in Clis |-> None]
    /\ pending = [s \in States |-> None] /\ issued = {}
    /\ limiter = [ip \in Ips |-> None]
    /\ raced = {} /\ uses = [t \in Resets \cup States |-> 0] /\ accepted = NoHistory

\* The mutex of user_db can be taken.
Free == txn = None

-----------------------------------------------------------------------------
(* The rate limit: check_auth_ip_rate *)

Pruned ==
    IF Cardinality({ip \in Ips : limiter[ip] # None}) > MapCap
    THEN [ip \in Ips |-> IF limiter[ip] # None /\ now - limiter[ip].start < 2 * Window
                         THEN limiter[ip] ELSE None]
    ELSE limiter

Counted(ip) ==
    LET e == IF Pruned[ip] = None THEN [count |-> 0, start |-> now] ELSE Pruned[ip]
    IN  IF now - e.start >= Window
        THEN [count |-> 1, start |-> now]
        ELSE [e EXCEPT !.count = IF @ = U32Max THEN @ ELSE @ + 1]

\* Mutant of WithinRate: one attempt too many.
WithinRateOff(ip, max) ==
    \/ Pruned[ip] # None /\ now - Pruned[ip].start >= Window
    \/ Counted(ip).count <= max + 1

\* An attempt that starts a window anew is let through without a look at max.
WithinRate(ip, max) ==
    \/ Pruned[ip] # None /\ now - Pruned[ip].start >= Window
    \/ Counted(ip).count <= max

check_auth_ip_rate(ip, max) ==
    /\ limiter' = [Pruned EXCEPT ![ip] = Counted(ip)]
    /\ accepted' = IF WithinRate(ip, max)
                   THEN [accepted EXCEPT ![ip] = Append(@, now)] ELSE accepted

-----------------------------------------------------------------------------
(* Logins *)

\* Every login is recorded with the way it came.
OpenSession(u, via) ==
    \E t \in Tokens : create_session(u, t, via) /\ minted' = minted \cup {t}

CanLogin(name, pw) ==
    {u \in Named(name) : /\ users[u].active
                         /\ users[u].provider = "local"
                         /\ users[u].pw = pw}

login(ip, name, pw) ==
    /\ Free
    /\ check_auth_ip_rate(ip, MaxLogin)
    /\ IF WithinRate(ip, MaxLogin) /\ CanLogin(name, pw) # {}
       THEN \E u \in CanLogin(name, pw) : OpenSession(u, "local")
       ELSE UNCHANGED << sessions, minted >>
    /\ UNCHANGED << users, resets, now, req, txn, cli, pending, issued, order, raced, uses >>

\* The account of an external subject: created with a session, or read to have its
\* e-mail address brought up to date. Nothing else in it follows the provider.
upsert_sso_user_and_session(provider, sub, name, email, role) ==
    \/ \E u \in WithSub(provider, sub) :
          /\ Tokens \ minted # {}    \* bound: there is a token for the session
          /\ txn' = [uid |-> u, was |-> users[u], q |-> [NoPatch EXCEPT !.email = email],
                     via |-> provider]
          /\ UNCHANGED << users, sessions, minted, order >>
    \/ /\ WithSub(provider, sub) = {}
       /\ \E u \in Uids, t \in Tokens :
             LET row == NewRow(name, email, None, role, provider, sub)
             IN  /\ create(u, row)
                 /\ create_session(u, t, provider)
                 /\ minted' = minted \cup {u, t}
                 /\ order' = [order EXCEPT ![u] = row]
       /\ UNCHANGED txn

ldap_login(ip, sub, name, email, role) ==
    /\ Free
    /\ check_auth_ip_rate(ip, MaxLogin)
    /\ IF WithinRate(ip, MaxLogin)
       THEN upsert_sso_user_and_session("ldap", sub, name, email, role)
       ELSE UNCHANGED << users, sessions, minted, order, txn >>
    /\ UNCHANGED << resets, now, req, cli, pending, issued, raced, uses >>

saml_callback(sub, name, email) ==
    /\ Free
    /\ upsert_sso_user_and_session("saml", sub, name, email, DefaultRole)
    /\ UNCHANGED << resets, now, req, cli, pending, issued, limiter, raced, uses, accepted >>

\* A new entry; the expired ones are pruned.
oidc_pending_insert(s) ==
    pending' = [x \in States |->
                   IF x = s THEN now + PendingTtl
                   ELSE IF pending[x] # None /\ pending[x] > now THEN pending[x] ELSE None]

\* The entry is gone even if it had expired.
oidc_pending_take(s) == pending' = [pending EXCEPT ![s] = None]

\* The state token is stored once the provider has been discovered.
oidc_login(s) ==
    /\ s \in States \ issued
    /\ issued' = issued \cup {s}
    /\ oidc_pending_insert(s)
    /\ UNCHANGED << dbvars, req, txn, cli, limiter, order, raced, uses, accepted >>

\* Mutant of oidc_callback: the entry is left to be pruned.
OidcCallbackKeeps(p, s) ==
    /\ req[p] = None /\ pending[s] # None /\ ~(pending[s] < now)
    /\ req' = [req EXCEPT ![p] = [at |-> "exchange"]]
    /\ uses' = [uses EXCEPT ![s] = @ + 1]
    /\ UNCHANGED << dbvars, txn, cli, pending, issued, limiter, order, raced, accepted >>

\* A callback with a state that is stored; with any other nothing changes.
oidc_callback(p, s) ==
    /\ req[p] = None /\ pending[s] # None
    /\ oidc_pending_take(s)
    /\ IF pending[s] < now
       THEN UNCHANGED << req, uses >>
       ELSE /\ req' = [req EXCEPT ![p] = [at |-> "exchange"]]
            /\ uses' = [uses EXCEPT ![s] = @ + 1]
    /\ UNCHANGED << dbvars, txn, cli, issued, limiter, order, raced, accepted >>

\* The code has been exchanged for the claims of a subject.
OidcClaims(p, sub, name, email) ==
    /\ Free
    /\ req[p] # None /\ req[p].at = "exchange"
    /\ req' = [req EXCEPT ![p] = None]
    /\ upsert_sso_user_and_session("oidc", sub, name, email, DefaultRole)
    /\ UNCHANGED << resets, now, cli, pending, issued, limiter, raced, uses, accepted >>

-----------------------------------------------------------------------------
(* Requests of a session or of the admin key *)

\* UserCtx: the admin key stands for an admin without an id. The mutex is given
\* back before the handler runs.
Admit(p, t) ==
    /\ req[p] = None
    /\ \/ /\ t = None
          /\ req' = [req EXCEPT ![p] = [at |-> "ctx", uid |-> None, role |-> "admin",
                                       token |-> None]]
       \/ /\ Free
          /\ \E s \in Resolved(t) :
                req' = [req EXCEPT ![p] = [at |-> "ctx", uid |-> s.user,
                                           role |-> users[s.user].role, token |-> t]]
    /\ UNCHANGED << dbvars, txn, cli, pending, issued, limiter, order, raced, uses, accepted >>

IsCtx(p) == req[p] # None /\ req[p].at = "ctx"

\* Role::can_manage_users.
can_manage_users(role) == role = "admin"

\* AdminCtx, and the handler takes the mutex.
AdminCtx(p) == Free /\ IsCtx(p) /\ can_manage_users(req[p].role)

\* The handler of p answers.
Answered(p) == req' = [req EXCEPT ![p] = None]

create_user(p, name, email, pw, role) ==
    /\ AdminCtx(p)
    /\ \E u \in Uids :
          LET row == NewRow(Lower[name], email, pw, role, "local", None)
          IN  /\ create(u, row)
              /\ minted' = minted \cup {u}
              /\ order' = [order EXCEPT ![u] = row]
    /\ Answered(p)
    /\ UNCHANGED << sessions, resets, now, txn, cli, pending, issued, limiter, raced, uses,
                    accepted >>

\* get_by_id of update_user and of set_password; CommitWrite follows.
update_user(p, u, q) ==
    /\ AdminCtx(p)
    /\ users[u] # None
    /\ q.pw = None
    /\ txn' = [uid |-> u, was |-> users[u], q |-> q, via |-> None]
    /\ Answered(p)
    /\ UNCHANGED << dbvars, cli, pending, issued, limiter, order, raced, uses, accepted >>

set_password(p, u, pw) ==
    /\ AdminCtx(p)
    /\ users[u] # None
    /\ txn' = [uid |-> u, was |-> users[u], q |-> [NoPatch EXCEPT !.pw = pw], via |-> None]
    /\ Answered(p)
    /\ UNCHANGED << dbvars, cli, pending, issued, limiter, order, raced, uses, accepted >>

del_user(p, u) ==
    /\ AdminCtx(p)
    /\ users[u] # None
    /\ delete(u)
    /\ order' = [order EXCEPT ![u] = None]
    /\ Answered(p)
    /\ UNCHANGED << minted, now, txn, cli, pending, issued, limiter, raced, uses, accepted >>

\* delete_session of the token in the header; the admin key is the token of none.
logout(p) ==
    /\ Free /\ IsCtx(p)
    /\ sessions' = {s \in sessions : s.token # req[p].token}
    /\ Answered(p)
    /\ UNCHANGED << users, resets, minted, now, txn, cli, pending, issued, limiter, order,
                    raced, uses, accepted >>

\* The sessions the caller of p may see: list_all_sessions, list_sessions_for_user.
Listed(p) ==
    {s \in sessions : /\ s.exp > now
                      /\ IF can_manage_users(req[p].role) THEN users[s.user] # None
                                                          ELSE s.user = req[p].uid}

\* The first half of revoke_session: the newest listed session with the prefix.
revoke_session(p, prefix) ==
    /\ Free /\ IsCtx(p)
    /\ LET found == {s \in Listed(p) : Prefix[s.token] = prefix}
       IN  \E s \in found :
              /\ \A x \in found : x.exp <= s.exp
              /\ req' = [req EXCEPT ![p] = [at |-> "matched", uid |-> req[p].uid,
                                           role |-> req[p].role, target |-> s.user,
                                           prefix |-> prefix]]
    /\ UNCHANGED << dbvars, txn, cli, pending, issued, limiter, order, raced, uses, accepted >>

\* Mutant of ByPrefix: the owner is not compared.
ByPrefixAlone(u, prefix) == {s \in sessions : Prefix[s.token] = prefix}

\* What delete_session_by_prefix deletes.
ByPrefix(u, prefix) == {s \in sessions : s.user = u /\ Prefix[s.token] = prefix}

\* The second half, after the mutex was given back and taken again.
RevokeMatched(p) ==
    /\ Free
    /\ req[p] # None /\ req[p].at = "matched"
    /\ sessions' = sessions \ ByPrefix(req[p].target, req[p].prefix)
    /\ Answered(p)
    /\ UNCHANGED << users, resets, minted, now, txn, cli, pending, issued, limiter, order,
                    raced, uses, accepted >>

\* What delete_sessions_for_user_except leaves; the admin key has no id and so no
\* sessions.
Except(u, t) == {s \in sessions : s.user # u \/ s.token = t}

revoke_other_sessions(p) ==
    /\ Free /\ IsCtx(p)
    /\ sessions' = Except(req[p].uid, req[p].token)
    /\ Answered(p)
    /\ UNCHANGED << users, resets, minted, now, txn, cli, pending, issued, limiter, order,
                    raced, uses, accepted >>

\* The client goes away at an await, the provider fails, or the handler only reads
\* or refuses.
Dropped(p) ==
    /\ req[p] # None
    /\ Answered(p)
    /\ UNCHANGED << dbvars, txn, cli, pending, issued, limiter, order, raced, uses, accepted >>

-----------------------------------------------------------------------------
(* Password reset *)

\* The token is stored before the mail is sent, whether or not it can be.
request_reset(ip, email) ==
    /\ Free
    /\ check_auth_ip_rate(ip, MaxReset)
    /\ LET found == {u \in WithEmail(email) : users[u].active}
       IN  IF WithinRate(ip, MaxReset) /\ found # {}
           THEN \E u \in found, t \in Resets : /\ create_reset_token(u, t)
                                              /\ minted' = minted \cup {t}
           ELSE UNCHANGED << resets, minted >>
    /\ UNCHANGED << users, sessions, now, req, txn, cli, pending, issued, order, raced, uses >>

\* The token is consumed in one statement; the row is read and written after it.
confirm_reset(t, pw) ==
    /\ Free
    /\ \E r \in Redeemable(t) :
          /\ users[r.user] # None
          /\ txn' = [uid |-> r.user, was |-> users[r.user],
                     q |-> [NoPatch EXCEPT !.pw = pw], via |-> None]
    /\ consume_reset_token(t)
    /\ uses' = [uses EXCEPT ![t] = @ + 1]
    /\ UNCHANGED << users, sessions, minted, now, req, cli, pending, issued, limiter, order,
                    raced, accepted >>

-----------------------------------------------------------------------------
(* The second statement of a read-modify-write *)

\* What the orders in q ask of a row.
Obeyed(row, q) ==
    [f \in DOMAIN row |-> IF f \in DOMAIN q THEN Or(q[f], row[f]) ELSE row[f]]

\* The UPDATE of row w; it fails as a whole if an address is taken.
StoreRow(w) ==
    LET row == Patched(w.was, w.q)
    IN  IF Fits(w.uid, row)
        THEN /\ update(w.uid, row)
             /\ order' = IF users[w.uid] = None THEN order
                         ELSE [order EXCEPT ![w.uid] = Obeyed(@, w.q)]
        ELSE UNCHANGED << users, order >>

\* In the daemon. For a single sign-on the session follows, unless the row that was
\* read is that of a disabled account; the foreign key stops it if the row is gone.
CommitWrite ==
    /\ txn # None
    /\ StoreRow(txn)
    /\ IF /\ txn.via # None /\ txn.was.active
          /\ Fits(txn.uid, Patched(txn.was, txn.q)) /\ users[txn.uid] # None
       THEN OpenSession(txn.uid, txn.via)
       ELSE UNCHANGED << sessions, minted >>
    /\ txn' = None
    /\ UNCHANGED << resets, now, req, cli, pending, issued, limiter, raced, uses, accepted >>

-----------------------------------------------------------------------------
(* `maranode users`, beside the daemon *)

cmd_create(name, email, pw, role) ==
    /\ \E u \in Uids :
          LET row == NewRow(name, email, pw, role, "local", None)
          IN  /\ create(u, row)
              /\ minted' = minted \cup {u}
              /\ order' = [order EXCEPT ![u] = row]
    /\ UNCHANGED << sessions, resets, now, req, txn, cli, pending, issued, limiter, raced, uses,
                    accepted >>

cmd_delete(name) ==
    /\ \E u \in Named(name) : /\ delete(u)
                              /\ order' = [order EXCEPT ![u] = None]
    /\ UNCHANGED << minted, now, req, txn, cli, pending, issued, limiter, raced, uses, accepted >>

\* cmd_set_password reads the row, and then the new password from the terminal.
cmd_set_password(c, name, pw) ==
    /\ cli[c] = None
    /\ \E u \in Named(name) :
          /\ users[u].provider = "local"
          /\ cli' = [cli EXCEPT ![c] = [uid |-> u, was |-> users[u],
                                        q |-> [NoPatch EXCEPT !.pw = pw], via |-> None]]
    /\ UNCHANGED << dbvars, req, txn, pending, issued, limiter, order, raced, uses, accepted >>

\* Disable and Enable.
cmd_set_active(c, name, active) ==
    /\ cli[c] = None
    /\ \E u \in Named(name) :
          /\ users[u].active # active
          /\ cli' = [cli EXCEPT ![c] = [uid |-> u, was |-> users[u],
                                        q |-> [NoPatch EXCEPT !.active = active], via |-> None]]
    /\ UNCHANGED << dbvars, req, txn, pending, issued, limiter, order, raced, uses, accepted >>

\* The command writes the row it read; a write made since is undone, and one being
\* prepared in the daemon will undo this one.
CliWrites(c) ==
    /\ cli[c] # None
    /\ StoreRow(cli[c])
    /\ cli' = [cli EXCEPT ![c] = None]
    /\ raced' = IF \/ users[cli[c].uid] # cli[c].was
                   \/ txn # None /\ txn.uid = cli[c].uid
                THEN raced \cup {cli[c].uid} ELSE raced
    /\ UNCHANGED << sessions, resets, minted, now, req, txn, pending, issued, limiter, uses,
                    accepted >>

CliAborts(c) ==
    /\ cli[c] # None
    /\ cli' = [cli EXCEPT ![c] = None]
    /\ UNCHANGED << dbvars, req, txn, pending, issued, limiter, order, raced, uses, accepted >>

-----------------------------------------------------------------------------

\* The daemon dies anywhere and starts again: only users.db is kept, and the admin is
\* created if it holds no user.
Restart ==
    /\ IF \A u \in Uids : users[u] = None
       THEN \E u \in Uids : /\ create(u, FirstAdmin)
                             /\ minted' = minted \cup {u}
                             /\ order' = [order EXCEPT ![u] = FirstAdmin]
       ELSE UNCHANGED << users, minted, order >>
    /\ req' = [p \in Requests |-> None] /\ txn' = None
    /\ pending' = [s \in States |-> None]
    /\ limiter' = [ip \in Ips |-> None] /\ accepted' = NoHistory
    /\ UNCHANGED << sessions, resets, now, cli, issued, raced, uses >>

Tick ==
    /\ now < MaxNow
    /\ now' = now + 1
    /\ UNCHANGED << users, sessions, resets, minted, idvars >>

-----------------------------------------------------------------------------

Addresses == Emails \cup {None}

PasswordLogins ==
    \/ \E ip \in Ips, name \in Names, pw \in Passwords : login(ip, name, pw)
    \/ \E ip \in Ips, email \in Emails : request_reset(ip, email)
    \/ \E t \in Resets, pw \in Passwords : confirm_reset(t, pw)

SingleSignOns ==
    \E sub \in Subs, name \in Names, email \in Addresses :
        \/ \E ip \in Ips, role \in Roles : ldap_login(ip, sub, name, email, role)
        \/ saml_callback(sub, name, email)
        \/ \E p \in Requests : OidcClaims(p, sub, name, email)

OidcFlows ==
    \E s \in States : \/ oidc_login(s)
                      \/ \E p \in Requests : oidc_callback(p, s)

Administration ==
    \E p \in Requests :
        \/ \E name \in Names, email \in Addresses, pw \in Passwords \cup {None}, role \in Roles :
              create_user(p, name, email, pw, role)
        \/ \E u \in Uids : \/ \E q \in Patch : update_user(p, u, q)
                            \/ \E pw \in Passwords : set_password(p, u, pw)
                            \/ del_user(p, u)

SessionRequests ==
    \E p \in Requests :
        \/ \E t \in Tokens \cup {None} : Admit(p, t)
        \/ logout(p)
        \/ \E prefix \in Prefixes : revoke_session(p, prefix)
        \/ RevokeMatched(p)
        \/ revoke_other_sessions(p)
        \/ Dropped(p)

Commands ==
    \/ \E name \in Names, email \in Addresses, pw \in Passwords, role \in Roles :
          cmd_create(name, email, pw, role)
    \/ \E name \in Names : cmd_delete(name)
    \/ \E c \in Clis : \/ \E name \in Names : \/ \E pw \in Passwords : cmd_set_password(c, name, pw)
                                                \/ \E b \in BOOLEAN : cmd_set_active(c, name, b)
                      \/ CliWrites(c)
                      \/ CliAborts(c)

Next ==
    \/ PasswordLogins \/ SingleSignOns \/ OidcFlows \/ Administration \/ SessionRequests
    \/ Commands \/ CommitWrite \/ Restart \/ Tick

Spec == Init /\ [][Next]_vars

-----------------------------------------------------------------------------
(* Properties *)

\* Every row is as the orders given to it make it: an account that was disabled stays
\* disabled, a role taken away is gone, a new password is in force, whatever other
\* handlers rewrite the row (update writes all its columns). The exceptions are the
\* rows a command of `maranode users` overwrote, or wrote under a handler's hands.
OrdersStand == \A u \in Uids \ raced : users[u] = order[u]

\* One external subject has one account, though provider_sub is not UNIQUE.
OneAccountPerSubject ==
    \A u, v \in Uids :
        (/\ users[u] # None /\ users[v] # None /\ users[u].provider \in Sso
         /\ users[u].provider = users[v].provider /\ users[u].sub = users[v].sub) => u = v

\* A session came in through the door of its account: a password never opens the
\* account of a single sign-on user, even after a password reset has given it one.
OwnDoorOnly ==
    \A s \in sessions : users[s.user] # None /\ s.via = users[s.user].provider

\* An account belongs to its subject and to the way it was made for.
AccountsBound == OneAccountPerSubject /\ OwnDoorOnly

\* A reset token changes a password once and an OIDC state is exchanged once, with
\* callbacks side by side, expiry, crashes and restarts.
OneTimeTokens == \A t \in Resets \cup States : uses[t] <= 1

\* Within any span as long as the window at most twice the limit of attempts are let
\* through from one address: the window of check_auth_ip_rate starts with an attempt and
\* does not slide, so of the attempts let through one after another the first and the
\* last of 2 * MaxLogin + 1 are a window apart.
LoginBurstBounded ==
    \A ip \in Ips : \A i \in DOMAIN accepted[ip] :
        i + 2 * MaxLogin <= Len(accepted[ip]) =>
            accepted[ip][i + 2 * MaxLogin] - accepted[ip][i] >= Window

\* Accounts, sessions and rate windows are well-formed and bursts are bounded.
AttemptsBounded == IdTypeOK /\ LoginBurstBounded

\* A request of someone who may not manage users ends no session of another account,
\* although it names the session by eight characters and the mutex is given back
\* between finding and deleting it.
OthersStaySignedIn ==
    [][\A p \in Requests :
          (/\ req[p] # None /\ req[p].at \in {"ctx", "matched"}
           /\ ~can_manage_users(req[p].role) /\ req'[p] = None)
          => \A s \in sessions \ sessions' : s.user = req[p].uid]_vars
=============================================================================
