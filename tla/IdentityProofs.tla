--------------------------- MODULE IdentityProofs ---------------------------
(***************************************************************************)
(* For every set of accounts, handlers and commands: orders given to an    *)
(* account stand unless a command of another process spoilt its row,       *)
(* accounts keep their owner, one-time tokens are accepted once, the login *)
(* rate limit bounds bursts, and nobody but those who manage users ends a  *)
(* session of another account.                                             *)
(***************************************************************************)
EXTENDS Identity, TLAPS, SequenceTheorems

\* Carrying out a patch is what its orders ask.
LEMMA PatchObeys ==
    ASSUME NEW row \in Row, NEW q \in Patch
    PROVE  /\ Patched(row, q) = Obeyed(row, q)
           /\ Patched(row, q) \in Row
<1>1. \A f \in DOMAIN q : f \in {"email", "pw", "role", "active"}
  BY DEF Patch
<1>2. /\ Or(q.email, row.email) \in Emails \cup {None}
      /\ Or(q.pw, row.pw) \in Passwords \cup {None}
      /\ Or(q.role, row.role) \in Roles
      /\ Or(q.active, row.active) \in BOOLEAN
  BY DEF Patch, Row, Or
<1>3. Patched(row, q) = [row EXCEPT !.email = Or(q.email, row.email), !.pw = Or(q.pw, row.pw),
                                    !.role = Or(q.role, row.role),
                                    !.active = Or(q.active, row.active)]
  BY DEF Patched
<1>4. Patched(row, q) \in Row
  BY <1>2, <1>3 DEF Row
<1>5. Patched(row, q) = Obeyed(row, q)
  BY <1>3, <1>1 DEF Row, Patch, Obeyed
<1> QED BY <1>4, <1>5

-----------------------------------------------------------------------------
(* Orders stand *)

RowsTyped ==
    /\ users \in [Uids -> Row \cup {None}]
    /\ order \in [Uids -> Row \cup {None}]
    /\ \A u \in Uids : users[u] = None <=> order[u] = None
    /\ txn \in Write \cup {None}
    /\ cli \in [Clis -> Write \cup {None}]

\* An id is used for one account only, so a row that is gone does not come back.
IdsMinted ==
    /\ \A u \in Uids : users[u] # None => u \in minted
    /\ txn # None => txn.uid \in minted

\* What a handler has read under the mutex is what is stored, unless a command came
\* in between.
ReadIsCurrent ==
    txn # None /\ txn.uid \notin raced => users[txn.uid] \in {txn.was, None}

OrdersInv == RowsTyped /\ IdsMinted /\ ReadIsCurrent /\ OrdersStand

RowFacts == << users, order, txn, cli, raced >>

\* A step that leaves rows alone and at most uses up an id or a token.
LEMMA RowsAlone ==
    ASSUME OrdersInv, UNCHANGED RowFacts, minted \subseteq minted'
    PROVE  OrdersInv'
BY DEF OrdersInv, RowsTyped, IdsMinted, ReadIsCurrent, OrdersStand, RowFacts

\* A new row under a new id.
LEMMA RowCreated ==
    ASSUME OrdersInv,
           NEW u, NEW row \in Row, create(u, row),
           order' = [order EXCEPT ![u] = row],
           minted \subseteq minted', u \in minted',
           UNCHANGED << cli, raced >>,
           txn' = txn \/ txn' = None
    PROVE  OrdersInv'
<1>0. None \notin Row
  BY UserDbConstants
<1>1. u \in Uids /\ u \notin minted /\ users' = [users EXCEPT ![u] = row]
  BY DEF create
<1>2. RowsTyped'
  BY <1>0, <1>1 DEF OrdersInv, RowsTyped
<1>3. IdsMinted'
  BY <1>1 DEF OrdersInv, RowsTyped, IdsMinted
<1>4. ReadIsCurrent'
  BY <1>1 DEF OrdersInv, RowsTyped, IdsMinted, ReadIsCurrent, Write
<1>5. OrdersStand'
  BY <1>1 DEF OrdersInv, RowsTyped, OrdersStand
<1> QED BY <1>2, <1>3, <1>4, <1>5 DEF OrdersInv

\* A row deleted, by a handler or by a command.
LEMMA RowDeleted ==
    ASSUME OrdersInv,
           NEW u \in Uids, delete(u),
           order' = [order EXCEPT ![u] = None],
           UNCHANGED << minted, txn, cli, raced >>
    PROVE  OrdersInv'
<1>1. users' = [users EXCEPT ![u] = None]
  BY DEF delete
<1>2. RowsTyped'
  BY <1>1 DEF OrdersInv, RowsTyped
<1>3. IdsMinted'
  BY <1>1 DEF OrdersInv, RowsTyped, IdsMinted
<1>4. ReadIsCurrent'
  BY <1>1 DEF OrdersInv, RowsTyped, ReadIsCurrent, Write
<1>5. OrdersStand'
  BY <1>1 DEF OrdersInv, RowsTyped, OrdersStand
<1> QED BY <1>2, <1>3, <1>4, <1>5 DEF OrdersInv

\* A handler takes the mutex and reads a row.
LEMMA RowRead ==
    ASSUME OrdersInv,
           NEW u \in Uids, NEW q \in Patch, NEW via \in Sso \cup {None},
           users[u] # None,
           txn' = [uid |-> u, was |-> users[u], q |-> q, via |-> via],
           UNCHANGED << users, order, cli, raced, minted >>
    PROVE  OrdersInv'
<1>1. users[u] \in Row
  BY DEF OrdersInv, RowsTyped
<1>2. txn' \in Write /\ txn'.uid = u /\ txn'.was = users[u]
  BY <1>1 DEF Write
<1>3. RowsTyped'
  BY <1>2 DEF OrdersInv, RowsTyped
<1>4. IdsMinted' /\ ReadIsCurrent' /\ OrdersStand'
  BY <1>2 DEF OrdersInv, RowsTyped, IdsMinted, ReadIsCurrent, OrdersStand
<1> QED BY <1>3, <1>4 DEF OrdersInv

\* An UPDATE of a row that is still as it was read does what was ordered.
LEMMA RowStored ==
    ASSUME OrdersInv,
           NEW w \in Write, StoreRow(w),
           w.uid \notin raced' => users[w.uid] \in {w.was, None},
           raced \subseteq raced',
           txn' # None => txn' = txn /\ (txn.uid # w.uid \/ txn.uid \in raced'),
           cli' \in [Clis -> Write \cup {None}],
           minted \subseteq minted'
    PROVE  OrdersInv'
<1> DEFINE row == Patched(w.was, w.q)
<1>0. None \notin Row /\ None \notin Write
  BY UserDbConstants, IdentityConstants
<1>1. w.uid \in Uids /\ w.was \in Row /\ w.q \in Patch
  BY DEF Write
<1>2. row = Obeyed(w.was, w.q) /\ row \in Row
  BY <1>1, PatchObeys
<1> HIDE DEF row
<1>3. \/ UNCHANGED << users, order >>
      \/ /\ users[w.uid] # None
         /\ users' = [users EXCEPT ![w.uid] = row]
         /\ order' = [order EXCEPT ![w.uid] = Obeyed(order[w.uid], w.q)]
  BY DEF StoreRow, update, row
<1>4. CASE UNCHANGED << users, order >>
  BY <1>4 DEF OrdersInv, RowsTyped, IdsMinted, ReadIsCurrent, OrdersStand
<1>5. CASE /\ users[w.uid] # None
           /\ users' = [users EXCEPT ![w.uid] = row]
           /\ order' = [order EXCEPT ![w.uid] = Obeyed(order[w.uid], w.q)]
  <2>1. w.uid \notin raced' => order[w.uid] = w.was /\ users[w.uid] = w.was
    BY <1>5, <1>1 DEF OrdersInv, OrdersStand
  <2>3. OrdersStand'
    BY <1>5, <1>1, <1>2, <2>1 DEF OrdersInv, RowsTyped, OrdersStand
  <2>4. IdsMinted'
    BY <1>5, <1>1 DEF OrdersInv, RowsTyped, IdsMinted
  <2>5. ReadIsCurrent'
    BY <1>5, <1>1 DEF OrdersInv, RowsTyped, ReadIsCurrent, Write
  <2>6. RowsTyped'
    <3>1. users' \in [Uids -> Row \cup {None}] /\ txn' \in Write \cup {None}
      BY <1>5, <1>1, <1>2 DEF OrdersInv, RowsTyped
    <3>2. order[w.uid] \in Row
      BY <1>5, <1>1 DEF OrdersInv, RowsTyped
    <3>3. Obeyed(order[w.uid], w.q) \in Row
      BY <3>2, <1>1, PatchObeys
    <3>4. order' \in [Uids -> Row \cup {None}]
      BY <3>3, <1>5 DEF OrdersInv, RowsTyped
    <3>5. \A u \in Uids : users'[u] = None <=> order'[u] = None
      BY <1>0, <1>1, <1>2, <1>5, <3>3 DEF OrdersInv, RowsTyped
    <3> QED BY <3>1, <3>4, <3>5 DEF RowsTyped
  <2> QED BY <2>3, <2>4, <2>5, <2>6 DEF OrdersInv
<1> QED BY <1>3, <1>4, <1>5

\* A new account is a row.
LEMMA NewRowTyped ==
    ASSUME NEW name \in Names, NEW email \in Addresses, NEW pw \in Passwords \cup {None},
           NEW role \in Roles, NEW provider \in Providers, NEW sub \in Subs \cup {None}
    PROVE  NewRow(name, email, pw, role, provider, sub) \in Row
BY DEF NewRow, Row, Addresses

\* The account of the first start is a row.
LEMMA FirstAdminTyped == FirstAdmin \in Row
BY UserDbConstants, IdentityConstants, NewRowTyped DEF FirstAdmin, Addresses, Providers

\* The patches that handlers and commands make.
LEMMA PatchesTyped ==
    /\ \A email \in Addresses : [NoPatch EXCEPT !.email = email] \in Patch
    /\ \A pw \in Passwords : [NoPatch EXCEPT !.pw = pw] \in Patch
    /\ \A b \in BOOLEAN : [NoPatch EXCEPT !.active = b] \in Patch
BY DEF NoPatch, Patch, Addresses

\* A session uses up a token.
LEMMA OpenSessionMints ==
    ASSUME NEW u, NEW via, OpenSession(u, via)
    PROVE  minted \subseteq minted'
BY DEF OpenSession

\* A single sign-on finds or creates an account.
LEMMA UpsertOrders ==
    ASSUME OrdersInv, Free,
           NEW provider \in Sso, NEW sub \in Subs, NEW name \in Names,
           NEW email \in Addresses, NEW role \in Roles,
           upsert_sso_user_and_session(provider, sub, name, email, role),
           UNCHANGED << cli, raced >>
    PROVE  OrdersInv'
<1>1. CASE \E u \in WithSub(provider, sub) :
              /\ txn' = [uid |-> u, was |-> users[u],
                         q |-> [NoPatch EXCEPT !.email = email], via |-> provider]
              /\ UNCHANGED << users, sessions, minted, order >>
  <2>1. PICK u \in WithSub(provider, sub) :
              /\ txn' = [uid |-> u, was |-> users[u],
                         q |-> [NoPatch EXCEPT !.email = email], via |-> provider]
              /\ UNCHANGED << users, sessions, minted, order >>
    BY <1>1
  <2>2. u \in Uids /\ users[u] # None
    BY DEF WithSub
  <2> QED BY <2>1, <2>2, RowRead, PatchesTyped
<1>2. CASE /\ \E u \in Uids, t \in Tokens :
                 LET row == NewRow(name, email, None, role, provider, sub)
                 IN  /\ create(u, row)
                     /\ create_session(u, t, provider)
                     /\ minted' = minted \cup {u, t}
                     /\ order' = [order EXCEPT ![u] = row]
           /\ UNCHANGED txn
  <2> DEFINE row == NewRow(name, email, None, role, provider, sub)
  <2>1. row \in Row
    BY NewRowTyped DEF Providers
  <2> HIDE DEF row
  <2>2. PICK u \in Uids, t \in Tokens : /\ create(u, row)
                                        /\ minted' = minted \cup {u, t}
                                        /\ order' = [order EXCEPT ![u] = row]
    BY <1>2 DEF row
  <2> QED BY <1>2, <2>1, <2>2, RowCreated
<1> QED BY <1>1, <1>2 DEF upsert_sso_user_and_session

\* A reset token belongs to an account that was there when it was asked for.
ResetsOwned == \A r \in resets : r.user \in Uids

\* Reset tokens are made for accounts.
LEMMA ResetsStep == ResetsOwned /\ [Next]_vars => ResetsOwned'
<1> SUFFICES ASSUME ResetsOwned, [Next]_vars PROVE ResetsOwned'
  OBVIOUS
<1>1. ASSUME resets' \subseteq resets PROVE ResetsOwned'
  BY <1>1 DEF ResetsOwned
<1>2. CASE PasswordLogins
  <2>1. ASSUME NEW ip \in Ips, NEW email \in Emails, request_reset(ip, email)
        PROVE  ResetsOwned'
    BY <2>1 DEF request_reset, create_reset_token, WithEmail, ResetsOwned
  <2> QED BY <1>1, <1>2, <2>1 DEF PasswordLogins, login, confirm_reset, consume_reset_token
<1>3. CASE SingleSignOns
  BY <1>1, <1>3 DEF SingleSignOns, ldap_login, saml_callback, OidcClaims
<1>4. CASE OidcFlows
  BY <1>1, <1>4 DEF OidcFlows, oidc_login, oidc_callback, dbvars
<1>5. CASE Administration
  BY <1>1, <1>5 DEF Administration, create_user, update_user, set_password, del_user, delete,
                    dbvars
<1>6. CASE SessionRequests
  BY <1>1, <1>6 DEF SessionRequests, Admit, logout, revoke_session, RevokeMatched,
                    revoke_other_sessions, Dropped, dbvars
<1>7. CASE Commands
  BY <1>1, <1>7 DEF Commands, cmd_create, cmd_delete, delete, cmd_set_password, cmd_set_active,
                    CliWrites, CliAborts, dbvars
<1>8. CASE CommitWrite \/ Restart \/ Tick \/ UNCHANGED vars
  BY <1>1, <1>8 DEF CommitWrite, Restart, Tick, vars, dbvars
<1> QED BY <1>2, <1>3, <1>4, <1>5, <1>6, <1>7, <1>8 DEF Next

\* At the start rows are as ordered, and nothing is being written.
LEMMA OrdersInit == Init => OrdersInv
<1> SUFFICES ASSUME Init PROVE OrdersInv
  OBVIOUS
<1>1. PICK u \in Uids : /\ users = [v \in Uids |-> IF v = u THEN FirstAdmin ELSE None]
                        /\ minted = {u}
  BY DEF Init
<1>2. txn = None /\ cli = [c \in Clis |-> None] /\ order = users
  BY DEF Init
<1> QED BY <1>1, <1>2, FirstAdminTyped
        DEF OrdersInv, RowsTyped, IdsMinted, ReadIsCurrent, OrdersStand

\* Every step keeps OrdersInv, action by action.
LEMMA OrdersStep == OrdersInv /\ ResetsOwned /\ [Next]_vars => OrdersInv'
<1> SUFFICES ASSUME OrdersInv, ResetsOwned, [Next]_vars PROVE OrdersInv'
  OBVIOUS
<1>1. CASE PasswordLogins
  <2>1. ASSUME NEW ip \in Ips, NEW name \in Names, NEW pw \in Passwords, login(ip, name, pw)
        PROVE  OrdersInv'
    <3>1. minted \subseteq minted'
      BY <2>1, OpenSessionMints DEF login
    <3>2. UNCHANGED RowFacts
      BY <2>1 DEF login, RowFacts
    <3> QED BY <3>1, <3>2, RowsAlone
  <2>2. ASSUME NEW ip \in Ips, NEW email \in Emails, request_reset(ip, email)
        PROVE  OrdersInv'
    <3>1. minted \subseteq minted'
      BY <2>2 DEF request_reset
    <3>2. UNCHANGED RowFacts
      BY <2>2 DEF request_reset, RowFacts
    <3> QED BY <3>1, <3>2, RowsAlone
  <2>3. ASSUME NEW t \in Resets, NEW pw \in Passwords, confirm_reset(t, pw)
        PROVE  OrdersInv'
    <3>1. PICK r \in Redeemable(t) :
                 /\ users[r.user] # None
                 /\ txn' = [uid |-> r.user, was |-> users[r.user],
                            q |-> [NoPatch EXCEPT !.pw = pw], via |-> None]
      BY <2>3 DEF confirm_reset
    <3>2. UNCHANGED << users, order, cli, raced, minted >>
      BY <2>3 DEF confirm_reset
    <3>3. CASE r.user \in Uids
      BY <3>1, <3>2, <3>3, RowRead, PatchesTyped
    <3>4. r.user \in Uids
      BY DEF Redeemable, ResetsOwned
    <3> QED BY <3>3, <3>4
  <2> QED BY <1>1, <2>1, <2>2, <2>3 DEF PasswordLogins
<1>2. CASE SingleSignOns
  <2>1. PICK sub \in Subs, name \in Names, email \in Addresses :
             \/ \E ip \in Ips, role \in Roles : ldap_login(ip, sub, name, email, role)
             \/ saml_callback(sub, name, email)
             \/ \E p \in Requests : OidcClaims(p, sub, name, email)
    BY <1>2 DEF SingleSignOns
  <2>2. ASSUME NEW ip \in Ips, NEW role \in Roles, ldap_login(ip, sub, name, email, role)
        PROVE  OrdersInv'
    <3>1. CASE upsert_sso_user_and_session("ldap", sub, name, email, role)
      BY <2>2, <3>1, UpsertOrders DEF ldap_login, Sso
    <3>2. CASE UNCHANGED << users, sessions, minted, order, txn >>
      BY <2>2, <3>2, RowsAlone DEF ldap_login, RowFacts
    <3> QED BY <2>2, <3>1, <3>2 DEF ldap_login
  <2>3. ASSUME saml_callback(sub, name, email) PROVE OrdersInv'
    BY <2>3, UpsertOrders, IdentityConstants DEF saml_callback, Sso
  <2>4. ASSUME NEW p \in Requests, OidcClaims(p, sub, name, email) PROVE OrdersInv'
    BY <2>4, UpsertOrders, IdentityConstants DEF OidcClaims, Sso
  <2> QED BY <2>1, <2>2, <2>3, <2>4
<1>3. CASE OidcFlows
  BY <1>3, RowsAlone DEF OidcFlows, oidc_login, oidc_callback, RowFacts, dbvars
<1>4. CASE Administration
  <2>1. PICK p \in Requests :
          \/ \E name \in Names, email \in Addresses, pw \in Passwords \cup {None}, role \in Roles :
                create_user(p, name, email, pw, role)
          \/ \E u \in Uids : \/ \E q \in Patch : update_user(p, u, q)
                              \/ \E pw \in Passwords : set_password(p, u, pw)
                              \/ del_user(p, u)
    BY <1>4 DEF Administration
  <2>2. ASSUME NEW name \in Names, NEW email \in Addresses, NEW pw \in Passwords \cup {None},
               NEW role \in Roles, create_user(p, name, email, pw, role)
        PROVE  OrdersInv'
    <3> DEFINE row == NewRow(Lower[name], email, pw, role, "local", None)
    <3>1. row \in Row
      BY NewRowTyped, IdentityConstants DEF Providers
    <3> HIDE DEF row
    <3>2. PICK u \in Uids : /\ create(u, row)
                            /\ minted' = minted \cup {u}
                            /\ order' = [order EXCEPT ![u] = row]
      BY <2>2 DEF create_user, row
    <3>3. UNCHANGED << cli, raced, txn >>
      BY <2>2 DEF create_user
    <3> QED BY <3>1, <3>2, <3>3, RowCreated
  <2>3. ASSUME NEW u \in Uids, NEW q \in Patch, update_user(p, u, q) PROVE OrdersInv'
    BY <2>3, RowRead DEF update_user, dbvars
  <2>4. ASSUME NEW u \in Uids, NEW pw \in Passwords, set_password(p, u, pw) PROVE OrdersInv'
    BY <2>4, RowRead, PatchesTyped DEF set_password, dbvars
  <2>5. ASSUME NEW u \in Uids, del_user(p, u) PROVE OrdersInv'
    BY <2>5, RowDeleted DEF del_user
  <2> QED BY <2>1, <2>2, <2>3, <2>4, <2>5
<1>5. CASE SessionRequests
  BY <1>5, RowsAlone
     DEF SessionRequests, Admit, logout, revoke_session, RevokeMatched, revoke_other_sessions,
         Dropped, RowFacts, dbvars
<1>6. CASE Commands
  <2>1. ASSUME NEW name \in Names, NEW email \in Addresses, NEW pw \in Passwords,
               NEW role \in Roles, cmd_create(name, email, pw, role)
        PROVE  OrdersInv'
    <3> DEFINE row == NewRow(name, email, pw, role, "local", None)
    <3>1. row \in Row
      BY NewRowTyped DEF Providers
    <3> HIDE DEF row
    <3>2. PICK u \in Uids : /\ create(u, row)
                            /\ minted' = minted \cup {u}
                            /\ order' = [order EXCEPT ![u] = row]
      BY <2>1 DEF cmd_create, row
    <3>3. UNCHANGED << cli, raced, txn >>
      BY <2>1 DEF cmd_create
    <3> QED BY <3>1, <3>2, <3>3, RowCreated
  <2>2. ASSUME NEW name \in Names, cmd_delete(name) PROVE OrdersInv'
    BY <2>2, RowDeleted DEF cmd_delete, Named
  <2>3. ASSUME NEW c \in Clis, NEW w \in Write, cli' = [cli EXCEPT ![c] = w],
               UNCHANGED << dbvars, txn, order, raced >>
        PROVE  OrdersInv'
    BY <2>3 DEF OrdersInv, RowsTyped, IdsMinted, ReadIsCurrent, OrdersStand, dbvars
  <2>4. \A u \in Uids : users[u] # None => users[u] \in Row
    BY DEF OrdersInv, RowsTyped
  <2>5. ASSUME NEW c \in Clis, NEW name \in Names, NEW pw \in Passwords,
               cmd_set_password(c, name, pw)
        PROVE  OrdersInv'
    <3>1. PICK u \in Named(name) :
             cli' = [cli EXCEPT ![c] = [uid |-> u, was |-> users[u],
                                        q |-> [NoPatch EXCEPT !.pw = pw], via |-> None]]
      BY <2>5 DEF cmd_set_password
    <3>2. [uid |-> u, was |-> users[u], q |-> [NoPatch EXCEPT !.pw = pw], via |-> None] \in Write
      BY <2>4, PatchesTyped DEF Named, Write
    <3> QED BY <2>5, <3>1, <3>2, <2>3 DEF cmd_set_password
  <2>6. ASSUME NEW c \in Clis, NEW name \in Names, NEW b \in BOOLEAN,
               cmd_set_active(c, name, b)
        PROVE  OrdersInv'
    <3>1. PICK u \in Named(name) :
             cli' = [cli EXCEPT ![c] = [uid |-> u, was |-> users[u],
                                        q |-> [NoPatch EXCEPT !.active = b], via |-> None]]
      BY <2>6 DEF cmd_set_active
    <3>2. [uid |-> u, was |-> users[u], q |-> [NoPatch EXCEPT !.active = b], via |-> None] \in Write
      BY <2>4, PatchesTyped DEF Named, Write
    <3> QED BY <2>6, <3>1, <3>2, <2>3 DEF cmd_set_active
  <2>7. ASSUME NEW c \in Clis, CliWrites(c) PROVE OrdersInv'
    <3>1. cli[c] \in Write
      BY <2>7 DEF CliWrites, OrdersInv, RowsTyped
    <3>2. cli' \in [Clis -> Write \cup {None}]
      BY <2>7 DEF CliWrites, OrdersInv, RowsTyped
    <3>3. /\ StoreRow(cli[c]) /\ UNCHANGED << txn, minted >>
          /\ raced \subseteq raced'
          /\ cli[c].uid \notin raced' => users[cli[c].uid] = cli[c].was
          /\ txn # None => txn.uid # cli[c].uid \/ txn.uid \in raced'
      BY <2>7 DEF CliWrites
    <3> QED BY <3>1, <3>2, <3>3, RowStored
  <2>8. ASSUME NEW c \in Clis, CliAborts(c) PROVE OrdersInv'
    BY <2>8 DEF CliAborts, OrdersInv, RowsTyped, IdsMinted, ReadIsCurrent, OrdersStand, dbvars
  <2> QED BY <1>6, <2>1, <2>2, <2>5, <2>6, <2>7, <2>8 DEF Commands
<1>7. CASE CommitWrite
  <2>1. txn \in Write /\ StoreRow(txn) /\ txn' = None /\ UNCHANGED << cli, raced >>
    BY <1>7 DEF CommitWrite, OrdersInv, RowsTyped
  <2>2. minted \subseteq minted'
    BY <1>7, OpenSessionMints DEF CommitWrite
  <2>3. txn.uid \notin raced => users[txn.uid] \in {txn.was, None}
    BY <1>7 DEF CommitWrite, OrdersInv, ReadIsCurrent
  <2>4. cli' \in [Clis -> Write \cup {None}]
    BY <2>1 DEF OrdersInv, RowsTyped
  <2> QED BY <2>1, <2>2, <2>3, <2>4, RowStored
<1>8. CASE Restart
  <2>1. UNCHANGED << cli, raced >> /\ txn' = None
    BY <1>8 DEF Restart
  <2>2. CASE UNCHANGED << users, minted, order >>
    BY <2>1, <2>2 DEF OrdersInv, RowsTyped, IdsMinted, ReadIsCurrent, OrdersStand
  <2>3. CASE \E u \in Uids : /\ create(u, FirstAdmin)
                              /\ minted' = minted \cup {u}
                              /\ order' = [order EXCEPT ![u] = FirstAdmin]
    BY <2>1, <2>3, FirstAdminTyped, RowCreated
  <2> QED BY <1>8, <2>2, <2>3 DEF Restart
<1>9. CASE Tick
  BY <1>9, RowsAlone DEF Tick, RowFacts, idvars
<1>10. CASE UNCHANGED vars
  BY <1>10, RowsAlone DEF vars, RowFacts, idvars, dbvars
<1> QED BY <1>1, <1>2, <1>3, <1>4, <1>5, <1>6, <1>7, <1>8, <1>9, <1>10 DEF Next

\* Whatever handlers, commands and crashes do side by side, a row differs from what
\* was last ordered of it only if a command of `maranode users` wrote it from an old
\* copy or while a handler was at it: the mutex of user_db keeps handlers from undoing
\* one another although update writes every column.
THEOREM OrdersAlwaysStand == Spec => []OrdersStand
<1>1. OrdersInv => OrdersStand
  BY DEF OrdersInv
<1>2. Init => ResetsOwned
  BY DEF Init, ResetsOwned
<1> QED BY <1>1, <1>2, OrdersInit, OrdersStep, ResetsStep, PTL DEF Spec

-----------------------------------------------------------------------------
(* Accounts keep their owner *)

\* The columns that say whose account a row is; no UPDATE changes them.
SameOwner(a, b) == a.provider = b.provider /\ a.sub = b.sub

\* A write in preparation over the rows us, with the ids in ms used up.
Bound(us, ms, w) ==
    /\ w.uid \in ms
    /\ us[w.uid] # None => SameOwner(us[w.uid], w.was)

PendingBound ==
    /\ txn # None => /\ Bound(users, minted, txn)
                     /\ txn.via # None => txn.via = txn.was.provider
    /\ \A c \in Clis : cli[c] # None => Bound(users, minted, cli[c])

SessionsOwned == \A s \in sessions : s.user \in Uids

OwnersInv == PendingBound /\ SessionsOwned /\ OwnDoorOnly /\ OneAccountPerSubject

\* What a step may do to the rows: change them under their owners or delete them, or
\* add an account for a subject that has none.
RowsKept ==
    \A u \in Uids : users'[u] # None => users[u] # None /\ SameOwner(users'[u], users[u])

RowAdded ==
    \E u \in Uids \ minted, row \in Row :
        /\ users' = [users EXCEPT ![u] = row]
        /\ row.provider \in Sso => WithSub(row.provider, row.sub) = {}

\* What it may do to the writes in preparation.
Fresh(w) == /\ UNCHANGED users
            /\ w.uid \in Uids /\ users[w.uid] # None /\ w.was = users[w.uid]

TxnStep == \/ txn' = txn \/ txn' = None
           \/ Fresh(txn') /\ (txn'.via # None => txn'.via = txn'.was.provider)

CliStep == \A c \in Clis : cli'[c] \in {cli[c], None} \/ Fresh(cli'[c])

\* And to the sessions.
SessionsStep ==
    \A s \in sessions' : /\ s.user \in Uids /\ users'[s.user] # None
                         /\ s \in sessions \/ s.via = users'[s.user].provider

\* Rows that keep provider and subject, or one for a subject without account, keep OwnersInv.
LEMMA OwnersKept ==
    ASSUME OrdersInv, OwnersInv, RowsKept \/ RowAdded, TxnStep, CliStep, SessionsStep,
           minted \subseteq minted'
    PROVE  OwnersInv'
<1>0. None \notin Row /\ None \notin Write
  BY UserDbConstants, IdentityConstants
<1>1. \A w \in Write : Bound(users, minted, w) => Bound(users', minted', w)
  <2>1. CASE RowsKept
    BY <2>1 DEF RowsKept, Bound, SameOwner, Write
  <2>2. CASE RowAdded
    BY <2>2 DEF RowAdded, Bound, Write, OrdersInv, RowsTyped
  <2> QED BY <2>1, <2>2
<1>2. ASSUME NEW w, Fresh(w) PROVE Bound(users', minted', w)
  BY <1>2 DEF Fresh, Bound, SameOwner, OrdersInv, IdsMinted
<1>3. PendingBound'
  <2>1. txn' # None => /\ Bound(users', minted', txn')
                       /\ txn'.via # None => txn'.via = txn'.was.provider
    <3>1. CASE txn' = txn \/ txn' = None
      BY <1>1, <3>1 DEF OwnersInv, PendingBound, OrdersInv, RowsTyped
    <3>2. CASE Fresh(txn') /\ (txn'.via # None => txn'.via = txn'.was.provider)
      BY <1>2, <3>2
    <3> QED BY <3>1, <3>2 DEF TxnStep
  <2>2. ASSUME NEW c \in Clis, cli'[c] # None PROVE Bound(users', minted', cli'[c])
    <3>1. CASE cli'[c] = cli[c]
      BY <1>1, <2>2, <3>1 DEF OwnersInv, PendingBound, OrdersInv, RowsTyped
    <3>2. CASE Fresh(cli'[c])
      BY <1>2, <3>2
    <3> QED BY <2>2, <3>1, <3>2 DEF CliStep
  <2> QED BY <2>1, <2>2 DEF PendingBound
<1>4. SessionsOwned'
  BY DEF SessionsStep, SessionsOwned
<1>5. OwnDoorOnly'
  <2> SUFFICES ASSUME NEW s \in sessions'
               PROVE  users'[s.user] # None /\ s.via = users'[s.user].provider
    BY DEF OwnDoorOnly
  <2>1. /\ s.user \in Uids /\ users'[s.user] # None
        /\ s \in sessions \/ s.via = users'[s.user].provider
    BY DEF SessionsStep
  <2>2. CASE s \in sessions
    <3>1. users[s.user] # None /\ s.via = users[s.user].provider
      BY <2>2 DEF OwnersInv, OwnDoorOnly
    <3>2. CASE RowsKept
      BY <2>1, <3>1, <3>2 DEF RowsKept, SameOwner
    <3>3. CASE RowAdded
      BY <2>1, <3>1, <3>3 DEF RowAdded, OrdersInv, RowsTyped, IdsMinted
    <3> QED BY <3>2, <3>3
  <2> QED BY <2>1, <2>2
<1>6. OneAccountPerSubject'
  <2>1. CASE RowsKept
    BY <2>1 DEF RowsKept, SameOwner, OwnersInv, OneAccountPerSubject
  <2>2. CASE RowAdded
    <3>1. PICK u \in Uids \ minted, row \in Row :
               /\ users' = [users EXCEPT ![u] = row]
               /\ row.provider \in Sso => WithSub(row.provider, row.sub) = {}
      BY <2>2 DEF RowAdded
    <3>2. users'[u] = row /\ \A v \in Uids : v # u => users'[v] = users[v]
      BY <3>1 DEF OrdersInv, RowsTyped
    <3>3. \A v \in Uids : (users[v] # None /\ row.provider \in Sso)
                          => ~(users[v].provider = row.provider /\ users[v].sub = row.sub)
      BY <3>1 DEF WithSub
    <3> QED BY <3>2, <3>3 DEF OwnersInv, OneAccountPerSubject
  <2> QED BY <2>1, <2>2
<1> QED BY <1>3, <1>4, <1>5, <1>6 DEF OwnersInv

\* The steps that change no row and open no session.
LEMMA OwnersAlone ==
    ASSUME OrdersInv, OwnersInv, UNCHANGED users, sessions' \subseteq sessions,
           TxnStep, CliStep, minted \subseteq minted'
    PROVE  OwnersInv'
<1>1. RowsKept
  BY DEF RowsKept, SameOwner
<1>2. SessionsStep
  BY DEF SessionsStep, OwnersInv, SessionsOwned, OwnDoorOnly
<1> QED BY <1>1, <1>2, OwnersKept

\* An account made for a subject that has none keeps OwnersInv.
LEMMA OwnersCreated ==
    ASSUME OrdersInv, OwnersInv,
           NEW u, NEW row \in Row, create(u, row),
           row.provider \in Sso => WithSub(row.provider, row.sub) = {},
           \A s \in sessions' : s \in sessions \/ (s.user = u /\ s.via = row.provider),
           txn' = txn \/ txn' = None, UNCHANGED cli, minted \subseteq minted'
    PROVE  OwnersInv'
<1>0. None \notin Row
  BY UserDbConstants
<1>1. u \in Uids \ minted /\ users' = [users EXCEPT ![u] = row]
  BY DEF create
<1>2. RowAdded
  BY <1>1 DEF RowAdded
<1>3. SessionsStep
  BY <1>0, <1>1 DEF SessionsStep, OwnersInv, SessionsOwned, OwnDoorOnly, OrdersInv, RowsTyped
<1>4. TxnStep /\ CliStep
  BY DEF TxnStep, CliStep
<1> QED BY <1>2, <1>3, <1>4, OwnersKept

\* A deleted account takes its sessions along.
LEMMA OwnersDeleted ==
    ASSUME OrdersInv, OwnersInv, NEW u \in Uids, delete(u), UNCHANGED << txn, cli, minted >>
    PROVE  OwnersInv'
<1>1. users' = [users EXCEPT ![u] = None]
  BY DEF delete
<1>2. RowsKept
  BY <1>1 DEF RowsKept, SameOwner, OrdersInv, RowsTyped
<1>3. SessionsStep
  BY <1>1 DEF delete, SessionsStep, OwnersInv, SessionsOwned, OwnDoorOnly, OrdersInv, RowsTyped
<1>4. TxnStep /\ CliStep
  BY DEF TxnStep, CliStep
<1> QED BY <1>2, <1>3, <1>4, OwnersKept

\* An UPDATE keeps the owner, and deletes nothing.
LEMMA StoreKeepsOwner ==
    ASSUME OrdersInv, NEW w \in Write, Bound(users, minted, w), StoreRow(w)
    PROVE  /\ RowsKept
           /\ \A u \in Uids : users[u] # None => users'[u] # None
<1> DEFINE row == Patched(w.was, w.q)
<1>0. None \notin Row
  BY UserDbConstants
<1>1. w.uid \in Uids /\ w.was \in Row /\ w.q \in Patch
  BY DEF Write
<1>2. row \in Row /\ SameOwner(row, w.was)
  BY <1>1, PatchObeys DEF Patched, SameOwner, Row
<1> HIDE DEF row
<1>3. \/ UNCHANGED users
      \/ users[w.uid] # None /\ users' = [users EXCEPT ![w.uid] = row]
  BY DEF StoreRow, update, row
<1>4. CASE UNCHANGED users
  BY <1>4 DEF RowsKept, SameOwner
<1>5. CASE users[w.uid] # None /\ users' = [users EXCEPT ![w.uid] = row]
  BY <1>0, <1>1, <1>2, <1>5 DEF RowsKept, SameOwner, Bound, OrdersInv, RowsTyped
<1> QED BY <1>3, <1>4, <1>5

\* A single sign-on finds the subject's account or makes the only one.
LEMMA UpsertOwners ==
    ASSUME OrdersInv, OwnersInv, Free,
           NEW provider \in Sso, NEW sub \in Subs, NEW name \in Names,
           NEW email \in Addresses, NEW role \in Roles,
           upsert_sso_user_and_session(provider, sub, name, email, role),
           UNCHANGED cli
    PROVE  OwnersInv'
<1>0. CliStep
  BY DEF CliStep
<1>1. CASE \E u \in WithSub(provider, sub) :
              /\ txn' = [uid |-> u, was |-> users[u],
                         q |-> [NoPatch EXCEPT !.email = email], via |-> provider]
              /\ UNCHANGED << users, sessions, minted, order >>
  <2>1. PICK u \in WithSub(provider, sub) :
              /\ txn' = [uid |-> u, was |-> users[u],
                         q |-> [NoPatch EXCEPT !.email = email], via |-> provider]
              /\ UNCHANGED << users, sessions, minted, order >>
    BY <1>1
  <2>2. u \in Uids /\ users[u] # None /\ users[u].provider = provider
    BY DEF WithSub
  <2>3. TxnStep
    BY <2>1, <2>2 DEF TxnStep, Fresh
  <2> QED BY <1>0, <2>1, <2>3, OwnersAlone
<1>2. CASE /\ WithSub(provider, sub) = {}
           /\ \E u \in Uids, t \in Tokens :
                 LET row == NewRow(name, email, None, role, provider, sub)
                 IN  /\ create(u, row)
                     /\ create_session(u, t, provider)
                     /\ minted' = minted \cup {u, t}
                     /\ order' = [order EXCEPT ![u] = row]
           /\ UNCHANGED txn
  <2> DEFINE row == NewRow(name, email, None, role, provider, sub)
  <2>1. row \in Row /\ row.provider = provider /\ row.sub = sub
    BY NewRowTyped DEF Providers, NewRow
  <2> HIDE DEF row
  <2>2. PICK u \in Uids, t \in Tokens : /\ create(u, row)
                                        /\ create_session(u, t, provider)
                                        /\ minted' = minted \cup {u, t}
    BY <1>2 DEF row
  <2>3. \A s \in sessions' : s \in sessions \/ (s.user = u /\ s.via = row.provider)
    BY <2>1, <2>2 DEF create_session
  <2> QED BY <1>2, <2>1, <2>2, <2>3, OwnersCreated
<1> QED BY <1>1, <1>2 DEF upsert_sso_user_and_session

\* At the start there is at most the first account, without a subject.
LEMMA OwnersInit == Init => OwnersInv
<1> SUFFICES ASSUME Init PROVE OwnersInv
  OBVIOUS
<1>1. PICK u \in Uids : users = [v \in Uids |-> IF v = u THEN FirstAdmin ELSE None]
  BY DEF Init
<1>2. txn = None /\ cli = [c \in Clis |-> None] /\ sessions = {}
  BY DEF Init
<1> QED BY <1>1, <1>2
        DEF OwnersInv, PendingBound, SessionsOwned, OwnDoorOnly, OneAccountPerSubject

\* Every step keeps OwnersInv, action by action.
LEMMA OwnersStep == OrdersInv /\ ResetsOwned /\ OwnersInv /\ [Next]_vars => OwnersInv'
<1> SUFFICES ASSUME OrdersInv, ResetsOwned, OwnersInv, [Next]_vars PROVE OwnersInv'
  OBVIOUS
<1>0. (txn' = txn \/ txn' = None => TxnStep) /\ (cli' = cli => CliStep)
  BY DEF TxnStep, CliStep
<1>1. ASSUME NEW u \in Uids, users[u] # None, NEW q,
             txn' = [uid |-> u, was |-> users[u], q |-> q, via |-> None],
             UNCHANGED << users, cli, minted >>, sessions' = sessions
      PROVE  OwnersInv'
  <2>1. TxnStep
    BY <1>1 DEF TxnStep, Fresh
  <2> QED BY <1>0, <1>1, <2>1, OwnersAlone
<1>2. CASE PasswordLogins
  <2>1. ASSUME NEW ip \in Ips, NEW name \in Names, NEW pw \in Passwords, login(ip, name, pw)
        PROVE  OwnersInv'
    <3>1. UNCHANGED << users, txn, cli >> /\ RowsKept
      BY <2>1 DEF login, RowsKept, SameOwner
    <3>2. CASE UNCHANGED << sessions, minted >>
      BY <1>0, <3>1, <3>2, OwnersAlone
    <3>3. CASE \E u \in CanLogin(name, pw) : OpenSession(u, "local")
      <4>1. PICK u \in CanLogin(name, pw), t \in Tokens :
                 create_session(u, t, "local") /\ minted' = minted \cup {t}
        BY <3>3 DEF OpenSession
      <4>2. u \in Uids /\ users[u] # None /\ users[u].provider = "local"
        BY DEF CanLogin, Named
      <4>3. SessionsStep
        BY <3>1, <4>1, <4>2
           DEF SessionsStep, create_session, OwnersInv, SessionsOwned, OwnDoorOnly
      <4> QED BY <1>0, <3>1, <4>1, <4>3, OwnersKept
    <3> QED BY <2>1, <3>2, <3>3 DEF login
  <2>2. ASSUME NEW ip \in Ips, NEW email \in Emails, request_reset(ip, email)
        PROVE  OwnersInv'
    <3>1. minted \subseteq minted' /\ UNCHANGED << users, sessions, txn, cli >>
      BY <2>2 DEF request_reset
    <3> QED BY <1>0, <3>1, OwnersAlone
  <2>3. ASSUME NEW t \in Resets, NEW pw \in Passwords, confirm_reset(t, pw)
        PROVE  OwnersInv'
    <3>1. PICK r \in Redeemable(t) :
                 /\ users[r.user] # None
                 /\ txn' = [uid |-> r.user, was |-> users[r.user],
                            q |-> [NoPatch EXCEPT !.pw = pw], via |-> None]
      BY <2>3 DEF confirm_reset
    <3>2. UNCHANGED << users, sessions, cli, minted >>
      BY <2>3 DEF confirm_reset
    <3>3. r.user \in Uids
      BY DEF Redeemable, ResetsOwned
    <3> QED BY <1>1, <3>1, <3>2, <3>3
  <2> QED BY <1>2, <2>1, <2>2, <2>3 DEF PasswordLogins
<1>3. CASE SingleSignOns
  <2>1. PICK sub \in Subs, name \in Names, email \in Addresses :
             \/ \E ip \in Ips, role \in Roles : ldap_login(ip, sub, name, email, role)
             \/ saml_callback(sub, name, email)
             \/ \E p \in Requests : OidcClaims(p, sub, name, email)
    BY <1>3 DEF SingleSignOns
  <2>2. ASSUME NEW ip \in Ips, NEW role \in Roles, ldap_login(ip, sub, name, email, role)
        PROVE  OwnersInv'
    <3>1. CASE upsert_sso_user_and_session("ldap", sub, name, email, role)
      BY <2>2, <3>1, UpsertOwners DEF ldap_login, Sso
    <3>2. CASE UNCHANGED << users, sessions, minted, order, txn >>
      BY <1>0, <2>2, <3>2, OwnersAlone DEF ldap_login
    <3> QED BY <2>2, <3>1, <3>2 DEF ldap_login
  <2>3. ASSUME saml_callback(sub, name, email) PROVE OwnersInv'
    BY <2>3, UpsertOwners, IdentityConstants DEF saml_callback, Sso
  <2>4. ASSUME NEW p \in Requests, OidcClaims(p, sub, name, email) PROVE OwnersInv'
    BY <2>4, UpsertOwners, IdentityConstants DEF OidcClaims, Sso
  <2> QED BY <2>1, <2>2, <2>3, <2>4
<1>4. CASE OidcFlows
  <2>1. UNCHANGED << users, sessions, minted, txn, cli >>
    BY <1>4 DEF OidcFlows, oidc_login, oidc_callback, dbvars
  <2> QED BY <1>0, <2>1, OwnersAlone
<1>5. CASE Administration
  <2>1. PICK p \in Requests :
          \/ \E name \in Names, email \in Addresses, pw \in Passwords \cup {None}, role \in Roles :
                create_user(p, name, email, pw, role)
          \/ \E u \in Uids : \/ \E q \in Patch : update_user(p, u, q)
                              \/ \E pw \in Passwords : set_password(p, u, pw)
                              \/ del_user(p, u)
    BY <1>5 DEF Administration
  <2>2. ASSUME NEW name \in Names, NEW email \in Addresses, NEW pw \in Passwords \cup {None},
               NEW role \in Roles, create_user(p, name, email, pw, role)
        PROVE  OwnersInv'
    <3> DEFINE row == NewRow(Lower[name], email, pw, role, "local", None)
    <3>1. row \in Row /\ row.provider \notin Sso
      BY NewRowTyped, IdentityConstants DEF Providers, NewRow, Sso
    <3> HIDE DEF row
    <3>2. PICK u \in Uids : create(u, row) /\ minted' = minted \cup {u}
      BY <2>2 DEF create_user, row
    <3>3. UNCHANGED << sessions, cli, txn >>
      BY <2>2 DEF create_user
    <3> QED BY <3>1, <3>2, <3>3, OwnersCreated
  <2>3. ASSUME NEW u \in Uids, NEW q \in Patch, update_user(p, u, q) PROVE OwnersInv'
    BY <2>3, <1>1 DEF update_user, dbvars
  <2>4. ASSUME NEW u \in Uids, NEW pw \in Passwords, set_password(p, u, pw) PROVE OwnersInv'
    BY <2>4, <1>1 DEF set_password, dbvars
  <2>5. ASSUME NEW u \in Uids, del_user(p, u) PROVE OwnersInv'
    BY <2>5, OwnersDeleted DEF del_user
  <2> QED BY <2>1, <2>2, <2>3, <2>4, <2>5
<1>6. CASE SessionRequests
  <2>1. UNCHANGED << users, minted, txn, cli >> /\ sessions' \subseteq sessions
    BY <1>6 DEF SessionRequests, Admit, logout, revoke_session, RevokeMatched,
                revoke_other_sessions, Except, Dropped, dbvars
  <2> QED BY <1>0, <2>1, OwnersAlone
<1>7. CASE Commands
  <2>1. ASSUME NEW name \in Names, NEW email \in Addresses, NEW pw \in Passwords,
               NEW role \in Roles, cmd_create(name, email, pw, role)
        PROVE  OwnersInv'
    <3> DEFINE row == NewRow(name, email, pw, role, "local", None)
    <3>1. row \in Row /\ row.provider \notin Sso
      BY NewRowTyped DEF Providers, NewRow, Sso
    <3> HIDE DEF row
    <3>2. PICK u \in Uids : create(u, row) /\ minted' = minted \cup {u}
      BY <2>1 DEF cmd_create, row
    <3>3. UNCHANGED << sessions, cli, txn >>
      BY <2>1 DEF cmd_create
    <3> QED BY <3>1, <3>2, <3>3, OwnersCreated
  <2>2. ASSUME NEW name \in Names, cmd_delete(name) PROVE OwnersInv'
    BY <2>2, OwnersDeleted DEF cmd_delete, Named
  <2>3. ASSUME NEW c \in Clis, NEW u \in Uids, users[u] # None, NEW q,
               cli' = [cli EXCEPT ![c] = [uid |-> u, was |-> users[u], q |-> q, via |-> None]],
               UNCHANGED << dbvars, txn >>
        PROVE  OwnersInv'
    <3>1. CliStep
      BY <2>3 DEF CliStep, Fresh, dbvars, OrdersInv, RowsTyped
    <3> QED BY <1>0, <2>3, <3>1, OwnersAlone DEF dbvars
  <2>4. ASSUME NEW c \in Clis, NEW name \in Names, NEW pw \in Passwords,
               cmd_set_password(c, name, pw)
        PROVE  OwnersInv'
    BY <2>3, <2>4 DEF cmd_set_password, Named
  <2>5. ASSUME NEW c \in Clis, NEW name \in Names, NEW b \in BOOLEAN,
               cmd_set_active(c, name, b)
        PROVE  OwnersInv'
    BY <2>3, <2>5 DEF cmd_set_active, Named
  <2>6. ASSUME NEW c \in Clis, cli' = [cli EXCEPT ![c] = None] PROVE CliStep
    BY <2>6 DEF CliStep, OrdersInv, RowsTyped
  <2>7. ASSUME NEW c \in Clis, CliWrites(c) PROVE OwnersInv'
    <3>1. cli[c] \in Write /\ Bound(users, minted, cli[c])
      BY <2>7 DEF CliWrites, OrdersInv, RowsTyped, OwnersInv, PendingBound
    <3>2. /\ StoreRow(cli[c]) /\ cli' = [cli EXCEPT ![c] = None]
          /\ UNCHANGED << txn, minted, sessions >>
      BY <2>7 DEF CliWrites
    <3>3. RowsKept /\ \A u \in Uids : users[u] # None => users'[u] # None
      BY <3>1, <3>2, StoreKeepsOwner
    <3>4. SessionsStep
      BY <3>2, <3>3 DEF SessionsStep, OwnersInv, SessionsOwned, OwnDoorOnly
    <3> QED BY <1>0, <2>6, <3>2, <3>3, <3>4, OwnersKept
  <2>8. ASSUME NEW c \in Clis, CliAborts(c) PROVE OwnersInv'
    BY <1>0, <2>6, <2>8, OwnersAlone DEF CliAborts, dbvars
  <2> QED BY <1>7, <2>1, <2>2, <2>4, <2>5, <2>7, <2>8 DEF Commands
<1>8. CASE CommitWrite
  <2>1. txn \in Write /\ Bound(users, minted, txn) /\ (txn.via # None => txn.via = txn.was.provider)
    BY <1>8 DEF CommitWrite, OrdersInv, RowsTyped, OwnersInv, PendingBound
  <2>2. StoreRow(txn) /\ txn' = None /\ UNCHANGED cli
    BY <1>8 DEF CommitWrite
  <2>3. RowsKept /\ \A u \in Uids : users[u] # None => users'[u] # None
    BY <2>1, <2>2, StoreKeepsOwner
  <2>4. CASE UNCHANGED << sessions, minted >>
    <3>1. SessionsStep
      BY <2>3, <2>4 DEF SessionsStep, OwnersInv, SessionsOwned, OwnDoorOnly
    <3> QED BY <1>0, <2>2, <2>3, <2>4, <3>1, OwnersKept
  <2>5. CASE txn.via # None /\ users[txn.uid] # None /\ OpenSession(txn.uid, txn.via)
    <3>1. PICK t \in Tokens : create_session(txn.uid, t, txn.via) /\ minted' = minted \cup {t}
      BY <2>5 DEF OpenSession
    <3>2. txn.uid \in Uids
      BY <2>1 DEF Write
    <3>3. users'[txn.uid] # None /\ txn.via = users'[txn.uid].provider
      BY <2>1, <2>3, <2>5, <3>2 DEF RowsKept, SameOwner, Bound
    <3>4. SessionsStep
      BY <2>3, <3>1, <3>2, <3>3
         DEF SessionsStep, create_session, OwnersInv, SessionsOwned, OwnDoorOnly
    <3> QED BY <1>0, <2>2, <2>3, <3>1, <3>4, OwnersKept
  <2> QED BY <1>8, <2>4, <2>5 DEF CommitWrite
<1>9. CASE Restart
  <2>1. UNCHANGED << cli, sessions >> /\ txn' = None
    BY <1>9 DEF Restart
  <2>2. CASE UNCHANGED << users, minted, order >>
    BY <1>0, <2>1, <2>2, OwnersAlone
  <2>3. CASE \E u \in Uids : create(u, FirstAdmin) /\ minted' = minted \cup {u}
    <3>1. FirstAdmin.provider \notin Sso
      BY DEF FirstAdmin, NewRow, Sso
    <3> QED BY <2>1, <2>3, <3>1, FirstAdminTyped, OwnersCreated
  <2> QED BY <1>9, <2>2, <2>3 DEF Restart
<1>10. CASE Tick \/ UNCHANGED vars
  <2>1. UNCHANGED << users, sessions, minted, txn, cli >>
    BY <1>10 DEF Tick, vars, dbvars, idvars
  <2> QED BY <1>0, <2>1, OwnersAlone
<1> QED BY <1>2, <1>3, <1>4, <1>5, <1>6, <1>7, <1>8, <1>9, <1>10 DEF Next

\* An external subject never has two accounts, and an account is entered only by the
\* way it was made for: the columns that decide both are written once, an account of a
\* subject is looked for under the mutex before one is inserted, and a deleted account
\* takes its sessions along.
THEOREM AccountsKeepTheirOwner == Spec => []AccountsBound
<1>1. OwnersInv => AccountsBound
  BY DEF OwnersInv, AccountsBound
<1>2. Init => ResetsOwned
  BY DEF Init, ResetsOwned
<1> QED BY <1>1, <1>2, OrdersInit, OrdersStep, ResetsStep, OwnersInit, OwnersStep, PTL DEF Spec

-----------------------------------------------------------------------------
(* One-time tokens *)

UsesTyped == /\ uses \in [Resets \cup States -> Nat]
             /\ pending = [s \in States |-> pending[s]]

\* A state token that is still to come or still stored has not been used.
StatesOnce ==
    \A s \in States : /\ uses[s] <= 1
                      /\ s \notin issued => uses[s] = 0
                      /\ pending[s] # None => uses[s] = 0 /\ s \in issued

\* The same for reset tokens.
ResetsOnce ==
    /\ \A t \in Resets : uses[t] <= 1 /\ (t \notin minted => uses[t] = 0)
    /\ \A r \in resets : r.token \in minted /\ (r.token \in Resets => uses[r.token] = 0)

OnceInv == UsesTyped /\ StatesOnce /\ ResetsOnce

OnceFacts == << uses, pending, issued >>

\* A step that uses no token.
LEMMA OnceAlone ==
    ASSUME OnceInv, UNCHANGED OnceFacts, resets' \subseteq resets, minted \subseteq minted'
    PROVE  OnceInv'
BY DEF OnceInv, OnceFacts, UsesTyped, StatesOnce, ResetsOnce

\* A single sign-on gives no id or token back.
LEMMA UpsertMints ==
    ASSUME NEW provider, NEW sub, NEW name, NEW email, NEW role,
           upsert_sso_user_and_session(provider, sub, name, email, role)
    PROVE  minted \subseteq minted'
BY DEF upsert_sso_user_and_session

\* Every step keeps OnceInv, action by action.
LEMMA OnceStep == OnceInv /\ [Next]_vars => OnceInv'
<1> SUFFICES ASSUME OnceInv, [Next]_vars PROVE OnceInv'
  OBVIOUS
<1>0. Resets \cap States = {}
  BY IdentityConstants
<1>1. CASE PasswordLogins
  <2>1. ASSUME NEW ip \in Ips, NEW name \in Names, NEW pw \in Passwords, login(ip, name, pw)
        PROVE  OnceInv'
    <3>1. minted \subseteq minted'
      BY <2>1, OpenSessionMints DEF login
    <3> QED BY <2>1, <3>1, OnceAlone DEF login, OnceFacts
  <2>2. ASSUME NEW ip \in Ips, NEW email \in Emails, request_reset(ip, email)
        PROVE  OnceInv'
    <3>1. UNCHANGED OnceFacts
      BY <2>2 DEF request_reset, OnceFacts
    <3>2. CASE UNCHANGED << resets, minted >>
      BY <3>1, <3>2, OnceAlone
    <3>3. CASE \E u \in WithEmail(email), t \in Resets : /\ create_reset_token(u, t)
                                                         /\ minted' = minted \cup {t}
      BY <3>1, <3>3
         DEF create_reset_token, OnceInv, OnceFacts, UsesTyped, StatesOnce, ResetsOnce
    <3> QED BY <2>2, <3>2, <3>3 DEF request_reset
  <2>3. ASSUME NEW t \in Resets, NEW pw \in Passwords, confirm_reset(t, pw)
        PROVE  OnceInv'
    <3>1. /\ UNCHANGED << pending, issued, minted >>
          /\ uses' = [uses EXCEPT ![t] = @ + 1]
          /\ resets' = {r \in resets : r.token # t}
      BY <2>3 DEF confirm_reset, consume_reset_token
    <3>2. uses[t] = 0 /\ t \in minted
      BY <2>3 DEF confirm_reset, Redeemable, OnceInv, ResetsOnce
    <3> QED BY <1>0, <3>1, <3>2 DEF OnceInv, UsesTyped, StatesOnce, ResetsOnce
  <2> QED BY <1>1, <2>1, <2>2, <2>3 DEF PasswordLogins
<1>2. CASE SingleSignOns
  <2>1. minted \subseteq minted'
    BY <1>2, UpsertMints DEF SingleSignOns, ldap_login, saml_callback, OidcClaims
  <2> QED BY <1>2, <2>1, OnceAlone
          DEF SingleSignOns, ldap_login, saml_callback, OidcClaims, OnceFacts
<1>3. CASE OidcFlows
  <2>1. ASSUME NEW s \in States, oidc_login(s) PROVE OnceInv'
    BY <2>1 DEF oidc_login, oidc_pending_insert, dbvars, OnceInv, UsesTyped, StatesOnce, ResetsOnce
  <2>2. ASSUME NEW s \in States, NEW p \in Requests, oidc_callback(p, s) PROVE OnceInv'
    <3>1. /\ UNCHANGED << resets, minted, issued >>
          /\ pending[s] # None /\ pending' = [pending EXCEPT ![s] = None]
          /\ uses' = uses \/ uses' = [uses EXCEPT ![s] = @ + 1]
      BY <2>2 DEF oidc_callback, oidc_pending_take, dbvars
    <3>2. uses[s] = 0 /\ s \in issued
      BY <3>1 DEF OnceInv, StatesOnce
    <3> QED BY <1>0, <3>1, <3>2 DEF OnceInv, UsesTyped, StatesOnce, ResetsOnce
  <2> QED BY <1>3, <2>1, <2>2 DEF OidcFlows
<1>4. CASE Administration
  BY <1>4, OnceAlone DEF Administration, create_user, update_user, set_password, del_user, delete,
                         dbvars, OnceFacts
<1>5. CASE SessionRequests
  BY <1>5, OnceAlone DEF SessionRequests, Admit, logout, revoke_session, RevokeMatched,
                         revoke_other_sessions, Dropped, dbvars, OnceFacts
<1>6. CASE Commands
  BY <1>6, OnceAlone DEF Commands, cmd_create, cmd_delete, delete, cmd_set_password,
                         cmd_set_active, CliWrites, CliAborts, dbvars, OnceFacts
<1>7. CASE CommitWrite
  <2>1. minted \subseteq minted'
    BY <1>7, OpenSessionMints DEF CommitWrite
  <2> QED BY <1>7, <2>1, OnceAlone DEF CommitWrite, OnceFacts
<1>8. CASE Restart
  <2>1. /\ UNCHANGED << resets, issued, uses >> /\ minted \subseteq minted'
        /\ pending' = [s \in States |-> None]
    BY <1>8 DEF Restart
  <2> QED BY <2>1 DEF OnceInv, UsesTyped, StatesOnce, ResetsOnce
<1>9. CASE Tick \/ UNCHANGED vars
  BY <1>9, OnceAlone DEF Tick, vars, dbvars, idvars, OnceFacts
<1> QED BY <1>1, <1>2, <1>3, <1>4, <1>5, <1>6, <1>7, <1>8, <1>9 DEF Next

\* A reset token and an OIDC state are accepted at most once, for any number of
\* callbacks and confirmations side by side, any lifetimes, crashes and restarts: each is
\* taken out of its table in the step that accepts it, and none is generated twice.
THEOREM TokensWorkOnce == Spec => []OneTimeTokens
<1>1. Init => OnceInv
  BY DEF Init, OnceInv, UsesTyped, StatesOnce, ResetsOnce
<1>2. OnceInv => OneTimeTokens
  BY DEF OnceInv, UsesTyped, StatesOnce, ResetsOnce, OneTimeTokens
<1> QED BY <1>1, <1>2, OnceStep, PTL DEF Spec

-----------------------------------------------------------------------------
(* The rate limit *)

RateTyped ==
    /\ now \in 0..MaxNow
    /\ limiter \in [Ips -> Entry \cup {None}]
    /\ accepted \in [Ips -> Seq(0..MaxNow)]

\* The attempts s let through from an address whose running window started at b and has
\* counted c.  Those that do not belong to it came before its start, and those that are
\* MaxLogin further back more than a window before it.
Within(s, b, c) ==
    \A i \in DOMAIN s :
        /\ s[i] < b + Window
        /\ i + c <= Len(s) \/ i + MaxLogin <= Len(s) => s[i] < b
        /\ i + MaxLogin + c <= Len(s) \/ i + 2 * MaxLogin <= Len(s) => s[i] + Window < b

Spread(s) ==
    \A i \in DOMAIN s : i + 2 * MaxLogin <= Len(s) => s[i + 2 * MaxLogin] - s[i] >= Window

Paced(s, e, t) ==
    /\ e = None => \A i \in DOMAIN s : s[i] + Window < t
    /\ e # None => e.start <= t /\ Within(s, e.start, e.count)
    /\ Spread(s)

RateInv == RateTyped /\ \A ip \in Ips : Paced(accepted[ip], limiter[ip], now)

\* What is assumed of limits, window and counter.
LEMMA RateConstants ==
    /\ MaxNow \in Nat /\ Window \in Nat /\ Window > 0 /\ U32Max \in Nat
    /\ MaxLogin \in Nat /\ MaxLogin > 0 /\ MaxLogin < U32Max
    /\ MaxReset \in Nat /\ MaxReset <= MaxLogin
BY IdentityConstants, UserDbConstants

\* What the type of a limiter's entry says of its fields.
LEMMA EntryTyped ==
    ASSUME NEW e \in Entry
    PROVE  /\ e # None
           /\ e.count \in Nat /\ e.count <= U32Max /\ e.start \in Nat /\ e.start <= MaxNow
<1>1. e # None
  BY IdentityConstants
<1>2. e.count \in 0..U32Max /\ e.start \in 0..MaxNow
  BY DEF Entry
<1> QED BY <1>1, <1>2, RateConstants

\* A history is a sequence of numbers.
LEMMA Instants ==
    ASSUME NEW s \in Seq(0..MaxNow)
    PROVE  /\ Len(s) \in Nat /\ DOMAIN s = 1..Len(s)
           /\ \A i \in 1..Len(s) : s[i] \in Nat
<1>1. MaxNow \in Nat
  BY RateConstants
<1>2. Len(s) \in Nat /\ DOMAIN s = 1..Len(s)
  BY LenProperties
<1>3. \A i \in 1..Len(s) : s[i] \in 0..MaxNow
  BY ElementOfSeq
<1> QED BY <1>1, <1>2, <1>3

\* What a history is after one more attempt.
LEMMA Appended ==
    ASSUME NEW s \in Seq(0..MaxNow), NEW t \in 0..MaxNow, NEW z, z = Append(s, t)
    PROVE  /\ z \in Seq(0..MaxNow) /\ Len(s) \in Nat
           /\ DOMAIN s = 1..Len(s) /\ DOMAIN z = 1..(Len(s) + 1) /\ Len(z) = Len(s) + 1
           /\ z[Len(s) + 1] = t
           /\ \A i \in 1..Len(s) : z[i] = s[i] /\ s[i] \in Nat
           /\ \A i \in DOMAIN z : i = Len(s) + 1 \/ i \in 1..Len(s)
<1>1. /\ z \in Seq(0..MaxNow) /\ Len(s) \in Nat
      /\ DOMAIN s = 1..Len(s) /\ Len(z) = Len(s) + 1 /\ DOMAIN z = 1..Len(z)
      /\ z[Len(s) + 1] = t
      /\ \A i \in 1..Len(s) : z[i] = s[i]
  OBVIOUS
<1> QED BY <1>1, Instants

\* Positions relative to the end of a history of n attempts, one more or not.
LEMMA Positions ==
    ASSUME NEW n \in Nat, NEW i \in 1..(n + 1), NEW c \in Nat, NEW d \in Nat, d >= c
    PROVE  /\ i + 2 * MaxLogin = i + MaxLogin + MaxLogin
           /\ i + d <= n => i + c <= n
           /\ i + MaxLogin + d <= n => i + MaxLogin + c <= n
           /\ i + MaxLogin + 1 <= n + 1 \/ i + 2 * MaxLogin <= n + 1 => i + MaxLogin <= n
           /\ i = n + 1 => ~(i + MaxLogin <= n + 1) /\ ~(i + 2 * MaxLogin <= n + 1)
           /\ i = n + 1 /\ d > 0 => ~(i + d <= n + 1) /\ ~(i + MaxLogin + d <= n + 1)
           /\ d = c + 1 /\ d <= MaxLogin =>
                 /\ i + d <= n + 1 => i + c <= n
                 /\ i + MaxLogin <= n + 1 => i + c <= n
                 /\ i + MaxLogin + d <= n + 1 => i + MaxLogin + c <= n
                 /\ i + 2 * MaxLogin <= n + 1 => i + MaxLogin + c <= n
           /\ i + 2 * MaxLogin <= n + 1 =>
                 /\ i \in 1..n
                 /\ i + 2 * MaxLogin = n + 1 \/ i + 2 * MaxLogin \in 1..n
<1>1. MaxLogin \in Nat /\ MaxLogin > 0
  BY RateConstants
<1> QED BY <1>1

\* An attempt that is let through belongs to the window it is counted in; nothing else of
\* Within is disturbed, and MaxLogin attempts of the window before it are in between when
\* the one 2 * MaxLogin earlier was made.
LEMMA SpreadKept ==
    ASSUME NEW s \in Seq(0..MaxNow), NEW t \in 0..MaxNow, NEW z, z = Append(s, t),
           Spread(s), NEW b \in Nat, b <= t, NEW c \in Nat, Within(z, b, c)
    PROVE  Spread(z)
<1>1. Window \in Nat /\ MaxLogin \in Nat /\ MaxLogin > 0 /\ MaxNow \in Nat
  BY RateConstants
<1> SUFFICES ASSUME NEW i \in DOMAIN z, i + 2 * MaxLogin <= Len(z)
             PROVE  z[i + 2 * MaxLogin] - z[i] >= Window
  BY DEF Spread
<1>2. i \in 1..Len(s) /\ z[i] = s[i] /\ s[i] \in Nat /\ t \in Nat
  BY <1>1, Appended
<1>3. z[i] + Window < b
  BY DEF Within
<1>4. CASE i + 2 * MaxLogin = Len(s) + 1
  <2>1. z[i + 2 * MaxLogin] = t
    BY <1>4, Appended
  <2>2. \A x \in Nat : x + Window < b => t - x >= Window
    BY <1>1, <1>2
  <2> QED BY <1>2, <1>3, <2>1, <2>2
<1>5. CASE i + 2 * MaxLogin \in 1..Len(s)
  <2>1. s[i + 2 * MaxLogin] - s[i] >= Window
    BY <1>2, <1>5, Appended DEF Spread
  <2> QED BY <1>2, <1>5, <2>1, Appended
<1>6. Len(z) = Len(s) + 1 /\ Len(s) \in Nat /\ i \in 1..(Len(s) + 1)
  BY Appended
<1>7. i + 2 * MaxLogin = Len(s) + 1 \/ i + 2 * MaxLogin \in 1..Len(s)
  BY <1>6, Positions
<1> QED BY <1>4, <1>5, <1>7

\* An attempt that opens a window at t, let through or not.
LEMMA OpenedPaced ==
    ASSUME NEW s \in Seq(0..MaxNow), NEW t \in 0..MaxNow, Spread(s),
           \A i \in DOMAIN s : s[i] < t,
           \A i \in DOMAIN s : i + MaxLogin <= Len(s) => s[i] + Window < t,
           NEW z, z = s \/ z = Append(s, t)
    PROVE  z \in Seq(0..MaxNow) /\ Within(z, t, 1) /\ Spread(z)
<1>1. Window \in Nat /\ Window > 0 /\ MaxLogin \in Nat /\ MaxLogin > 0 /\ MaxNow \in Nat /\ t \in Nat
  BY RateConstants
<1>2. Len(s) \in Nat /\ DOMAIN s = 1..Len(s) /\ \A i \in 1..Len(s) : s[i] \in Nat
  BY Instants
<1>3. CASE z = s
  <2>1. ASSUME NEW i \in DOMAIN s
        PROVE  /\ s[i] < t + Window
               /\ s[i] < t
               /\ i + MaxLogin + 1 <= Len(s) \/ i + 2 * MaxLogin <= Len(s) => s[i] + Window < t
    BY <1>1, <1>2
  <2> QED BY <1>3, <2>1 DEF Within
<1>4. CASE z = Append(s, t)
  <2>1. ASSUME NEW i \in DOMAIN z
        PROVE  /\ z[i] < t + Window
               /\ i + 1 <= Len(z) \/ i + MaxLogin <= Len(z) => z[i] < t
               /\ i + MaxLogin + 1 <= Len(z) \/ i + 2 * MaxLogin <= Len(z) => z[i] + Window < t
    <3>1. CASE i = Len(s) + 1
      BY <1>1, <1>2, <1>4, <3>1, Appended
    <3>2. CASE i \in 1..Len(s)
      <4>1. z[i] = s[i] /\ s[i] \in Nat /\ Len(z) = Len(s) + 1
        BY <1>4, <3>2, Appended
      <4>2. i + MaxLogin + 1 <= Len(z) \/ i + 2 * MaxLogin <= Len(z) => i + MaxLogin <= Len(s)
        BY <1>1, <1>2, <3>2, <4>1
      <4>3. s[i] < t /\ (i + MaxLogin <= Len(s) => s[i] + Window < t)
        BY <1>2, <3>2
      <4> QED BY <1>1, <4>1, <4>2, <4>3
    <3> QED BY <1>4, <3>1, <3>2, Appended
  <2>2. Within(z, t, 1)
    BY <2>1 DEF Within
  <2>3. Spread(z)
    <3>1. t <= t /\ 1 \in Nat
      BY <1>1
    <3> QED BY <1>1, <1>4, <2>2, <3>1, SpreadKept
  <2> QED BY <1>4, <2>2, <2>3, Appended
<1> QED BY <1>3, <1>4

\* An attempt within the running window: let through only as one of the first MaxLogin.
LEMMA CountedPaced ==
    ASSUME NEW s \in Seq(0..MaxNow), NEW t \in 0..MaxNow, NEW b \in Nat, NEW c \in Nat,
           Spread(s), Within(s, b, c), b <= t, t - b < Window,
           NEW d \in Nat, d >= c,
           NEW z, z = s \/ (z = Append(s, t) /\ d = c + 1 /\ d <= MaxLogin)
    PROVE  z \in Seq(0..MaxNow) /\ Within(z, b, d) /\ Spread(z)
<1>1. Window \in Nat /\ Window > 0 /\ MaxLogin \in Nat /\ MaxLogin > 0 /\ MaxNow \in Nat /\ t \in Nat
  BY RateConstants
<1>2. Len(s) \in Nat /\ DOMAIN s = 1..Len(s) /\ \A i \in 1..Len(s) : s[i] \in Nat
  BY Instants
<1>3. CASE z = s
  <2>1. ASSUME NEW i \in DOMAIN s
        PROVE  /\ i + d <= Len(s) => i + c <= Len(s)
               /\ i + MaxLogin + d <= Len(s) => i + MaxLogin + c <= Len(s)
    BY <1>1, <1>2
  <2> QED BY <1>3, <2>1 DEF Within
<1>4. CASE z = Append(s, t) /\ d = c + 1 /\ d <= MaxLogin
  <2>1. ASSUME NEW i \in DOMAIN z
        PROVE  /\ z[i] < b + Window
               /\ i + d <= Len(z) \/ i + MaxLogin <= Len(z) => z[i] < b
               /\ i + MaxLogin + d <= Len(z) \/ i + 2 * MaxLogin <= Len(z) => z[i] + Window < b
    <3>0. Len(z) = Len(s) + 1 /\ i \in 1..(Len(s) + 1)
      BY <1>4, Appended
    <3>3. d > 0 /\ d = c + 1 /\ d <= MaxLogin
      BY <1>4
    <3>1. CASE i = Len(s) + 1
      <4>1. z[i] = t
        BY <1>4, <3>1, Appended
      <4>2. /\ ~(i + d <= Len(z)) /\ ~(i + MaxLogin <= Len(z))
            /\ ~(i + MaxLogin + d <= Len(z)) /\ ~(i + 2 * MaxLogin <= Len(z))
        BY <1>2, <3>0, <3>1, <3>3, Positions
      <4> QED BY <1>1, <4>1, <4>2
    <3>2. CASE i \in 1..Len(s)
      <4>1. z[i] = s[i]
        BY <1>4, <3>2, Appended
      <4>2. /\ i + d <= Len(s) + 1 => i + c <= Len(s)
            /\ i + MaxLogin <= Len(s) + 1 => i + c <= Len(s)
            /\ i + MaxLogin + d <= Len(s) + 1 => i + MaxLogin + c <= Len(s)
            /\ i + 2 * MaxLogin <= Len(s) + 1 => i + MaxLogin + c <= Len(s)
        BY <1>2, <3>0, <3>3, Positions, ZenonT(30)
      <4> QED BY <1>2, <3>0, <3>2, <4>1, <4>2 DEF Within
    <3> QED BY <1>4, <3>1, <3>2, Appended
  <2>2. Within(z, b, d)
    BY <2>1 DEF Within
  <2> QED BY <1>4, <2>2, SpreadKept, Appended
<1> QED BY <1>3, <1>4

\* What a step can do to the rate limit.
RateFacts == << limiter, accepted, now >>

\* The limiter is touched by an attempt, a restart and the clock only.
LEMMA RateSteps ==
    [Next]_vars =>
        \/ UNCHANGED RateFacts
        \/ \E ip \in Ips, max \in {MaxLogin, MaxReset} : check_auth_ip_rate(ip, max) /\ UNCHANGED now
        \/ /\ limiter' = [ip \in Ips |-> None] /\ accepted' = NoHistory /\ UNCHANGED now
        \/ now < MaxNow /\ now' = now + 1 /\ UNCHANGED << limiter, accepted >>
<1> SUFFICES ASSUME [Next]_vars
             PROVE  \/ UNCHANGED RateFacts
                    \/ \E ip \in Ips, max \in {MaxLogin, MaxReset} :
                          check_auth_ip_rate(ip, max) /\ UNCHANGED now
                    \/ /\ limiter' = [ip \in Ips |-> None] /\ accepted' = NoHistory
                       /\ UNCHANGED now
                    \/ now < MaxNow /\ now' = now + 1 /\ UNCHANGED << limiter, accepted >>
  OBVIOUS
<1> USE DEF RateFacts, dbvars, idvars
<1>1. CASE PasswordLogins
  BY <1>1, Zenon DEF PasswordLogins, login, request_reset, confirm_reset
<1>2. CASE SingleSignOns
  BY <1>2, Zenon DEF SingleSignOns, ldap_login, saml_callback, OidcClaims
<1>3. CASE OidcFlows
  BY <1>3 DEF OidcFlows, oidc_login, oidc_callback
<1>4. CASE Administration
  BY <1>4 DEF Administration, create_user, update_user, set_password, del_user
<1>5. CASE SessionRequests
  BY <1>5 DEF SessionRequests, Admit, logout, revoke_session, RevokeMatched,
              revoke_other_sessions, Dropped
<1>6. CASE Commands
  BY <1>6 DEF Commands, cmd_create, cmd_delete, cmd_set_password, cmd_set_active, CliWrites,
              CliAborts
<1>7. CASE CommitWrite \/ Restart \/ Tick \/ UNCHANGED vars
  BY <1>7 DEF CommitWrite, Restart, Tick, vars
<1> QED BY <1>1, <1>2, <1>3, <1>4, <1>5, <1>6, <1>7 DEF Next

\* Pruning drops only entries whose window ended a window ago.
LEMMA PrunedPaced ==
    ASSUME RateInv, NEW ip \in Ips
    PROVE  /\ Pruned \in [Ips -> Entry \cup {None}]
           /\ Paced(accepted[ip], Pruned[ip], now)
<1>1. /\ now \in 0..MaxNow /\ limiter \in [Ips -> Entry \cup {None}]
      /\ accepted[ip] \in Seq(0..MaxNow) /\ Paced(accepted[ip], limiter[ip], now)
  BY DEF RateInv, RateTyped
<1>2. Pruned \in [Ips -> Entry \cup {None}]
  BY <1>1 DEF Pruned
<1>3. \/ Pruned[ip] = limiter[ip]
      \/ /\ Pruned[ip] = None /\ limiter[ip] # None
         /\ ~(now - limiter[ip].start < 2 * Window)
  BY <1>1 DEF Pruned
<1>4. CASE /\ Pruned[ip] = None /\ limiter[ip] # None
           /\ ~(now - limiter[ip].start < 2 * Window)
  <2> DEFINE b == limiter[ip].start
  <2>1. b \in Nat /\ now \in Nat /\ Window \in Nat
    BY <1>1, <1>4, EntryTyped, RateConstants
  <2>2. \A i \in DOMAIN accepted[ip] : accepted[ip][i] < b + Window
    BY <1>1, <1>4 DEF Paced, Within
  <2>3. \A i \in DOMAIN accepted[ip] : accepted[ip][i] \in Nat
    BY <1>1, Instants
  <2>4. ~(now - b < 2 * Window)
    BY <1>4
  <2> HIDE DEF b
  <2>5. \A i \in DOMAIN accepted[ip] : accepted[ip][i] + Window < now
    BY <2>1, <2>2, <2>3, <2>4
  <2> QED BY <1>1, <1>2, <1>4, <2>5 DEF Paced
<1> QED BY <1>1, <1>2, <1>3, <1>4

\* An attempt, let through or refused, keeps the pace of its address.
LEMMA AttemptPaced ==
    ASSUME RateInv, NEW ip \in Ips, NEW max \in {MaxLogin, MaxReset},
           NEW z, z = IF WithinRate(ip, max) THEN Append(accepted[ip], now) ELSE accepted[ip]
    PROVE  /\ z \in Seq(0..MaxNow) /\ Counted(ip) \in Entry
           /\ Paced(z, Counted(ip), now)
<1> DEFINE s == accepted[ip]
           e == Pruned[ip]
<1>1. /\ MaxNow \in Nat /\ Window \in Nat /\ Window > 0 /\ U32Max \in Nat /\ MaxLogin \in Nat
      /\ MaxLogin > 0 /\ MaxLogin < U32Max /\ max \in Nat /\ max <= MaxLogin
  BY RateConstants
<1>2. /\ now \in 0..MaxNow /\ now \in Nat /\ s \in Seq(0..MaxNow) /\ e \in Entry \cup {None}
      /\ Paced(s, e, now)
  BY <1>1, PrunedPaced DEF RateInv, RateTyped
<1>3. \A i \in DOMAIN s : s[i] \in Nat
  BY <1>2, Instants
<1>4. Spread(s)
  BY <1>2 DEF Paced
<1>5. z = s \/ (z = Append(s, now) /\ WithinRate(ip, max))
  OBVIOUS
<1>6. [count |-> 1, start |-> now] \in Entry
  BY <1>1, <1>2 DEF Entry
<1>7. ASSUME Counted(ip) = [count |-> 1, start |-> now],
             z \in Seq(0..MaxNow), Within(z, now, 1), Spread(z)
      PROVE  Counted(ip) \in Entry /\ Paced(z, Counted(ip), now)
  <2>1. Counted(ip) \in Entry /\ Counted(ip).start = now /\ Counted(ip).count = 1
    BY <1>6, <1>7
  <2>2. Counted(ip) # None /\ now <= now
    BY <1>2, <2>1, EntryTyped
  <2> QED BY <1>7, <2>1, <2>2 DEF Paced
<1>8. CASE e = None
  <2>1. Counted(ip) = [count |-> 1, start |-> now]
    <3>1. Counted(ip) = LET f == [count |-> 0, start |-> now]
                        IN  IF now - f.start >= Window THEN [count |-> 1, start |-> now]
                            ELSE [f EXCEPT !.count = IF @ = U32Max THEN @ ELSE @ + 1]
      BY <1>8 DEF Counted
    <3> QED BY <1>1, <1>2, <3>1
  <2>2. \A i \in DOMAIN s : s[i] + Window < now
    BY <1>2, <1>8 DEF Paced
  <2>3. \A i \in DOMAIN s : s[i] < now
    BY <1>1, <1>2, <1>3, <2>2
  <2>4. z \in Seq(0..MaxNow) /\ Within(z, now, 1) /\ Spread(z)
    BY <1>2, <1>4, <1>5, <2>2, <2>3, OpenedPaced
  <2> QED BY <1>7, <2>1, <2>4
<1>9. CASE e # None
  <2> DEFINE b == e.start
             c == e.count
  <2>1. b \in Nat /\ c \in Nat /\ c <= U32Max /\ b <= MaxNow
    BY <1>2, <1>9, EntryTyped
  <2>2. b <= now /\ Within(s, b, c)
    BY <1>2, <1>9 DEF Paced
  <2>3. CASE now - b >= Window
    <3>1. Counted(ip) = [count |-> 1, start |-> now]
      BY <1>9, <2>3 DEF Counted
    <3>2. \A i \in DOMAIN s : s[i] < b + Window /\ (i + MaxLogin <= Len(s) => s[i] < b)
      BY <2>2 DEF Within
    <3> HIDE DEF b
    <3>3. \A i \in DOMAIN s : s[i] < now /\ (i + MaxLogin <= Len(s) => s[i] + Window < now)
      <4> SUFFICES ASSUME NEW i \in DOMAIN s
                   PROVE  s[i] < now /\ (i + MaxLogin <= Len(s) => s[i] + Window < now)
        OBVIOUS
      <4>1. s[i] \in Nat /\ s[i] < b + Window /\ (i + MaxLogin <= Len(s) => s[i] < b)
        BY <1>3, <3>2
      <4>2. \A x \in Nat : (x < b + Window => x < now) /\ (x < b => x + Window < now)
        BY <1>1, <1>2, <2>1, <2>3
      <4> QED BY <4>1, <4>2
    <3>4. z \in Seq(0..MaxNow) /\ Within(z, now, 1) /\ Spread(z)
      BY <1>2, <1>4, <1>5, <3>3, OpenedPaced
    <3> QED BY <1>7, <3>1, <3>4
  <2>4. CASE ~(now - b >= Window)
    <3> DEFINE d == IF c = U32Max THEN c ELSE c + 1
    <3>1. e \in Entry /\ Counted(ip) = [e EXCEPT !.count = d]
      BY <1>2, <1>9, <2>4 DEF Counted
    <3>2. d \in Nat /\ d <= U32Max /\ d >= c /\ (d <= MaxLogin => d = c + 1)
      BY <1>1, <2>1
    <3>3. Counted(ip) \in Entry /\ Counted(ip).start = b /\ Counted(ip).count = d
      <4> HIDE DEF d
      <4> QED BY <1>1, <3>1, <3>2 DEF Entry
    <3>4. WithinRate(ip, max) => d <= MaxLogin
      <4>1. WithinRate(ip, max) => Counted(ip).count <= max
        BY <1>9, <2>4 DEF WithinRate
      <4> HIDE DEF d
      <4> QED BY <1>1, <3>2, <3>3, <4>1
    <3> HIDE DEF b, c, d
    <3>5. now - b < Window
      BY <1>1, <1>2, <2>1, <2>4
    <3>6. z \in Seq(0..MaxNow) /\ Within(z, b, d) /\ Spread(z)
      BY <1>2, <1>4, <1>5, <2>1, <2>2, <3>2, <3>4, <3>5, CountedPaced
    <3>7. Counted(ip) # None
      BY <3>3, EntryTyped
    <3> QED BY <2>2, <3>3, <3>6, <3>7 DEF Paced
  <2> QED BY <2>3, <2>4
<1> QED BY <1>8, <1>9

\* Every step keeps RateInv.
LEMMA RateStep == RateInv /\ [Next]_vars => RateInv'
<1> SUFFICES ASSUME RateInv, [Next]_vars PROVE RateInv'
  OBVIOUS
<1>0. /\ MaxNow \in Nat /\ Window \in Nat /\ now \in 0..MaxNow
      /\ limiter \in [Ips -> Entry \cup {None}]
      /\ accepted \in [Ips -> Seq(0..MaxNow)]
  BY RateConstants DEF RateInv, RateTyped
<1>1. CASE UNCHANGED RateFacts
  BY <1>1 DEF RateFacts, RateInv, RateTyped
<1>2. ASSUME NEW ip \in Ips, NEW max \in {MaxLogin, MaxReset},
             check_auth_ip_rate(ip, max), UNCHANGED now
      PROVE  RateInv'
  <2>1. PICK z : z = IF WithinRate(ip, max) THEN Append(accepted[ip], now) ELSE accepted[ip]
    OBVIOUS
  <2>2. PICK e : e = Counted(ip)
    OBVIOUS
  <2>3. z \in Seq(0..MaxNow) /\ e \in Entry /\ Paced(z, e, now)
    BY <2>1, <2>2, AttemptPaced
  <2>4. \A o \in Ips : Pruned \in [Ips -> Entry \cup {None}] /\ Paced(accepted[o], Pruned[o], now)
    BY PrunedPaced
  <2>5. accepted' = [accepted EXCEPT ![ip] = z]
    BY <1>0, <1>2, <2>1 DEF check_auth_ip_rate
  <2>6. limiter' = [Pruned EXCEPT ![ip] = e]
    BY <1>2, <2>2 DEF check_auth_ip_rate
  <2>7. RateTyped'
    BY <1>0, <1>2, <2>3, <2>4, <2>5, <2>6 DEF RateTyped
  <2>8. \A o \in Ips : Paced(accepted'[o], limiter'[o], now')
    BY <1>0, <1>2, <2>3, <2>4, <2>5, <2>6
  <2> QED BY <2>7, <2>8 DEF RateInv
<1>3. CASE limiter' = [ip \in Ips |-> None] /\ accepted' = NoHistory /\ UNCHANGED now
  <2>1. RateTyped'
    BY <1>0, <1>3 DEF RateTyped, NoHistory
  <2>2. \A ip \in Ips : accepted'[ip] = << >> /\ limiter'[ip] = None
    BY <1>3 DEF NoHistory
  <2>3. \A t : Paced(<< >>, None, t)
    BY DEF Paced, Spread
  <2> QED BY <2>1, <2>2, <2>3 DEF RateInv
<1>4. CASE now < MaxNow /\ now' = now + 1 /\ UNCHANGED << limiter, accepted >>
  <2>1. RateTyped' /\ now \in Nat
    BY <1>0, <1>4 DEF RateTyped
  <2>2. ASSUME NEW ip \in Ips PROVE Paced(accepted[ip], limiter[ip], now + 1)
    <3>1. Paced(accepted[ip], limiter[ip], now)
      BY DEF RateInv
    <3>2. accepted[ip] \in Seq(0..MaxNow)
      BY <1>0
    <3>3. \A i \in DOMAIN accepted[ip] : accepted[ip][i] \in Nat
      BY <3>2, Instants
    <3>4. \A i \in DOMAIN accepted[ip] : accepted[ip][i] + Window < now
                                         => accepted[ip][i] + Window < now + 1
      BY <1>0, <2>1, <3>3
    <3>5. limiter[ip] # None => limiter[ip].start \in Nat
      BY <1>0, EntryTyped
    <3>6. limiter[ip] # None /\ limiter[ip].start <= now => limiter[ip].start <= now + 1
      BY <2>1, <3>5
    <3> QED BY <3>1, <3>4, <3>6 DEF Paced
  <2> QED BY <1>4, <2>1, <2>2 DEF RateInv
<1> QED BY <1>1, <1>2, <1>3, <1>4, RateSteps

\* At the start nobody has tried.
LEMMA RateInit == Init => RateInv
<1> SUFFICES ASSUME Init PROVE RateInv
  OBVIOUS
<1>1. now = 0 /\ limiter = [ip \in Ips |-> None] /\ accepted = NoHistory
  BY DEF Init
<1>2. RateTyped
  BY <1>1, RateConstants DEF RateTyped, NoHistory
<1>3. \A t : Paced(<< >>, None, t)
  BY DEF Paced, Spread
<1> QED BY <1>1, <1>2, <1>3 DEF RateInv, NoHistory

-----------------------------------------------------------------------------
(* Types *)

Minted == Uids \cup Tokens \cup Resets

TablesTyped == sessions \subseteq Session /\ resets \subseteq Reset /\ minted \subseteq Minted

FlowsTyped == /\ pending \in [States -> Nat \cup {None}]
              /\ issued \subseteq States /\ raced \subseteq Uids

RequestsTyped == req \in [Requests -> Ctx \cup Match \cup Coded \cup {None}]

\* A session of an account that is there.
LEMMA SessionTyped ==
    ASSUME TablesTyped, RateTyped, NEW u \in Uids, NEW t, NEW via \in Providers,
           create_session(u, t, via)
    PROVE  sessions' \subseteq Session /\ t \in Tokens
<1>1. now + SessionTtl \in Nat /\ t \in Tokens
  BY UserDbConstants, RateConstants DEF RateTyped, create_session
<1>2. [token |-> t, user |-> u, exp |-> now + SessionTtl, via |-> via] \in Session
  BY <1>1 DEF Session
<1> QED BY <1>1, <1>2 DEF create_session, TablesTyped

\* Sessions and reset tokens that only go away stay typed.
LEMMA TablesAlone ==
    ASSUME TablesTyped, sessions' \subseteq sessions, resets' \subseteq resets,
           minted' = minted \/ \E u \in Minted : minted' = minted \cup {u}
    PROVE  TablesTyped'
BY DEF TablesTyped

\* A new session is typed.
LEMMA OpenedTyped ==
    ASSUME TablesTyped, RateTyped, NEW u \in Uids, NEW via \in Providers, OpenSession(u, via),
           UNCHANGED resets
    PROVE  TablesTyped'
<1>1. PICK t \in Tokens : create_session(u, t, via) /\ minted' = minted \cup {t}
  BY DEF OpenSession
<1>2. sessions' \subseteq Session
  BY <1>1, SessionTyped
<1> QED BY <1>1, <1>2 DEF TablesTyped, Minted

\* A single sign-on keeps the tables typed.
LEMMA UpsertTyped ==
    ASSUME TablesTyped, RateTyped, NEW provider \in Sso,
           NEW sub, NEW name, NEW email, NEW role,
           upsert_sso_user_and_session(provider, sub, name, email, role), UNCHANGED resets
    PROVE  TablesTyped'
<1>1. CASE UNCHANGED << sessions, minted >>
  BY <1>1, TablesAlone
<1>2. CASE \E u \in Uids, t \in Tokens : /\ create_session(u, t, provider)
                                         /\ minted' = minted \cup {u, t}
  <2>1. PICK u \in Uids, t \in Tokens : /\ create_session(u, t, provider)
                                        /\ minted' = minted \cup {u, t}
    BY <1>2
  <2>2. sessions' \subseteq Session
    BY <2>1, SessionTyped DEF Providers
  <2> QED BY <2>1, <2>2 DEF TablesTyped, Minted
<1> QED BY <1>1, <1>2, Zenon DEF upsert_sso_user_and_session

\* Every step keeps the tables typed.
LEMMA TablesStep ==
    OrdersInv /\ RateTyped /\ TablesTyped /\ [Next]_vars => TablesTyped'
<1> SUFFICES ASSUME OrdersInv, RateTyped, TablesTyped, [Next]_vars PROVE TablesTyped'
  OBVIOUS
<1>0. \A u \in Uids : u \in Minted
  BY DEF Minted
<1>1. CASE PasswordLogins
  <2>1. ASSUME NEW ip \in Ips, NEW name \in Names, NEW pw \in Passwords, login(ip, name, pw)
        PROVE  TablesTyped'
    <3>1. CASE UNCHANGED << sessions, minted >>
      BY <2>1, <3>1, TablesAlone DEF login
    <3>2. CASE \E u \in CanLogin(name, pw) : OpenSession(u, "local")
      BY <2>1, <3>2, OpenedTyped DEF login, CanLogin, Named, Providers
    <3> QED BY <2>1, <3>1, <3>2 DEF login
  <2>2. ASSUME NEW ip \in Ips, NEW email \in Emails, request_reset(ip, email)
        PROVE  TablesTyped'
    <3>1. CASE UNCHANGED << resets, minted >>
      BY <2>2, <3>1, TablesAlone DEF request_reset
    <3>2. CASE \E u \in WithEmail(email), t \in Resets : /\ create_reset_token(u, t)
                                                         /\ minted' = minted \cup {t}
      <4>1. PICK u \in WithEmail(email), t \in Resets : /\ create_reset_token(u, t)
                                                        /\ minted' = minted \cup {t}
        BY <3>2
      <4>2. u \in Uids /\ now + ResetTtl \in Nat
        BY UserDbConstants, RateConstants DEF RateTyped, WithEmail
      <4>3. [token |-> t, user |-> u, exp |-> now + ResetTtl] \in Reset
        BY <4>2 DEF Reset
      <4>4. resets' \subseteq Reset
        BY <4>1, <4>3 DEF create_reset_token, TablesTyped
      <4> QED BY <2>2, <4>1, <4>4 DEF request_reset, TablesTyped, Minted
    <3> QED BY <2>2, <3>1, <3>2 DEF request_reset
  <2>3. ASSUME NEW t \in Resets, NEW pw \in Passwords, confirm_reset(t, pw)
        PROVE  TablesTyped'
    BY <2>3, TablesAlone DEF confirm_reset, consume_reset_token
  <2> QED BY <1>1, <2>1, <2>2, <2>3 DEF PasswordLogins
<1>2. CASE SingleSignOns
  <2>1. ASSUME NEW ip, NEW sub, NEW name, NEW email, NEW role,
               ldap_login(ip, sub, name, email, role)
        PROVE  TablesTyped'
    <3>1. CASE UNCHANGED << users, sessions, minted, order, txn >>
      BY <2>1, <3>1, TablesAlone DEF ldap_login
    <3>2. CASE upsert_sso_user_and_session("ldap", sub, name, email, role)
      BY <2>1, <3>2, UpsertTyped DEF ldap_login, Sso
    <3> QED BY <2>1, <3>1, <3>2 DEF ldap_login
  <2>2. ASSUME NEW sub, NEW name, NEW email, saml_callback(sub, name, email)
        PROVE  TablesTyped'
    BY <2>2, UpsertTyped DEF saml_callback, Sso
  <2>3. ASSUME NEW p, NEW sub, NEW name, NEW email, OidcClaims(p, sub, name, email)
        PROVE  TablesTyped'
    BY <2>3, UpsertTyped DEF OidcClaims, Sso
  <2> QED BY <1>2, <2>1, <2>2, <2>3 DEF SingleSignOns
<1>3. CASE OidcFlows
  BY <1>3, TablesAlone DEF OidcFlows, oidc_login, oidc_callback, dbvars
<1>4. CASE Administration
  BY <1>0, <1>4, TablesAlone
     DEF Administration, create_user, update_user, set_password, del_user, delete, dbvars
<1>5. CASE SessionRequests
  BY <1>5, TablesAlone DEF SessionRequests, Admit, logout, revoke_session, RevokeMatched,
                           revoke_other_sessions, Except, Dropped, dbvars
<1>6. CASE Commands
  BY <1>0, <1>6, TablesAlone
     DEF Commands, cmd_create, cmd_delete, delete, cmd_set_password, cmd_set_active, CliWrites,
         CliAborts, dbvars
<1>7. CASE CommitWrite
  <2>1. txn \in Write
    BY <1>7 DEF CommitWrite, OrdersInv, RowsTyped
  <2>2. txn.uid \in Uids /\ (txn.via # None => txn.via \in Providers)
    BY <2>1 DEF Write, Providers
  <2>3. CASE UNCHANGED << sessions, minted >>
    BY <1>7, <2>3, TablesAlone DEF CommitWrite
  <2>4. PICK u, v : u = txn.uid /\ v = txn.via
    OBVIOUS
  <2>5. CASE txn.via # None /\ OpenSession(u, v)
    BY <1>7, <2>2, <2>4, <2>5, OpenedTyped DEF CommitWrite
  <2> QED BY <1>7, <2>3, <2>4, <2>5 DEF CommitWrite
<1>8. CASE Restart
  BY <1>0, <1>8, TablesAlone DEF Restart
<1>9. CASE Tick \/ UNCHANGED vars
  BY <1>9, TablesAlone DEF Tick, vars, dbvars
<1> QED BY <1>1, <1>2, <1>3, <1>4, <1>5, <1>6, <1>7, <1>8, <1>9 DEF Next

\* Every step keeps pending single sign-ons typed.
LEMMA FlowsStep ==
    OrdersInv /\ RateTyped /\ FlowsTyped /\ [Next]_vars => FlowsTyped'
<1> SUFFICES ASSUME OrdersInv, RateTyped, FlowsTyped, [Next]_vars PROVE FlowsTyped'
  OBVIOUS
<1>0. UNCHANGED << pending, issued, raced >> => FlowsTyped'
  BY DEF FlowsTyped
<1>1. CASE PasswordLogins \/ SingleSignOns \/ Administration \/ SessionRequests
  BY <1>0, <1>1
     DEF PasswordLogins, login, request_reset, confirm_reset,
         SingleSignOns, ldap_login, saml_callback, OidcClaims,
         Administration, create_user, update_user, set_password, del_user,
         SessionRequests, Admit, logout, revoke_session, RevokeMatched, revoke_other_sessions,
         Dropped
<1>2. CASE OidcFlows
  <2>1. now + PendingTtl \in Nat
    BY IdentityConstants, RateConstants DEF RateTyped
  <2>2. ASSUME NEW s \in States, oidc_login(s) PROVE FlowsTyped'
    BY <2>1, <2>2 DEF oidc_login, oidc_pending_insert, FlowsTyped
  <2>3. ASSUME NEW s \in States, NEW p \in Requests, oidc_callback(p, s) PROVE FlowsTyped'
    BY <2>3 DEF oidc_callback, oidc_pending_take, FlowsTyped
  <2> QED BY <1>2, <2>2, <2>3 DEF OidcFlows
<1>3. CASE Commands
  <2>1. ASSUME NEW c \in Clis, CliWrites(c) PROVE FlowsTyped'
    <3>1. cli[c] \in Write
      BY <2>1 DEF CliWrites, OrdersInv, RowsTyped
    <3>2. cli[c].uid \in Uids
      BY <3>1 DEF Write
    <3> QED BY <2>1, <3>2 DEF CliWrites, FlowsTyped
  <2> QED BY <1>0, <1>3, <2>1
          DEF Commands, cmd_create, cmd_delete, cmd_set_password, cmd_set_active, CliAborts
<1>4. CASE CommitWrite \/ Tick \/ UNCHANGED vars
  BY <1>0, <1>4 DEF CommitWrite, Tick, vars, idvars
<1>5. CASE Restart
  BY <1>5 DEF Restart, FlowsTyped
<1> QED BY <1>1, <1>2, <1>3, <1>4, <1>5 DEF Next

-----------------------------------------------------------------------------
(* Sessions and the requests they make *)

\* What is known of a request r while the tokens in ms have been generated and ss are the
\* sessions: the token it came with belongs to nobody else, and a session it has matched
\* is its own unless it manages users.
Known(ms, ss, r) ==
    /\ r.at = "ctx" => \/ can_manage_users(r.role)
                       \/ r.token \in ms /\ \A s \in ss : s.token = r.token => s.user = r.uid
    /\ r.at = "matched" => can_manage_users(r.role) \/ r.target = r.uid

TokensUnique ==
    /\ \A s \in sessions : s.token \in minted
    /\ \A s, x \in sessions : s.token = x.token => s.user = x.user

RequestsInv ==
    /\ TokensUnique
    /\ \A p \in Requests : req[p] # None => Known(minted, sessions, req[p])

\* The sessions lose some, or gain one under a token that was never generated.
SessionsMove ==
    /\ minted \subseteq minted'
    /\ \/ sessions' \subseteq sessions
       \/ \E x : /\ x.token \notin minted /\ x.token \in minted'
                 /\ sessions' \subseteq sessions \cup {x}

\* What is known of requests outlives the end of sessions and new tokens.
LEMMA KnownKept ==
    ASSUME RequestsInv, SessionsMove
    PROVE  /\ TokensUnique'
           /\ \A r : Known(minted, sessions, r) => Known(minted', sessions', r)
<1>1. CASE sessions' \subseteq sessions
  BY <1>1 DEF RequestsInv, TokensUnique, SessionsMove, Known
<1>2. CASE \E x : /\ x.token \notin minted /\ x.token \in minted'
                  /\ sessions' \subseteq sessions \cup {x}
  <2>1. PICK x : /\ x.token \notin minted /\ x.token \in minted'
                 /\ sessions' \subseteq sessions \cup {x}
    BY <1>2
  <2>2. TokensUnique'
    BY <2>1 DEF RequestsInv, TokensUnique, SessionsMove
  <2>3. ASSUME NEW r, Known(minted, sessions, r) PROVE Known(minted', sessions', r)
    BY <2>1, <2>3 DEF SessionsMove, Known
  <2> QED BY <2>2, <2>3
<1> QED BY <1>1, <1>2 DEF SessionsMove

\* The requests under way go on, end, or reach an await of which nothing is claimed.
LEMMA RequestsAlone ==
    ASSUME RequestsInv, SessionsMove,
           \A p \in Requests : req'[p] # None => req'[p] = req[p] \/ req'[p].at = "exchange"
    PROVE  RequestsInv'
<1>1. /\ TokensUnique'
      /\ \A r : Known(minted, sessions, r) => Known(minted', sessions', r)
  BY KnownKept
<1>2. ASSUME NEW p \in Requests, req'[p] # None PROVE Known(minted', sessions', req'[p])
  <2>1. CASE req'[p] = req[p]
    BY <1>1, <1>2, <2>1 DEF RequestsInv
  <2>2. CASE req'[p].at = "exchange"
    BY <2>2 DEF Known
  <2> QED BY <1>2, <2>1, <2>2
<1> QED BY <1>1, <1>2 DEF RequestsInv

\* A session under a token that was never generated.
LEMMA CreatedMoves ==
    ASSUME NEW u, NEW t, NEW via, create_session(u, t, via), minted \subseteq minted', t \in minted'
    PROVE  SessionsMove
<1> DEFINE x == [token |-> t, user |-> u, exp |-> now + SessionTtl, via |-> via]
<1>1. x.token = t /\ t \notin minted /\ sessions' \subseteq sessions \cup {x}
  BY DEF create_session
<1> QED BY <1>1 DEF SessionsMove

\* OpenSession generates the token of its session.
LEMMA OpenedMoves ==
    ASSUME NEW u, NEW via, OpenSession(u, via)
    PROVE  SessionsMove
<1>1. PICK t \in Tokens : create_session(u, t, via) /\ minted' = minted \cup {t}
  BY DEF OpenSession
<1> QED BY <1>1, CreatedMoves

\* So does a single sign-on.
LEMMA UpsertMoves ==
    ASSUME NEW provider, NEW sub, NEW name, NEW email, NEW role,
           upsert_sso_user_and_session(provider, sub, name, email, role)
    PROVE  SessionsMove
<1>1. CASE UNCHANGED << sessions, minted >>
  BY <1>1 DEF SessionsMove
<1>2. CASE \E u \in Uids, t \in Tokens : /\ create_session(u, t, provider)
                                         /\ minted' = minted \cup {u, t}
  <2>1. PICK u \in Uids, t \in Tokens : /\ create_session(u, t, provider)
                                        /\ minted' = minted \cup {u, t}
    BY <1>2
  <2>2. minted \subseteq minted' /\ t \in minted'
    BY <2>1
  <2> QED BY <2>1, <2>2, CreatedMoves
<1> QED BY <1>1, <1>2, Zenon DEF upsert_sso_user_and_session

\* A request that has passed the extractor.
LEMMA AdmitStep ==
    ASSUME RequestsInv, RequestsTyped, OrdersInv, TablesTyped, SessionsOwned,
           NEW p \in Requests, NEW t \in Tokens \cup {None}, Admit(p, t)
    PROVE  RequestsInv' /\ RequestsTyped'
<1>0. UNCHANGED << minted, sessions >>
  BY DEF Admit, dbvars
<1>1. PICK r : r \in Ctx /\ Known(minted, sessions, r) /\ req' = [req EXCEPT ![p] = r]
  <2>1. CASE /\ t = None
             /\ req' = [req EXCEPT ![p] = [at |-> "ctx", uid |-> None, role |-> "admin",
                                          token |-> None]]
    <3> DEFINE r == [at |-> "ctx", uid |-> None, role |-> "admin", token |-> None]
    <3>1. r \in Ctx
      BY UserDbConstants DEF Ctx
    <3>2. Known(minted, sessions, r)
      BY DEF Known, can_manage_users
    <3> QED BY <2>1, <3>1, <3>2
  <2>2. CASE \E s \in Resolved(t) :
                req' = [req EXCEPT ![p] = [at |-> "ctx", uid |-> s.user,
                                           role |-> users[s.user].role, token |-> t]]
    <3>1. PICK s \in Resolved(t) :
                req' = [req EXCEPT ![p] = [at |-> "ctx", uid |-> s.user,
                                           role |-> users[s.user].role, token |-> t]]
      BY <2>2
    <3> DEFINE r == [at |-> "ctx", uid |-> s.user, role |-> users[s.user].role, token |-> t]
    <3>2. s \in sessions /\ s.token = t /\ users[s.user] # None /\ s.user \in Uids
      BY DEF Resolved, SessionsOwned
    <3>3. users[s.user] \in Row
      BY <3>2 DEF OrdersInv, RowsTyped
    <3>4. users[s.user].role \in Roles
      BY <3>3 DEF Row
    <3>5. r \in Ctx
      BY <3>2, <3>4 DEF Ctx
    <3>6. Known(minted, sessions, r)
      BY <3>2 DEF Known, RequestsInv, TokensUnique
    <3> QED BY <3>1, <3>5, <3>6
  <2> QED BY <2>1, <2>2, Zenon DEF Admit
<1>2. RequestsTyped'
  BY <1>1 DEF RequestsTyped
<1>3. ASSUME NEW o \in Requests, req'[o] # None PROVE Known(minted, sessions, req'[o])
  BY <1>1, <1>3 DEF RequestsInv, RequestsTyped
<1>4. TokensUnique'
  BY <1>0 DEF RequestsInv, TokensUnique
<1> QED BY <1>0, <1>2, <1>3, <1>4 DEF RequestsInv

\* A request that has found the session it is to end.
LEMMA MatchStep ==
    ASSUME RequestsInv, RequestsTyped, SessionsOwned,
           NEW p \in Requests, NEW prefix \in Prefixes, revoke_session(p, prefix)
    PROVE  RequestsInv' /\ RequestsTyped'
<1>0. UNCHANGED << minted, sessions >>
  BY DEF revoke_session, dbvars
<1>1. PICK s \in Listed(p) :
         req' = [req EXCEPT ![p] = [at |-> "matched", uid |-> req[p].uid, role |-> req[p].role,
                                    target |-> s.user, prefix |-> prefix]]
  BY DEF revoke_session
<1>2. PICK r : r = [at |-> "matched", uid |-> req[p].uid, role |-> req[p].role,
                    target |-> s.user, prefix |-> prefix]
  OBVIOUS
<1>3. req[p] \in Ctx
  BY DEF revoke_session, IsCtx, RequestsTyped, Ctx, Match, Coded
<1>4. req[p].uid \in Uids \cup {None} /\ req[p].role \in Roles
  BY <1>3 DEF Ctx
<1>5. s.user \in Uids /\ (can_manage_users(req[p].role) \/ s.user = req[p].uid)
  BY DEF Listed, SessionsOwned
<1>6. r \in Match
  BY <1>2, <1>4, <1>5 DEF Match
<1>7. Known(minted, sessions, r)
  BY <1>2, <1>5 DEF Known
<1>8. RequestsTyped'
  BY <1>1, <1>2, <1>6 DEF RequestsTyped
<1>9. ASSUME NEW o \in Requests, req'[o] # None PROVE Known(minted, sessions, req'[o])
  BY <1>1, <1>2, <1>7, <1>9 DEF RequestsInv, RequestsTyped
<1>10. TokensUnique'
  BY <1>0 DEF RequestsInv, TokensUnique
<1> QED BY <1>0, <1>8, <1>9, <1>10 DEF RequestsInv

\* Every step keeps RequestsInv, action by action.
LEMMA RequestsStep ==
    /\ RequestsInv /\ RequestsTyped /\ OrdersInv /\ TablesTyped /\ SessionsOwned
    /\ [Next]_vars
    => RequestsInv' /\ RequestsTyped'
<1> SUFFICES ASSUME RequestsInv, RequestsTyped, OrdersInv, TablesTyped, SessionsOwned,
                    [Next]_vars
             PROVE  RequestsInv' /\ RequestsTyped'
  OBVIOUS
<1>0. sessions' \subseteq sessions /\ minted \subseteq minted' => SessionsMove
  BY DEF SessionsMove
<1>1. ASSUME SessionsMove, \/ UNCHANGED req
                           \/ \E p \in Requests : Answered(p)
                           \/ req' = [p \in Requests |-> None]
      PROVE  RequestsInv' /\ RequestsTyped'
  <2>1. /\ RequestsTyped'
        /\ \A p \in Requests : req'[p] = req[p] \/ req'[p] = None
    BY <1>1 DEF RequestsTyped, Answered
  <2> QED BY <1>1, <2>1, RequestsAlone
<1>2. CASE PasswordLogins
  <2>1. ASSUME NEW ip \in Ips, NEW name \in Names, NEW pw \in Passwords, login(ip, name, pw)
        PROVE  SessionsMove /\ UNCHANGED req
    <3>1. CASE UNCHANGED << sessions, minted >>
      BY <1>0, <2>1, <3>1 DEF login
    <3>2. CASE \E u \in CanLogin(name, pw) : OpenSession(u, "local")
      BY <2>1, <3>2, OpenedMoves DEF login
    <3> QED BY <2>1, <3>1, <3>2 DEF login
  <2>2. ASSUME NEW ip \in Ips, NEW email \in Emails, request_reset(ip, email)
        PROVE  SessionsMove /\ UNCHANGED req
    BY <1>0, <2>2 DEF request_reset
  <2>3. ASSUME NEW t \in Resets, NEW pw \in Passwords, confirm_reset(t, pw)
        PROVE  SessionsMove /\ UNCHANGED req
    BY <1>0, <2>3 DEF confirm_reset
  <2> QED BY <1>1, <1>2, <2>1, <2>2, <2>3 DEF PasswordLogins
<1>3. CASE SingleSignOns
  <2>1. ASSUME NEW ip, NEW sub, NEW name, NEW email, NEW role,
               ldap_login(ip, sub, name, email, role)
        PROVE  SessionsMove /\ UNCHANGED req
    BY <1>0, <2>1, UpsertMoves DEF ldap_login
  <2>2. ASSUME NEW sub, NEW name, NEW email, saml_callback(sub, name, email)
        PROVE  SessionsMove /\ UNCHANGED req
    BY <2>2, UpsertMoves DEF saml_callback
  <2>3. ASSUME NEW p \in Requests, NEW sub, NEW name, NEW email, OidcClaims(p, sub, name, email)
        PROVE  SessionsMove /\ Answered(p)
    BY <2>3, UpsertMoves DEF OidcClaims, Answered
  <2> QED BY <1>1, <1>3, <2>1, <2>2, <2>3 DEF SingleSignOns
<1>4. CASE OidcFlows
  <2>1. ASSUME NEW s \in States, oidc_login(s) PROVE SessionsMove /\ UNCHANGED req
    BY <1>0, <2>1 DEF oidc_login, dbvars
  <2>2. ASSUME NEW s \in States, NEW p \in Requests, oidc_callback(p, s)
        PROVE  RequestsInv' /\ RequestsTyped'
    <3>1. SessionsMove
      BY <1>0, <2>2 DEF oidc_callback, dbvars
    <3>2. UNCHANGED req \/ req' = [req EXCEPT ![p] = [at |-> "exchange"]]
      BY <2>2 DEF oidc_callback
    <3>3. CASE req' = [req EXCEPT ![p] = [at |-> "exchange"]]
      <4>1. RequestsTyped'
        BY <3>3 DEF RequestsTyped, Coded
      <4>2. \A o \in Requests : req'[o] = req[o] \/ req'[o].at = "exchange"
        BY <3>3 DEF RequestsTyped
      <4> QED BY <3>1, <4>1, <4>2, RequestsAlone
    <3> QED BY <1>1, <3>1, <3>2, <3>3
  <2> QED BY <1>1, <1>4, <2>1, <2>2 DEF OidcFlows
<1>5. CASE Administration
  <2>1. SessionsMove /\ \E p \in Requests : Answered(p)
    BY <1>0, <1>5
       DEF Administration, create_user, update_user, set_password, del_user, delete, dbvars
  <2> QED BY <1>1, <2>1
<1>6. CASE SessionRequests
  <2>1. ASSUME NEW p \in Requests,
               logout(p) \/ RevokeMatched(p) \/ revoke_other_sessions(p) \/ Dropped(p)
        PROVE  SessionsMove /\ Answered(p)
    BY <1>0, <2>1 DEF logout, RevokeMatched, revoke_other_sessions, Except, Dropped, dbvars
  <2> QED BY <1>1, <1>6, <2>1, AdmitStep, MatchStep DEF SessionRequests
<1>7. CASE Commands
  <2>1. SessionsMove /\ UNCHANGED req
    BY <1>0, <1>7
       DEF Commands, cmd_create, cmd_delete, delete, cmd_set_password, cmd_set_active, CliWrites,
           CliAborts, dbvars
  <2> QED BY <1>1, <2>1
<1>8. CASE CommitWrite
  <2>1. PICK u, v : u = txn.uid /\ v = txn.via
    OBVIOUS
  <2>2. UNCHANGED req /\ (UNCHANGED << sessions, minted >> \/ OpenSession(u, v))
    BY <1>8, <2>1 DEF CommitWrite
  <2>3. SessionsMove
    BY <1>0, <2>2, OpenedMoves
  <2> QED BY <1>1, <2>2, <2>3
<1>9. CASE Restart
  <2>1. SessionsMove /\ req' = [p \in Requests |-> None]
    BY <1>0, <1>9 DEF Restart
  <2> QED BY <1>1, <2>1
<1>10. CASE Tick \/ UNCHANGED vars
  <2>1. SessionsMove /\ UNCHANGED req
    BY <1>0, <1>10 DEF Tick, vars, dbvars, idvars
  <2> QED BY <1>1, <2>1
<1> QED BY <1>2, <1>3, <1>4, <1>5, <1>6, <1>7, <1>8, <1>9, <1>10 DEF Next

-----------------------------------------------------------------------------

\* The inductive invariant of the module.
IdInv ==
    /\ OrdersInv /\ ResetsOwned /\ OwnersInv /\ OnceInv /\ RateInv
    /\ TablesTyped /\ FlowsTyped /\ RequestsTyped /\ RequestsInv

\* IdInv is an invariant of accounts, sessions and the limiter.
LEMMA IdInvAlways == Spec => []IdInv
<1>1. Init => IdInv
  <2> SUFFICES ASSUME Init PROVE IdInv
    OBVIOUS
  <2>1. OrdersInv /\ OwnersInv /\ RateInv
    BY OrdersInit, OwnersInit, RateInit
  <2>2. ResetsOwned /\ OnceInv
    BY DEF Init, ResetsOwned, OnceInv, UsesTyped, StatesOnce, ResetsOnce
  <2>3. TablesTyped /\ FlowsTyped /\ RequestsTyped
    BY DEF Init, TablesTyped, FlowsTyped, RequestsTyped, Minted
  <2>4. RequestsInv
    BY DEF Init, RequestsInv, TokensUnique
  <2> QED BY <2>1, <2>2, <2>3, <2>4 DEF IdInv
<1>2. IdInv /\ [Next]_vars => IdInv'
  <2> SUFFICES ASSUME IdInv, [Next]_vars PROVE IdInv'
    OBVIOUS
  <2>1. RateTyped /\ SessionsOwned
    BY DEF IdInv, RateInv, OwnersInv
  <2>2. OrdersInv' /\ ResetsOwned' /\ OwnersInv' /\ OnceInv' /\ RateInv'
    BY OrdersStep, ResetsStep, OwnersStep, OnceStep, RateStep DEF IdInv
  <2>3. TablesTyped' /\ FlowsTyped' /\ RequestsTyped' /\ RequestsInv'
    BY <2>1, TablesStep, FlowsStep, RequestsStep DEF IdInv
  <2> QED BY <2>2, <2>3 DEF IdInv
<1> QED BY <1>1, <1>2, PTL DEF Spec

\* For every limit, window and cap of the table: check_auth_ip_rate never lets more than
\* twice its limit through from one address in any span as long as its window, whatever
\* addresses and endpoints share the table, pruning and the saturation of the count
\* included; and the tables, requests and pending logins keep their types.
THEOREM AttemptsStayBounded == Spec => []AttemptsBounded
<1>1. IdInv => AttemptsBounded
  <2> SUFFICES ASSUME IdInv PROVE AttemptsBounded
    OBVIOUS
  <2>1. DbTypeOK
    BY DEF IdInv, OrdersInv, RowsTyped, TablesTyped, Minted, RateInv, RateTyped, DbTypeOK
  <2>2. IdTypeOK
    BY <2>1 DEF IdInv, OrdersInv, RowsTyped, RateInv, RateTyped, FlowsTyped, RequestsTyped,
                OnceInv, UsesTyped, IdTypeOK
  <2>3. LoginBurstBounded
    BY DEF IdInv, RateInv, Paced, Spread, LoginBurstBounded
  <2> QED BY <2>2, <2>3 DEF AttemptsBounded
<1> QED BY <1>1, IdInvAlways, PTL

\* What ends with the answer to a request that may not manage users.
EndsOwnOnly ==
    \A p \in Requests :
        (/\ req[p] # None /\ req[p].at \in {"ctx", "matched"}
         /\ ~can_manage_users(req[p].role) /\ req'[p] = None)
        => \A s \in sessions \ sessions' : s.user = req[p].uid

\* A step from a state of IdInv ends only sessions its request may end.
LEMMA EndsOwnOnlyStep == IdInv /\ [Next]_vars => EndsOwnOnly
<1> SUFFICES ASSUME IdInv, [Next]_vars,
                    NEW p \in Requests, req[p] # None, req[p].at \in {"ctx", "matched"},
                    ~can_manage_users(req[p].role), req'[p] = None,
                    NEW s \in sessions \ sessions'
             PROVE  s.user = req[p].uid
  BY DEF EndsOwnOnly
<1>1. Known(minted, sessions, req[p])
  BY DEF IdInv, RequestsInv
<1>2. ASSUME UNCHANGED req PROVE FALSE
  BY <1>2
<1>3. ASSUME sessions \subseteq sessions' PROVE FALSE
  BY <1>3
<1>4. ASSUME NEW o \in Requests, Answered(o) PROVE o = p
  BY <1>4 DEF Answered, IdInv, RequestsTyped
<1>5. CASE PasswordLogins
  BY <1>2, <1>5 DEF PasswordLogins, login, request_reset, confirm_reset
<1>6. CASE SingleSignOns
  <2>1. PICK o \in Requests : Answered(o) /\ req[o].at = "exchange"
    BY <1>2, <1>6 DEF SingleSignOns, ldap_login, saml_callback, OidcClaims, Answered
  <2> QED BY <1>4, <2>1
<1>7. CASE OidcFlows
  BY <1>3, <1>7 DEF OidcFlows, oidc_login, oidc_callback, dbvars
<1>8. CASE Administration
  <2>1. PICK o \in Requests : AdminCtx(o) /\ Answered(o)
    BY <1>8 DEF Administration, create_user, update_user, set_password, del_user
  <2> QED BY <1>4, <2>1 DEF AdminCtx
<1>9. CASE SessionRequests
  <2>1. ASSUME NEW o \in Requests, NEW t, Admit(o, t) PROVE FALSE
    BY <1>3, <2>1 DEF Admit, dbvars
  <2>2. ASSUME NEW o \in Requests, NEW prefix, revoke_session(o, prefix) PROVE FALSE
    BY <1>3, <2>2 DEF revoke_session, dbvars
  <2>3. ASSUME NEW o \in Requests, Dropped(o) PROVE FALSE
    BY <1>3, <2>3 DEF Dropped, dbvars
  <2>4. ASSUME NEW o \in Requests, logout(o) PROVE s.user = req[p].uid
    <3>1. o = p /\ req[p].at = "ctx" /\ sessions' = {x \in sessions : x.token # req[o].token}
      BY <1>4, <2>4 DEF logout, IsCtx
    <3> QED BY <1>1, <3>1 DEF Known
  <2>5. ASSUME NEW o \in Requests, RevokeMatched(o) PROVE s.user = req[p].uid
    <3>1. /\ o = p /\ req[p].at = "matched"
          /\ sessions' = sessions \ ByPrefix(req[o].target, req[o].prefix)
      BY <1>4, <2>5 DEF RevokeMatched
    <3> QED BY <1>1, <3>1 DEF Known, ByPrefix
  <2>6. ASSUME NEW o \in Requests, revoke_other_sessions(o) PROVE s.user = req[p].uid
    <3>1. o = p /\ sessions' = Except(req[o].uid, req[o].token)
      BY <1>4, <2>6 DEF revoke_other_sessions
    <3> QED BY <3>1 DEF Except
  <2> QED BY <1>9, <2>1, <2>2, <2>3, <2>4, <2>5, <2>6 DEF SessionRequests
<1>10. CASE Commands
  BY <1>2, <1>10 DEF Commands, cmd_create, cmd_delete, cmd_set_password, cmd_set_active,
                     CliWrites, CliAborts
<1>11. CASE CommitWrite
  BY <1>2, <1>11 DEF CommitWrite
<1>12. CASE Restart \/ Tick
  BY <1>3, <1>12 DEF Restart, Tick
<1>13. CASE UNCHANGED vars
  BY <1>2, <1>13 DEF vars, idvars
<1> QED BY <1>5, <1>6, <1>7, <1>8, <1>9, <1>10, <1>11, <1>12, <1>13 DEF Next

\* However many tokens share their first eight characters, and whatever happens while
\* revoke_session has given the mutex back: the request of someone who may not manage
\* users ends sessions of its own account only.
THEOREM SessionsEndedByOwner == Spec => OthersStaySignedIn
<1>1. IdInv /\ [Next]_vars => [EndsOwnOnly]_vars
  BY EndsOwnOnlyStep
<1>2. Spec => [][EndsOwnOnly]_vars
  BY <1>1, IdInvAlways, PTL DEF Spec
<1> QED BY <1>2 DEF OthersStaySignedIn, EndsOwnOnly
=============================================================================
