----------------------------- MODULE MCIdentity -----------------------------
(***************************************************************************)
(* Identity under several kinds of traffic. A behaviour has one of them    *)
(* from beginning to end; each brings together the handlers that can       *)
(* disturb one another in one of the properties.                           *)
(***************************************************************************)
EXTENDS Identity, TLC

CONSTANT Lanes

VARIABLE lane

\* Every token has the same first characters.
SamePrefix == [t \in Tokens |-> "0"]
Lowered    == [n \in Names |-> AdminName]

Sym == Permutations(Uids) \cup Permutations(Tokens) \cup Permutations(Requests)

\* Attempts at the rate limit, at several instants.
Gate ==
    \/ \E ip \in Ips, pw \in Passwords : login(ip, AdminName, pw)
    \/ \E ip \in Ips, email \in Emails : request_reset(ip, email)
    \/ \E ip \in Ips, sub \in Subs : ldap_login(ip, sub, "ann", None, DefaultRole)
    \/ Restart \/ Tick

\* Bound: two accounts are created by order, a third only where nobody orders it.
Roomy == Cardinality(minted \cap Uids) < 2

\* One change at a time.
Single == {[NoPatch EXCEPT !.role = DefaultRole]}
              \cup {[NoPatch EXCEPT !.active = b] : b \in BOOLEAN}

\* Rows written by handlers and by commands.
Rows ==
    \/ \E p \in Requests :
          \/ (\A o \in Requests : req[o] = None) /\ Admit(p, None)
          \/ Dropped(p)
          \/ Roomy /\ create_user(p, "ann", None, AdminKey, DefaultRole)
          \/ \E u \in Uids : \/ \E q \in Single : update_user(p, u, q)
                              \/ set_password(p, u, "new")
                              \/ del_user(p, u)
    \/ Roomy /\ cmd_create("ann", None, AdminKey, DefaultRole)
    \/ \E name \in Names, c \in Clis :
          \/ cmd_delete(name)
          \/ cmd_set_password(c, name, "new")
          \/ \E b \in BOOLEAN : cmd_set_active(c, name, b)
    \/ \E c \in Clis : CliWrites(c) \/ CliAborts(c)
    \/ CommitWrite \/ Restart

\* Accounts of external subjects, their e-mail addresses and password resets.
Subjects ==
    \/ \E sub \in Subs, email \in Addresses, name \in Names \ {AdminName} :
          \/ \E ip \in Ips : ldap_login(ip, sub, name, email, DefaultRole)
          \/ saml_callback(sub, name, email)
          \/ \E p \in Requests : OidcClaims(p, sub, name, email)
    \/ \E s \in States : oidc_login(s) \/ \E p \in Requests : oidc_callback(p, s)
    \/ \E ip \in Ips, name \in Names : login(ip, name, "new")
    \/ \E ip \in Ips, email \in Emails : request_reset(ip, email)
    \/ \E t \in Resets : confirm_reset(t, "new")
    \/ \E p \in Requests : Dropped(p)
    \/ cmd_delete("ann")
    \/ CommitWrite \/ Tick

\* Sessions of several accounts and the requests that end them.
Sessions ==
    \/ \E ip \in Ips, name \in Names, pw \in Passwords : login(ip, name, pw)
    \/ \E role \in Roles : Roomy /\ cmd_create("ann", None, AdminKey, role)
    \/ SessionRequests \/ Tick

MCInit == Init /\ lane \in Lanes

MCNext ==
    /\ lane' = lane
    /\ \/ lane = "gate" /\ Gate
       \/ lane = "rows" /\ Rows
       \/ lane = "subjects" /\ Subjects
       \/ lane = "sessions" /\ Sessions

MCSpec == MCInit /\ [][MCNext]_<< vars, lane >>
=============================================================================
