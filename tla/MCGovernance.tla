---------------------------- MODULE MCGovernance ----------------------------
(* Model values for Governance. *)
EXTENDS Governance, TLC

CONSTANTS k1, k2, clerk1, clerk2, handler1, handler2, sha1, ticket1, ticket2,
          default, team, key1, admin1, admin2

MCHoldKeys == {k1, k2}
MCClerks   == {clerk1, clerk2}
MCHandlers == {handler1, handler2}
MCShas     == {sha1}
MCTickets  == {ticket1, ticket2}
MCSlugs    == {default, team}
MCApiKeys  == {key1}
MCAdmins   == {admin1, admin2}

\* Keys, tickets and requests are interchangeable.
Interchangeable ==
    Permutations(MCHoldKeys) \cup Permutations(MCClerks)
      \cup Permutations(MCHandlers) \cup Permutations(MCTickets)
      \cup Permutations(MCAdmins)
=============================================================================
