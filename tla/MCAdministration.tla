-------------------------- MODULE MCAdministration --------------------------
(* The requests that come: an engineer's account on the first project is   *)
(* created, deactivated and activated; overrides of two keys for all       *)
(* projects and of one key for the first; connections of two projects, and *)
(* mappings of the first.                                                  *)
EXTENDS Administration, TLC

CONSTANTS root, u1, u2, admin, ann, p1, p2, k1

Engineer == [roles |-> {"engineer"}, assets |-> {p1}]

MCProfiles == {Engineer, [roles |-> {"admin"}, assets |-> {}]}

MCOffered ==
  { q \in NewUser : q.name = ann /\ q.profile = Engineer }
    \cup { q \in UserChange :
             /\ q.id = u1
             /\ <<q.profile, q.active>> \in {<<Engineer, TRUE>>, <<None, FALSE>>} }
    \cup { q \in Patch : q.scope = Global \/ (q.scope = p1 /\ q.key = k1) }
    \cup { q \in NewConnection : q.secret <=> q.project = p1 }
    \cup { q \in NewMapping : q.project = p1 }

AdministrationSymmetry == Permutations(Threads) \cup Permutations(Conns)
=============================================================================
