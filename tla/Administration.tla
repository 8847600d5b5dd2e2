--------------------------- MODULE Administration ---------------------------
(***************************************************************************)
(* The handlers behind the Admin screen (api/app.py, api/auth.py and       *)
(* api/service.py): users, threshold overrides, connections with their     *)
(* passwords, and the mapping of a project.  Each reads something, decides,*)
(* and writes in a later transaction; server threads interleave between.   *)
(*                                                                         *)
(* A request is accepted on the user's row as it is then: the role is      *)
(* checked by require, the asset of the project by _project, on that copy. *)
(* A role or an asset taken away later does not stop it.  The audit entry, *)
(* which each handler writes last and none reads, is left out.             *)
(***************************************************************************)
EXTENDS Naturals, FiniteSets

CONSTANTS
  Threads,      \* server threads
  Ids,          \* user ids, drawn at random by the code
  Names,        \* account names, in lower case
  Profiles,     \* what an administrator may give: [roles, assets]
  Root,         \* id of the bootstrap administrator
  RootName,
  Projects,     \* one asset each
  Global,       \* scope of the overrides that hold for all projects
  Keys,         \* threshold keys that are overridden
  Values,       \* values of an override
  Unset,        \* no override
  Conns,        \* connection ids
  None,         \* no user, no connection, no mapping
  Offered,      \* bound: the requests that come
  MaxFaults     \* bound: errors of the store or the file, and crashes

Scopes == Projects \cup {Global}

ASSUME AdministrationAssumption ==
  /\ Root \in Ids /\ RootName \in Names
  /\ None \notin Ids \cup Conns
  /\ Global \notin Projects
  /\ Unset \notin Values
  /\ [roles |-> {"admin"}, assets |-> {}] \in Profiles
  /\ \A p \in Profiles : DOMAIN p = {"roles", "assets"}
  /\ "secrets" \notin Scopes
  /\ MaxFaults \in Nat

VARIABLES
  users,        \* id -> row of table users, or None
  overrides,    \* scope -> its threshold_overrides
  secrets,      \* connections whose password secrets.json holds, or held
  file,         \* secrets.json: "json", "empty", or "garbled"
  conns,        \* id -> row of table connections, or None
  mapping,      \* project -> connection of its row in mappings, or None
  thr,          \* thread -> its request and how far it is
  faults,
  asked,        \* history: scope -> overrides if each patch were one step
  lost          \* history: what an outdated copy was written over, and the file
                \* when a write to it was cut short

tables == <<users, overrides, secrets, file, conns, mapping>>
vars == <<tables, thr, faults, asked, lost>>

User == [ name : Names, profile : Profiles, active : BOOLEAN ]

Overrides == [Keys -> Values \cup {Unset}]

Connection == [ project : Projects, secret : BOOLEAN ]

NewUser == [ op : {"create_user"}, name : Names, profile : Profiles ]
UserChange ==  \* None: not given
  [ op : {"update_user"}, id : Ids, profile : Profiles \cup {None},
    active : BOOLEAN \cup {None} ]
Patch ==
  [ op : {"patch_thresholds"}, scope : Scopes, key : Keys, value : Values ]
NewConnection ==
  [ op : {"create_connection"}, project : Projects, secret : BOOLEAN ]
NewMapping == [ op : {"save_mapping"}, project : Projects, conn : Conns ]

Request == NewUser \cup UserChange \cup Patch \cup NewConnection \cup NewMapping

ASSUME OfferedAssumption == Offered \subseteq Request

\* copy, kept: overrides or secrets that a handler read and writes back changed;
\* conn: the id it drew; current: history, nobody has written what it read since.
Handler ==
  [ pc : {"idle", "accepted", "checked", "writing", "stored"}, req : Request \cup {None},
    copy : Overrides \cup {None}, kept : SUBSET Conns,
    conn : Conns \cup {None}, current : BOOLEAN ]

Idle ==
  [ pc |-> "idle", req |-> None, copy |-> None, kept |-> {}, conn |-> None,
    current |-> FALSE ]

Init ==
  /\ users = [ i \in Ids |->
       IF i = Root
       THEN [ name |-> RootName, active |-> TRUE,
              profile |-> [roles |-> {"admin"}, assets |-> {}] ]
       ELSE None ]
  /\ overrides = [s \in Scopes |-> [k \in Keys |-> Unset]]
  /\ secrets = {} /\ file = "json"
  /\ conns = [c \in Conns |-> None]
  /\ mapping = [p \in Projects |-> None]
  /\ thr = [t \in Threads |-> Idle]
  /\ faults = 0
  /\ asked = overrides
  /\ lost = {}

-----------------------------------------------------------------------------
Has(u, role) == role \in users[u].profile.roles

\* require and _project, on the row of the user: an administrator may everything.
Entitled(u, q) ==
  /\ users[u] # None /\ users[u].active
  /\ \/ Has(u, "admin")
     \/ /\ q.op \in {"create_connection", "save_mapping"}
        /\ Has(u, "engineer") \/ Has(u, "reviewer")
        /\ q.project \in users[u].profile.assets

At(t, pc, op) == thr[t].pc = pc /\ thr[t].req.op = op

Release(t) == thr' = [thr EXCEPT ![t] = Idle]

Busy(op) == {t \in Threads : thr[t].pc # "idle" /\ thr[t].req.op = op}

\* Bound: enough ids are left for the requests under way and this one.
Room(q) ==
  /\ q.op = "create_user" =>
       Cardinality(Busy(q.op)) < Cardinality({i \in Ids : users[i] = None})
  /\ q.op = "create_connection" =>
       Cardinality(Busy(q.op))
         < Cardinality({c \in Conns : conns[c] = None /\ c \notin secrets})

\* resolve_principal and require: a request that is refused changes nothing.
Accept(t) ==
  /\ thr[t].pc = "idle"
  /\ \E q \in Offered :
       /\ Room(q)
       /\ \E u \in Ids : Entitled(u, q)
       /\ thr' = [thr EXCEPT ![t].pc = "accepted", ![t].req = q]
  /\ UNCHANGED <<tables, faults, asked, lost>>

-----------------------------------------------------------------------------
(* Users: UserStore.create, UserStore.update. *)

NameTaken(name) == \E i \in Ids : users[i] # None /\ users[i].name = name

\* get_by_username: 409 when the name is taken.
CheckName(t) ==
  /\ At(t, "accepted", "create_user")
  /\ IF NameTaken(thr[t].req.name) THEN Release(t)
     ELSE thr' = [thr EXCEPT ![t].pc = "checked"]
  /\ UNCHANGED <<tables, faults, asked, lost>>

\* Mutant: a table without UNIQUE on the name.
InsertUserAnyway(t) ==
  /\ At(t, "checked", "create_user")
  /\ \E i \in Ids :
       /\ users[i] = None
       /\ users' = [users EXCEPT ![i] =
             [ name |-> thr[t].req.name, profile |-> thr[t].req.profile,
               active |-> TRUE ]]
  /\ Release(t)
  /\ UNCHANGED <<overrides, secrets, file, conns, mapping, faults, asked, lost>>

\* INSERT INTO users: the name is UNIQUE, a second row raises.
InsertUser(t) ==
  /\ At(t, "checked", "create_user")
  /\ ~NameTaken(thr[t].req.name)
  /\ \E i \in Ids :
       /\ users[i] = None
       /\ users' = [users EXCEPT ![i] =
             [ name |-> thr[t].req.name, profile |-> thr[t].req.profile,
               active |-> TRUE ]]
  /\ Release(t)
  /\ UNCHANGED <<overrides, secrets, file, conns, mapping, faults, asked, lost>>

InsertRaises(t) ==
  /\ At(t, "checked", "create_user")
  /\ NameTaken(thr[t].req.name)
  /\ Release(t)
  /\ UNCHANGED <<tables, faults, asked, lost>>

\* UserStore.update: 404, or UPDATE of the given columns in the next transaction.
FindUser(t) ==
  /\ At(t, "accepted", "update_user")
  /\ IF users[thr[t].req.id] = None THEN Release(t)
     ELSE thr' = [thr EXCEPT ![t].pc = "checked"]
  /\ UNCHANGED <<tables, faults, asked, lost>>

Given(new, old) == IF new = None THEN old ELSE new

Updated(u, q) ==
  [ name |-> u.name, profile |-> Given(q.profile, u.profile),
    active |-> Given(q.active, u.active) ]

UpdateUser(t) ==
  /\ At(t, "checked", "update_user")
  /\ LET q == thr[t].req
     IN users' = [users EXCEPT ![q.id] = IF @ = None THEN None ELSE Updated(@, q)]
  /\ Release(t)
  /\ UNCHANGED <<overrides, secrets, file, conns, mapping, faults, asked, lost>>

-----------------------------------------------------------------------------
(* What is read, changed in memory and written back whole. *)

\* What a handler reads and writes back whole.
Target(q) ==
  IF q.op = "patch_thresholds" THEN q.scope
  ELSE IF q.op = "create_connection" THEN "secrets" ELSE None

\* History: x is written back by t.  What others have read of it is outdated now;
\* what t had read may have been already.
Outdate(x, t, next) ==
  /\ thr' = [ u \in Threads |->
       IF u = t THEN next
       ELSE IF thr[u].pc \in {"checked", "writing"} /\ Target(thr[u].req) = x
       THEN [thr[u] EXCEPT !.current = FALSE]
       ELSE thr[u] ]
  /\ lost' = IF thr[t].current THEN lost ELSE lost \cup {x}

\* patch_thresholds reads the overrides of the scope: a setting, or the
\* configuration of a project.
ReadOverrides(t) ==
  /\ At(t, "accepted", "patch_thresholds")
  /\ thr' = [thr EXCEPT ![t].pc = "checked", ![t].current = TRUE,
                        ![t].copy = overrides[thr[t].req.scope]]
  /\ UNCHANGED <<tables, faults, asked, lost>>

\* Mutant: the patch replaces the overrides.
DeepUpdateAll(base, key, value) ==
  [k \in Keys |-> IF k = key THEN value ELSE Unset]

\* _deep_update, for one key.
DeepUpdate(base, key, value) == [base EXCEPT ![key] = value]

\* ... and writes them back in another transaction.
WriteOverrides(t) ==
  /\ At(t, "checked", "patch_thresholds")
  /\ LET q == thr[t].req
     IN /\ overrides' = [ overrides EXCEPT ![q.scope] =
                            DeepUpdate(thr[t].copy, q.key, q.value) ]
        /\ asked' = [asked EXCEPT ![q.scope] = [@ EXCEPT ![q.key] = q.value]]
        /\ Outdate(q.scope, t, Idle)
  /\ UNCHANGED <<users, secrets, file, conns, mapping, faults>>

\* create_connection draws an id; SecretsStore.set reads the file if there is a
\* password to be kept in it ...
ReadSecrets(t) ==
  /\ At(t, "accepted", "create_connection")
  /\ thr[t].req.secret => file = "json"
  /\ \E c \in Conns :
       /\ conns[c] = None /\ c \notin secrets
       /\ \A u \in Threads : thr[u].conn # c
       /\ thr' = [ thr EXCEPT ![t] =
            IF thr[t].req.secret
            THEN [ @ EXCEPT !.pc = "checked", !.conn = c, !.current = TRUE,
                            !.kept = secrets ]
            ELSE [@ EXCEPT !.pc = "stored", !.conn = c] ]
  /\ UNCHANGED <<tables, faults, asked, lost>>

\* ... which raises (500) when the file is no JSON,
ReadRaises(t) ==
  /\ At(t, "accepted", "create_connection")
  /\ thr[t].req.secret /\ file # "json"
  /\ Release(t)
  /\ UNCHANGED <<tables, faults, asked, lost>>

\* ... opens it, which empties it,
OpenSecrets(t) ==
  /\ At(t, "checked", "create_connection")
  /\ file' = "empty"
  /\ thr' = [thr EXCEPT ![t].pc = "writing"]
  /\ UNCHANGED <<users, overrides, secrets, conns, mapping, faults, asked, lost>>

\* ... and writes it when it is closed: over what another thread wrote since, and
\* what was longer then sticks out.
Written(old) == IF old = "empty" THEN {"json"} ELSE {"json", "garbled"}

\* Mutant: the file is written with the new password only.
WriteOneSecret(t) ==
  /\ At(t, "writing", "create_connection")
  /\ secrets' = {thr[t].conn}
  /\ file' \in Written(file)
  /\ Outdate("secrets", t, [thr[t] EXCEPT !.pc = "stored", !.kept = {},
                                          !.current = FALSE])
  /\ UNCHANGED <<users, overrides, conns, mapping, faults, asked>>

WriteSecrets(t) ==
  /\ At(t, "writing", "create_connection")
  /\ secrets' = thr[t].kept \cup {thr[t].conn}
  /\ file' \in Written(file)
  /\ Outdate("secrets", t, [thr[t] EXCEPT !.pc = "stored", !.kept = {},
                                          !.current = FALSE])
  /\ UNCHANGED <<users, overrides, conns, mapping, faults, asked>>

\* INSERT INTO connections.
InsertConnection(t) ==
  /\ At(t, "stored", "create_connection")
  /\ conns' = [ conns EXCEPT ![thr[t].conn] =
       [project |-> thr[t].req.project, secret |-> thr[t].req.secret] ]
  /\ Release(t)
  /\ UNCHANGED <<users, overrides, secrets, file, mapping, faults, asked, lost>>

-----------------------------------------------------------------------------
\* Mutant: any connection that is there will do.
CheckConnectionExists(t) ==
  /\ At(t, "accepted", "save_mapping")
  /\ IF conns[thr[t].req.conn] # None
     THEN thr' = [thr EXCEPT ![t].pc = "checked"]
     ELSE Release(t)
  /\ UNCHANGED <<tables, faults, asked, lost>>

\* save_mapping: 404 for a connection that is not there, 409 for one of another
\* project.
CheckConnection(t) ==
  /\ At(t, "accepted", "save_mapping")
  /\ LET q == thr[t].req
     IN IF conns[q.conn] # None /\ conns[q.conn].project = q.project
        THEN thr' = [thr EXCEPT ![t].pc = "checked"]
        ELSE Release(t)
  /\ UNCHANGED <<tables, faults, asked, lost>>

SaveMapping(t) ==
  /\ At(t, "checked", "save_mapping")
  /\ mapping' = [mapping EXCEPT ![thr[t].req.project] = thr[t].req.conn]
  /\ Release(t)
  /\ UNCHANGED <<users, overrides, secrets, file, conns, faults, asked, lost>>

-----------------------------------------------------------------------------
CutShort(ts) ==
  lost' = IF \E t \in ts : thr[t].pc = "writing" THEN lost \cup {"secrets"}
          ELSE lost

\* A step raises (500): what was written before it stays.
Fail(t) ==
  /\ thr[t].pc # "idle"
  /\ faults < MaxFaults
  /\ faults' = faults + 1
  /\ Release(t)
  /\ CutShort({t})
  /\ UNCHANGED <<tables, asked>>

\* The process ends between two steps and is restarted.
Crash ==
  /\ \E t \in Threads : thr[t].pc # "idle"
  /\ faults < MaxFaults
  /\ faults' = faults + 1
  /\ thr' = [t \in Threads |-> Idle]
  /\ CutShort(Threads)
  /\ UNCHANGED <<tables, asked>>

Handle(t) ==
  \/ Accept(t)
  \/ CheckName(t) \/ InsertUser(t) \/ InsertRaises(t)
  \/ FindUser(t) \/ UpdateUser(t)
  \/ ReadOverrides(t) \/ WriteOverrides(t)
  \/ ReadSecrets(t) \/ ReadRaises(t)
  \/ OpenSecrets(t) \/ WriteSecrets(t) \/ InsertConnection(t)
  \/ CheckConnection(t) \/ SaveMapping(t)
  \/ Fail(t)

Next == Crash \/ \E t \in Threads : Handle(t)

Spec == Init /\ [][Next]_vars

-----------------------------------------------------------------------------
\* An idle thread holds nothing; a copy is what its handler reads; a drawn id is
\* held until the row is there.
HandlerOK(h) ==
  /\ h \in Handler
  /\ IF h.pc = "idle" THEN h = Idle ELSE h.req \in Request
  /\ h.pc = "checked" =>
       /\ h.req.op = "patch_thresholds" => h.copy \in Overrides
       /\ h.req.op = "create_connection" => h.conn \in Conns
  /\ h.pc \in {"writing", "stored"} =>
       h.req.op = "create_connection" /\ h.conn \in Conns

TypeOK ==
  /\ users \in [Ids -> User \cup {None}]
  /\ overrides \in [Scopes -> Overrides]
  /\ secrets \subseteq Conns
  /\ file \in {"json", "empty", "garbled"}
  /\ conns \in [Conns -> Connection \cup {None}]
  /\ mapping \in [Projects -> Conns \cup {None}]
  /\ thr \in [Threads -> Handler]
  /\ \A t \in Threads : HandlerOK(thr[t])
  /\ faults \in Nat
  /\ asked \in [Scopes -> Overrides]
  /\ lost \subseteq Scopes \cup {"secrets"}

\* Two requests that both found a name free do not both get it (auth.py, lines
\* 86-109).
UniqueNames ==
  \A i, j \in Ids :
    users[i] # None /\ users[j] # None /\ users[i].name = users[j].name => i = j

\* What patches have asked for is in force, unless an outdated copy was written
\* over it: nothing but that race loses an override (service.py, lines 1101-1111).
PatchesKept == \A s \in Scopes : s \in lost \/ overrides[s] = asked[s]

\* A connection that names a password finds it in the file, except while the file is
\* being written, and unless that race or a write cut short took it: no other error,
\* crash or order of requests does (service.py, lines 181-196; sql.py, 44-48).
SecretsKept ==
  \/ "secrets" \in lost
  \/ /\ file = "json" \/ \E t \in Threads : thr[t].pc = "writing"
     /\ \A c \in Conns : conns[c] # None /\ conns[c].secret => c \in secrets

\* The mapping of a project is on a connection of that project, which is what
\* load_data reads (service.py, lines 325-345 and 364-371).
MappingUsable ==
  \A p \in Projects : mapping[p] # None =>
    conns[mapping[p]] # None /\ conns[mapping[p]].project = p

-----------------------------------------------------------------------------
(* Why: what the threads hold between their transactions. *)

CopiesCurrent ==
  \A t \in Threads : thr[t].pc \in {"checked", "writing"} /\ thr[t].current =>
    /\ thr[t].req.op = "patch_thresholds" =>
         thr[t].copy = overrides[thr[t].req.scope]
    /\ thr[t].req.op = "create_connection" => thr[t].kept = secrets

WritersCurrent ==
  \A t \in Threads : thr[t].pc = "writing" /\ thr[t].current => file = "empty"

SecretsStored ==
  \A t \in Threads : thr[t].pc = "stored" /\ thr[t].req.secret =>
    "secrets" \in lost \/ thr[t].conn \in secrets

DrawnFresh ==
  \A t \in Threads : thr[t].conn # None =>
    /\ conns[thr[t].conn] = None
    /\ \A u \in Threads : thr[u].conn = thr[t].conn => u = t

ConnectionsChecked ==
  \A t \in Threads : At(t, "checked", "save_mapping") =>
    LET q == thr[t].req
    IN conns[q.conn] # None /\ conns[q.conn].project = q.project
=============================================================================
