------------------------ MODULE AdministrationProofs ------------------------
(***************************************************************************)
(* Theorems of Administration, for any number of threads, requests and     *)
(* faults.                                                                 *)
(***************************************************************************)
EXTENDS Administration, TLAPS

LEMMA IdleOK == HandlerOK(Idle)
  BY AdministrationAssumption
  DEF AdministrationAssumption, HandlerOK, Idle, Handler

LEMMA InitType == Init => TypeOK
  BY AdministrationAssumption, IdleOK
  DEF AdministrationAssumption, Init, TypeOK, User, Scopes, Overrides, HandlerOK

\* The fields that each kind of request has.
LEMMA RequestFields ==
  ASSUME NEW q \in Request
  PROVE  /\ q.op = "create_user" => q.name \in Names /\ q.profile \in Profiles
         /\ q.op = "update_user" =>
              /\ q.id \in Ids
              /\ q.profile \in Profiles \cup {None}
              /\ q.active \in BOOLEAN \cup {None}
         /\ q.op = "patch_thresholds" =>
              q.scope \in Scopes /\ q.key \in Keys /\ q.value \in Values
         /\ q.op = "create_connection" =>
              q.project \in Projects /\ q.secret \in BOOLEAN
         /\ q.op = "save_mapping" => q.project \in Projects /\ q.conn \in Conns
         /\ q.op \in { "create_user", "update_user", "patch_thresholds",
                       "create_connection", "save_mapping" }
  BY DEF Request, NewUser, UserChange, Patch, NewConnection, NewMapping

\* A step that leaves the other threads alone keeps their types.
LEMMA OneHandler ==
  ASSUME TypeOK, NEW t \in Threads, NEW h, HandlerOK(h),
         thr' = [thr EXCEPT ![t] = h]
  PROVE  thr' \in [Threads -> Handler] /\ \A u \in Threads : HandlerOK(thr'[u])
  BY DEF TypeOK, HandlerOK

\* The same for a step that writes back what others have read.
LEMMA OutdatedHandlers ==
  ASSUME TypeOK, NEW t \in Threads, NEW h, HandlerOK(h), NEW x, Outdate(x, t, h)
  PROVE  thr' \in [Threads -> Handler] /\ \A u \in Threads : HandlerOK(thr'[u])
<1> SUFFICES ASSUME NEW u \in Threads PROVE HandlerOK(thr'[u])
  BY DEF TypeOK, HandlerOK, Outdate
<1>1. CASE u = t
  BY <1>1 DEF Outdate
<1>2. CASE u # t /\ thr'[u] = thr[u]
  BY <1>2 DEF TypeOK
<1>3. CASE /\ u # t
           /\ thr[u].pc \in {"checked", "writing"}
           /\ thr'[u] = [thr[u] EXCEPT !.current = FALSE]
  BY <1>3 DEF TypeOK, HandlerOK, Handler
<1> QED
  BY <1>1, <1>2, <1>3 DEF Outdate

LEMMA HandleType ==
  ASSUME TypeOK, NEW t \in Threads, Handle(t)
  PROVE  TypeOK'
<1> DEFINE ThrOK == /\ thr' \in [Threads -> Handler]
                    /\ \A u \in Threads : HandlerOK(thr'[u])
<1>a. HandlerOK(thr[t]) /\ thr[t] \in Handler
  BY DEF TypeOK, HandlerOK
<1>b. thr[t].pc # "idle" => thr[t].req \in Request
  BY <1>a DEF HandlerOK
<1>c. ASSUME Release(t) PROVE ThrOK
  BY <1>c, IdleOK, OneHandler DEF Release
<1>d. ASSUME thr' = [thr EXCEPT ![t].pc = "checked"],
             thr[t].req.op \in {"create_user", "update_user", "save_mapping"},
             thr[t].pc # "idle"
      PROVE  ThrOK
  <2> DEFINE h == [thr[t] EXCEPT !.pc = "checked"]
  <2>1. HandlerOK(h)
    BY <1>a, <1>d DEF HandlerOK, Handler
  <2>2. thr' = [thr EXCEPT ![t] = h]
    BY <1>d DEF TypeOK
  <2> QED
    BY <2>1, <2>2, OneHandler
<1>e. ASSUME ThrOK, UNCHANGED <<tables, asked, lost>>, faults' \in Nat
      PROVE  TypeOK'
  BY <1>e DEF TypeOK, tables
<1> HIDE DEF ThrOK
<1>1. CASE Accept(t)
  <2>1. PICK q \in Offered : thr' = [thr EXCEPT ![t].pc = "accepted", ![t].req = q]
    BY <1>1 DEF Accept
  <2> DEFINE h == [thr[t] EXCEPT !.pc = "accepted", !.req = q]
  <2>2. q \in Request
    BY OfferedAssumption DEF OfferedAssumption
  <2>3. HandlerOK(h)
    BY <1>a, <2>2 DEF HandlerOK, Handler
  <2>4. thr' = [thr EXCEPT ![t] = h]
    BY <2>1 DEF TypeOK
  <2>5. ThrOK
    BY <2>3, <2>4, OneHandler DEF ThrOK
  <2> QED
    BY <1>1, <1>e, <2>5 DEF Accept, TypeOK
<1>2. CASE CheckName(t) \/ FindUser(t) \/ CheckConnection(t)
  <2>1. /\ thr[t].pc # "idle"
        /\ thr[t].req.op \in {"create_user", "update_user", "save_mapping"}
        /\ UNCHANGED <<tables, faults, asked, lost>>
    BY <1>2 DEF CheckName, FindUser, CheckConnection, At
  <2>2. Release(t) \/ thr' = [thr EXCEPT ![t].pc = "checked"]
    BY <1>2 DEF CheckName, FindUser, CheckConnection
  <2>3. ThrOK
    BY <2>1, <2>2, <1>c, <1>d
  <2> QED
    BY <2>1, <2>3, <1>e DEF TypeOK
<1>3. CASE InsertUser(t)
  <2>1. users' \in [Ids -> User \cup {None}]
    BY <1>3, <1>b, RequestFields DEF InsertUser, At, TypeOK, User
  <2>2. ThrOK
    BY <1>3, <1>c DEF InsertUser
  <2> QED
    BY <1>3, <2>1, <2>2 DEF InsertUser, TypeOK, ThrOK
<1>4. CASE InsertRaises(t) \/ ReadRaises(t) \/ Fail(t)
  <2>1. ThrOK
    BY <1>4, <1>c DEF InsertRaises, ReadRaises, Fail
  <2>2. UNCHANGED <<tables, asked>> /\ faults' \in Nat
    BY <1>4 DEF InsertRaises, ReadRaises, Fail, TypeOK
  <2>3. lost' \in {lost, lost \cup {"secrets"}}
    BY <1>4 DEF InsertRaises, ReadRaises, Fail, CutShort
  <2> QED
    BY <2>1, <2>2, <2>3 DEF TypeOK, ThrOK, tables
<1>5. CASE UpdateUser(t)
  <2> DEFINE q == thr[t].req
             Changed(r) == IF r = None THEN None ELSE Updated(r, q)
  <2>a. /\ q.id \in Ids
        /\ q.profile \in Profiles \cup {None}
        /\ q.active \in BOOLEAN \cup {None}
    BY <1>5, <1>b, RequestFields DEF UpdateUser, At
  <2>b. ASSUME NEW r \in User \cup {None} PROVE Changed(r) \in User \cup {None}
    <3>1. ASSUME r \in User PROVE Updated(r, q) \in User
      <4>1. r.name \in Names /\ r.profile \in Profiles /\ r.active \in BOOLEAN
        BY <3>1 DEF User
      <4>2. Given(q.profile, r.profile) \in Profiles
        BY <2>a, <4>1 DEF Given
      <4>3. Given(q.active, r.active) \in BOOLEAN
        BY <2>a, <4>1, Zenon DEF Given
      <4> HIDE DEF q
      <4> QED
        BY <4>1, <4>2, <4>3, Zenon DEF User, Updated
    <3> QED
      BY <3>1
  <2>c. users' = [users EXCEPT ![q.id] = Changed(users[q.id])]
    BY <1>5 DEF UpdateUser
  <2>d. users \in [Ids -> User \cup {None}]
    BY DEF TypeOK
  <2> HIDE DEF Changed
  <2>1. users' \in [Ids -> User \cup {None}]
    BY <2>a, <2>b, <2>c, <2>d
  <2>2. ThrOK
    BY <1>5, <1>c DEF UpdateUser
  <2> QED
    BY <1>5, <2>1, <2>2 DEF UpdateUser, TypeOK, ThrOK
<1>6. CASE ReadOverrides(t)
  <2> DEFINE h == [ thr[t] EXCEPT !.pc = "checked", !.current = TRUE,
                                  !.copy = overrides[thr[t].req.scope] ]
  <2>1. thr[t].req.scope \in Scopes /\ overrides[thr[t].req.scope] \in Overrides
    BY <1>6, <1>b, RequestFields DEF ReadOverrides, At, TypeOK
  <2>2. HandlerOK(h)
    BY <1>6, <1>a, <2>1 DEF HandlerOK, Handler, ReadOverrides, At
  <2>3. thr' = [thr EXCEPT ![t] = h]
    BY <1>6 DEF ReadOverrides, TypeOK
  <2>4. ThrOK
    BY <2>2, <2>3, OneHandler DEF ThrOK
  <2> QED
    BY <1>6, <1>e, <2>4 DEF ReadOverrides, TypeOK
<1>7. CASE WriteOverrides(t)
  <2> DEFINE q == thr[t].req
  <2>1. q.scope \in Scopes /\ q.key \in Keys /\ q.value \in Values
    BY <1>7, <1>b, RequestFields DEF WriteOverrides, At
  <2>2. thr[t].copy \in Overrides
    BY <1>7, <1>a DEF WriteOverrides, At, HandlerOK
  <2>3. DeepUpdate(thr[t].copy, q.key, q.value) \in Overrides
    BY <2>1, <2>2 DEF DeepUpdate, Overrides
  <2>4. overrides' \in [Scopes -> Overrides]
    BY <1>7, <2>1, <2>3 DEF WriteOverrides, TypeOK
  <2>5. asked' \in [Scopes -> Overrides]
    BY <1>7, <2>1 DEF WriteOverrides, TypeOK, Overrides
  <2>6. ThrOK
    BY <1>7, IdleOK, OutdatedHandlers DEF WriteOverrides, ThrOK
  <2>7. lost' \subseteq Scopes \cup {"secrets"}
    BY <1>7, <2>1 DEF WriteOverrides, Outdate, TypeOK
  <2> QED
    BY <1>7, <2>4, <2>5, <2>6, <2>7 DEF WriteOverrides, TypeOK, ThrOK
<1>8. CASE ReadSecrets(t)
  <2>1. PICK c \in Conns : thr' = [ thr EXCEPT ![t] =
            IF thr[t].req.secret
            THEN [ @ EXCEPT !.pc = "checked", !.conn = c, !.current = TRUE,
                            !.kept = secrets ]
            ELSE [@ EXCEPT !.pc = "stored", !.conn = c] ]
    BY <1>8 DEF ReadSecrets
  <2>2. HandlerOK([ thr[t] EXCEPT !.pc = "checked", !.conn = c,
                                  !.current = TRUE, !.kept = secrets ])
    BY <1>8, <1>a DEF HandlerOK, Handler, ReadSecrets, At, TypeOK
  <2>3. HandlerOK([thr[t] EXCEPT !.pc = "stored", !.conn = c])
    BY <1>8, <1>a DEF HandlerOK, Handler, ReadSecrets, At
  <2>4. ThrOK
    BY <2>1, <2>2, <2>3, OneHandler DEF ThrOK
  <2> QED
    BY <1>8, <1>e, <2>4 DEF ReadSecrets, TypeOK
<1>12. CASE OpenSecrets(t)
  <2> DEFINE h == [thr[t] EXCEPT !.pc = "writing"]
  <2>1. HandlerOK(h)
    BY <1>12, <1>a DEF OpenSecrets, At, HandlerOK, Handler
  <2>2. thr' = [thr EXCEPT ![t] = h]
    BY <1>12 DEF OpenSecrets, TypeOK
  <2>3. ThrOK
    BY <2>1, <2>2, OneHandler DEF ThrOK
  <2> QED
    BY <1>12, <2>3 DEF OpenSecrets, TypeOK, ThrOK
<1>9. CASE WriteSecrets(t)
  <2> DEFINE h == [ thr[t] EXCEPT !.pc = "stored", !.kept = {},
                                  !.current = FALSE ]
  <2>1. thr[t].conn \in Conns /\ thr[t].kept \subseteq Conns
    BY <1>9, <1>a DEF WriteSecrets, At, HandlerOK, Handler
  <2>2. HandlerOK(h)
    BY <1>9, <1>a, <2>1 DEF HandlerOK, Handler, WriteSecrets, At
  <2>3. ThrOK
    BY <1>9, <2>2, OutdatedHandlers DEF WriteSecrets, ThrOK
  <2>4. lost' \subseteq Scopes \cup {"secrets"}
    BY <1>9 DEF WriteSecrets, Outdate, TypeOK
  <2>5. file' \in {"json", "empty", "garbled"}
    BY <1>9 DEF WriteSecrets, Written
  <2> QED
    BY <1>9, <2>1, <2>3, <2>4, <2>5 DEF WriteSecrets, TypeOK, ThrOK
<1>10. CASE InsertConnection(t)
  <2>1. conns' \in [Conns -> Connection \cup {None}]
    BY <1>10, <1>b, RequestFields
    DEF InsertConnection, At, TypeOK, Connection
  <2>2. ThrOK
    BY <1>10, <1>c DEF InsertConnection
  <2> QED
    BY <1>10, <2>1, <2>2 DEF InsertConnection, TypeOK, ThrOK
<1>11. CASE SaveMapping(t)
  <2>1. mapping' \in [Projects -> Conns \cup {None}]
    BY <1>11, <1>b, RequestFields DEF SaveMapping, At, TypeOK
  <2>2. ThrOK
    BY <1>11, <1>c DEF SaveMapping
  <2> QED
    BY <1>11, <2>1, <2>2 DEF SaveMapping, TypeOK, ThrOK
<1> QED
  BY <1>1, <1>2, <1>3, <1>4, <1>5, <1>6, <1>7, <1>8, <1>9, <1>10, <1>11,
     <1>12
  DEF Handle

LEMMA NextType == TypeOK /\ [Next]_vars => TypeOK'
<1> SUFFICES ASSUME TypeOK, [Next]_vars PROVE TypeOK'
  OBVIOUS
<1>1. CASE \E t \in Threads : Handle(t)
  BY <1>1, HandleType
<1>2. CASE Crash
  <2>1. lost' \subseteq Scopes \cup {"secrets"}
    BY <1>2 DEF Crash, CutShort, TypeOK
  <2> QED
    BY <1>2, <2>1, IdleOK DEF Crash, TypeOK, tables, HandlerOK
<1>3. CASE UNCHANGED vars
  BY <1>3 DEF vars, tables, TypeOK
<1> QED
  BY <1>1, <1>2, <1>3 DEF Next

\* The handlers are type correct.
THEOREM AdministrationType == Spec => []TypeOK
  BY InitType, NextType, PTL DEF Spec

-----------------------------------------------------------------------------
(* Users: the name is UNIQUE. *)

LEMMA NextUnique == TypeOK /\ UniqueNames /\ [Next]_vars => UniqueNames'
<1> SUFFICES ASSUME TypeOK, UniqueNames, [Next]_vars PROVE UniqueNames'
  OBVIOUS
<1>1. CASE UNCHANGED users
  BY <1>1 DEF UniqueNames
<1>2. ASSUME NEW t \in Threads, InsertUser(t) PROVE UniqueNames'
  <2>1. PICK i \in Ids :
          /\ users[i] = None
          /\ users' = [ users EXCEPT ![i] =
               [ name |-> thr[t].req.name, profile |-> thr[t].req.profile,
                 active |-> TRUE ] ]
    BY <1>2 DEF InsertUser
  <2>2. /\ users'[i].name = thr[t].req.name
        /\ \A j \in Ids : j # i => users'[j] = users[j]
    BY <2>1 DEF TypeOK
  <2>3. \A j \in Ids : users[j] # None => users[j].name # thr[t].req.name
    BY <1>2 DEF InsertUser, NameTaken
  <2> QED
    BY <2>2, <2>3 DEF UniqueNames
<1>3. ASSUME NEW t \in Threads, UpdateUser(t) PROVE UniqueNames'
  <2> DEFINE q == thr[t].req
  <2>1. \A j \in Ids : j # q.id => users'[j] = users[j]
    BY <1>3 DEF UpdateUser, TypeOK
  <2>2. ASSUME q.id \in Ids, users'[q.id] # None
        PROVE  users[q.id] # None /\ users'[q.id].name = users[q.id].name
    <3>1. users[q.id] # None
      BY <1>3, <2>2 DEF UpdateUser, TypeOK
    <3>2. users'[q.id] = Updated(users[q.id], q)
      BY <1>3, <2>2, <3>1 DEF UpdateUser, TypeOK
    <3> QED
      BY <3>1, <3>2 DEF Updated
  <2> QED
    BY <2>1, <2>2 DEF UniqueNames
<1> QED
  BY <1>1, <1>2, <1>3
  DEF Next, Crash, Handle, Accept, CheckName, InsertRaises, FindUser,
      ReadOverrides, WriteOverrides, ReadSecrets, ReadRaises, OpenSecrets,
      WriteSecrets, InsertConnection, CheckConnection, SaveMapping, Fail, vars,
      tables

\* No two accounts have one name, whatever requests race.
THEOREM NamesAreUnique == Spec => []UniqueNames
<1>1. Init => UniqueNames
  BY DEF Init, UniqueNames
<1> QED
  BY <1>1, InitType, NextType, NextUnique, PTL DEF Spec

-----------------------------------------------------------------------------
(* Copies: what a thread has read is what is there, while it is current. *)

\* A step that writes nothing back, and reads for t what is there.
LEMMA CopiesOfOne ==
  ASSUME TypeOK, CopiesCurrent, UNCHANGED <<overrides, secrets>>,
         NEW t \in Threads, NEW h, thr' = [thr EXCEPT ![t] = h],
         h.pc \in {"checked", "writing"} /\ h.current =>
           /\ h.req.op = "patch_thresholds" => h.copy = overrides[h.req.scope]
           /\ h.req.op = "create_connection" => h.kept = secrets
  PROVE  CopiesCurrent'
  BY DEF CopiesCurrent, TypeOK

\* A step of t that writes x back and nothing else.
LEMMA CopiesOfOthers ==
  ASSUME TypeOK, CopiesCurrent, NEW t \in Threads, NEW x, NEW h,
         h.pc \notin {"checked", "writing"}, Outdate(x, t, h),
         \A s \in Scopes : s # x => overrides'[s] = overrides[s],
         x # "secrets" => secrets' = secrets
  PROVE  CopiesCurrent'
<1> SUFFICES ASSUME NEW u \in Threads, thr'[u].pc \in {"checked", "writing"},
                    thr'[u].current
             PROVE  /\ thr'[u].req.op = "patch_thresholds" =>
                         thr'[u].copy = overrides'[thr'[u].req.scope]
                    /\ thr'[u].req.op = "create_connection" =>
                         thr'[u].kept = secrets'
  BY DEF CopiesCurrent
<1>1. u # t
  BY DEF Outdate
<1>2. /\ thr'[u] = thr[u]
      /\ Target(thr[u].req) # x
      /\ thr[u].pc \in {"checked", "writing"}
  BY <1>1 DEF Outdate, TypeOK, Handler
<1>3. thr[u].req \in Request
  BY <1>2 DEF TypeOK, HandlerOK
<1>4. thr[u].req.op = "patch_thresholds" =>
        thr[u].req.scope \in Scopes /\ thr[u].req.scope # x
  BY <1>2, <1>3, RequestFields DEF Target
<1>5. thr[u].req.op = "create_connection" => x # "secrets"
  BY <1>2 DEF Target
<1> QED
  BY <1>2, <1>4, <1>5 DEF CopiesCurrent

LEMMA HandleCopies ==
  ASSUME TypeOK, CopiesCurrent, NEW t \in Threads, Handle(t)
  PROVE  CopiesCurrent'
<1>a. ASSUME Release(t), UNCHANGED <<overrides, secrets>> PROVE CopiesCurrent'
  <2>1. Idle.pc \notin {"checked", "writing"} /\ thr' = [thr EXCEPT ![t] = Idle]
    BY <1>a DEF Idle, Release
  <2> QED
    BY <1>a, <2>1, CopiesOfOne
<1>1. CASE Accept(t)
  <2>1. PICK q \in Offered : thr' = [thr EXCEPT ![t].pc = "accepted", ![t].req = q]
    BY <1>1 DEF Accept
  <2> DEFINE h == [thr[t] EXCEPT !.pc = "accepted", !.req = q]
  <2>2. thr' = [thr EXCEPT ![t] = h] /\ h.pc \notin {"checked", "writing"}
    BY <2>1 DEF TypeOK, Handler
  <2>3. UNCHANGED <<overrides, secrets>>
    BY <1>1 DEF Accept, tables
  <2> HIDE DEF h
  <2> QED
    BY <2>2, <2>3, CopiesOfOne
<1>2. CASE CheckName(t) \/ FindUser(t) \/ CheckConnection(t)
  <2> DEFINE h == [thr[t] EXCEPT !.pc = "checked"]
  <2>1. /\ Release(t) \/ thr' = [thr EXCEPT ![t].pc = "checked"]
        /\ thr[t].req.op \in {"create_user", "update_user", "save_mapping"}
        /\ UNCHANGED <<overrides, secrets>>
    BY <1>2 DEF CheckName, FindUser, CheckConnection, At, tables
  <2>2. CASE thr' = [thr EXCEPT ![t].pc = "checked"]
    <3>1. thr' = [thr EXCEPT ![t] = h] /\ h.req.op = thr[t].req.op
      BY <2>2 DEF TypeOK, Handler
    <3> HIDE DEF h
    <3> QED
      BY <2>1, <3>1, CopiesOfOne
  <2> QED
    BY <2>1, <2>2, <1>a
<1>3. CASE \/ InsertUser(t) \/ InsertRaises(t) \/ UpdateUser(t) \/ Fail(t)
           \/ ReadRaises(t) \/ InsertConnection(t) \/ SaveMapping(t)
  BY <1>3, <1>a
  DEF ReadRaises, InsertUser, InsertRaises, UpdateUser, Fail, InsertConnection, SaveMapping,
      tables
<1>4. CASE ReadOverrides(t)
  <2> DEFINE h == [ thr[t] EXCEPT !.pc = "checked", !.current = TRUE,
                                  !.copy = overrides[thr[t].req.scope] ]
  <2>1. /\ thr' = [thr EXCEPT ![t] = h]
        /\ h.req = thr[t].req
        /\ h.copy = overrides[thr[t].req.scope]
        /\ thr[t].req.op = "patch_thresholds"
    BY <1>4 DEF ReadOverrides, At, TypeOK, Handler
  <2>2. UNCHANGED <<overrides, secrets>>
    BY <1>4 DEF ReadOverrides, tables
  <2> HIDE DEF h
  <2> QED
    BY <2>1, <2>2, CopiesOfOne
<1>5. CASE WriteOverrides(t)
  <2> DEFINE x == thr[t].req.scope
  <2>1. Idle.pc \notin {"checked", "writing"} /\ Outdate(x, t, Idle) /\ secrets' = secrets
    BY <1>5 DEF WriteOverrides, Idle
  <2>2. \A s \in Scopes : s # x => overrides'[s] = overrides[s]
    BY <1>5 DEF WriteOverrides, TypeOK
  <2> QED
    BY <2>1, <2>2, CopiesOfOthers
<1>6. CASE ReadSecrets(t)
  <2>1. PICK c \in Conns : thr' = [ thr EXCEPT ![t] =
            IF thr[t].req.secret
            THEN [ @ EXCEPT !.pc = "checked", !.conn = c, !.current = TRUE,
                            !.kept = secrets ]
            ELSE [@ EXCEPT !.pc = "stored", !.conn = c] ]
    BY <1>6 DEF ReadSecrets
  <2>2. UNCHANGED <<overrides, secrets>>
        /\ thr[t].req.op = "create_connection"
    BY <1>6 DEF ReadSecrets, At, tables
  <2>3. CASE thr[t].req.secret
    <3> DEFINE h == [ thr[t] EXCEPT !.pc = "checked", !.conn = c,
                                    !.current = TRUE, !.kept = secrets ]
    <3>1. thr' = [thr EXCEPT ![t] = h] /\ h.req = thr[t].req /\ h.kept = secrets
      BY <2>1, <2>3 DEF TypeOK, Handler
    <3> HIDE DEF h
    <3> QED
      BY <2>2, <3>1, CopiesOfOne
  <2>4. CASE ~thr[t].req.secret
    <3> DEFINE h == [thr[t] EXCEPT !.pc = "stored", !.conn = c]
    <3>1. thr' = [thr EXCEPT ![t] = h] /\ h.pc \notin {"checked", "writing"}
      BY <2>1, <2>4 DEF TypeOK, Handler
    <3> HIDE DEF h
    <3> QED
      BY <2>2, <3>1, CopiesOfOne
  <2> QED
    BY <2>3, <2>4
<1>8. CASE OpenSecrets(t)
  <2> DEFINE h == [thr[t] EXCEPT !.pc = "writing"]
  <2>1. /\ thr' = [thr EXCEPT ![t] = h]
        /\ h.req = thr[t].req /\ h.kept = thr[t].kept /\ h.current = thr[t].current
        /\ thr[t].pc = "checked" /\ thr[t].req.op = "create_connection"
    BY <1>8 DEF OpenSecrets, At, TypeOK, Handler
  <2>2. UNCHANGED <<overrides, secrets>>
    BY <1>8 DEF OpenSecrets
  <2>3. h.current => h.kept = secrets
    BY <2>1 DEF CopiesCurrent
  <2> HIDE DEF h
  <2> QED
    BY <2>1, <2>2, <2>3, CopiesOfOne
<1>7. CASE WriteSecrets(t)
  <2> DEFINE h == [ thr[t] EXCEPT !.pc = "stored", !.kept = {},
                                  !.current = FALSE ]
  <2>1. Outdate("secrets", t, h) /\ UNCHANGED overrides /\ h.pc \notin {"checked", "writing"}
    BY <1>7 DEF WriteSecrets, TypeOK, Handler
  <2> HIDE DEF h
  <2> QED
    BY <2>1, CopiesOfOthers
<1> QED
  BY <1>1, <1>2, <1>3, <1>4, <1>5, <1>6, <1>7, <1>8 DEF Handle

LEMMA NextCopies == TypeOK /\ CopiesCurrent /\ [Next]_vars => CopiesCurrent'
<1> SUFFICES ASSUME TypeOK, CopiesCurrent, [Next]_vars PROVE CopiesCurrent'
  OBVIOUS
<1>1. CASE \E t \in Threads : Handle(t)
  BY <1>1, HandleCopies
<1>2. CASE Crash
  BY <1>2 DEF Crash, Idle, CopiesCurrent
<1>3. CASE UNCHANGED vars
  BY <1>3 DEF vars, tables, CopiesCurrent
<1> QED
  BY <1>1, <1>2, <1>3 DEF Next

-----------------------------------------------------------------------------
(* Overrides and passwords: how they are lost, and that nothing else does it. *)

LEMMA NextPatches ==
  TypeOK /\ CopiesCurrent /\ PatchesKept /\ [Next]_vars => PatchesKept'
<1> SUFFICES ASSUME TypeOK, CopiesCurrent, PatchesKept, [Next]_vars
             PROVE  PatchesKept'
  OBVIOUS
<1>1. CASE UNCHANGED <<overrides, asked>> /\ lost \subseteq lost'
  BY <1>1 DEF PatchesKept
<1>2. ASSUME NEW t \in Threads, WriteOverrides(t) PROVE PatchesKept'
  <2> DEFINE q == thr[t].req
  <2>1. /\ lost \subseteq lost'
        /\ ~thr[t].current => q.scope \in lost'
    BY <1>2 DEF WriteOverrides, Outdate
  <2>2. /\ \A s \in Scopes : s # q.scope =>
             overrides'[s] = overrides[s] /\ asked'[s] = asked[s]
        /\ q.scope \in Scopes =>
             /\ overrides'[q.scope] = [thr[t].copy EXCEPT ![q.key] = q.value]
             /\ asked'[q.scope] = [asked[q.scope] EXCEPT ![q.key] = q.value]
    BY <1>2 DEF WriteOverrides, DeepUpdate, TypeOK
  <2>3. thr[t].current => thr[t].copy = overrides[q.scope]
    BY <1>2 DEF WriteOverrides, At, CopiesCurrent
  <2> QED
    BY <2>1, <2>2, <2>3 DEF PatchesKept
<1>3. ASSUME NEW t \in Threads, WriteSecrets(t) \/ Fail(t) PROVE PatchesKept'
  <2>1. UNCHANGED <<overrides, asked>> /\ lost \subseteq lost'
    BY <1>3 DEF WriteSecrets, Outdate, Fail, CutShort, tables
  <2> QED
    BY <1>1, <2>1
<1>4. CASE Crash
  <2>1. UNCHANGED <<overrides, asked>> /\ lost \subseteq lost'
    BY <1>4 DEF Crash, CutShort, tables
  <2> QED
    BY <1>1, <2>1
<1> QED
  BY <1>1, <1>2, <1>3, <1>4
  DEF Next, Handle, Accept, CheckName, InsertUser, InsertRaises, FindUser,
      UpdateUser, ReadOverrides, ReadSecrets, ReadRaises, OpenSecrets,
      InsertConnection, CheckConnection, SaveMapping, vars, tables

\* Nothing but an outdated copy loses an override that was asked for.
THEOREM OverridesAreKept == Spec => []PatchesKept
<1>1. Init => CopiesCurrent /\ PatchesKept
  BY DEF Init, CopiesCurrent, PatchesKept, Idle
<1> QED
  BY <1>1, InitType, NextType, NextCopies, NextPatches, PTL DEF Spec

LEMMA NextSecrets ==
  /\ TypeOK /\ CopiesCurrent /\ WritersCurrent /\ SecretsStored /\ SecretsKept
  /\ [Next]_vars
  => WritersCurrent' /\ SecretsStored' /\ SecretsKept'
<1> DEFINE Goal == WritersCurrent' /\ SecretsStored' /\ SecretsKept'
<1> SUFFICES ASSUME TypeOK, CopiesCurrent, WritersCurrent, SecretsStored,
                    SecretsKept, [Next]_vars
             PROVE  Goal
  OBVIOUS
<1> DEFINE Frame(u) ==
      /\ thr'[u].pc = "stored" /\ thr'[u].req.secret =>
           /\ thr[u].pc = "stored" /\ thr[u].req.secret
           /\ thr'[u].conn = thr[u].conn
      /\ thr'[u].pc = "writing" /\ thr'[u].current =>
           thr[u].pc = "writing" /\ thr[u].current
      /\ thr[u].pc = "writing" => thr'[u].pc = "writing" \/ "secrets" \in lost'
<1>a. ASSUME UNCHANGED <<secrets, file, conns>>, lost \subseteq lost',
             \A u \in Threads : Frame(u)
      PROVE  Goal
  <2>1. WritersCurrent' /\ SecretsStored'
    BY <1>a DEF WritersCurrent, SecretsStored
  <2>2. CASE "secrets" \in lost'
    BY <2>1, <2>2 DEF SecretsKept
  <2>3. CASE "secrets" \notin lost'
    <3>1. /\ file = "json" \/ \E t \in Threads : thr[t].pc = "writing"
          /\ \A c \in Conns : conns[c] # None /\ conns[c].secret => c \in secrets
      BY <1>a, <2>3 DEF SecretsKept
    <3>2. file' = "json" \/ \E t \in Threads : thr'[t].pc = "writing"
      BY <1>a, <2>3, <3>1
    <3> QED
      BY <1>a, <2>1, <3>1, <3>2 DEF SecretsKept
  <2> QED
    BY <2>2, <2>3
<1> HIDE DEF Goal
<1>1. CASE UNCHANGED vars
  BY <1>1, <1>a DEF vars, tables
<1>2. CASE Crash
  <2>1. \A u \in Threads : Frame(u)
    BY <1>2 DEF Crash, CutShort, Idle
  <2>2. UNCHANGED <<secrets, file, conns>> /\ lost \subseteq lost'
    BY <1>2 DEF Crash, CutShort, tables
  <2> QED
    BY <2>1, <2>2, <1>a
<1>3. ASSUME NEW t \in Threads,
             \/ CheckName(t) \/ InsertUser(t) \/ InsertRaises(t) \/ FindUser(t)
             \/ UpdateUser(t) \/ CheckConnection(t) \/ SaveMapping(t)
             \/ ReadOverrides(t) \/ ReadRaises(t)
      PROVE  Goal
  <2>1. UNCHANGED <<secrets, file, conns, lost>> /\ thr[t].pc # "writing"
    BY <1>3
    DEF CheckName, InsertUser, InsertRaises, FindUser, UpdateUser,
        CheckConnection, SaveMapping, ReadOverrides, ReadRaises, At, tables
  <2>2. \/ Release(t)
        \/ thr' = [thr EXCEPT ![t].pc = "checked"]
        \/ thr' = [ thr EXCEPT ![t].pc = "checked", ![t].current = TRUE,
                               ![t].copy = overrides[thr[t].req.scope] ]
    BY <1>3
    DEF CheckName, InsertUser, InsertRaises, FindUser, UpdateUser,
        CheckConnection, SaveMapping, ReadOverrides, ReadRaises
  <2>3. /\ thr'[t].pc \notin {"writing", "stored"}
        /\ \A u \in Threads : u # t => thr'[u] = thr[u]
    BY <2>2 DEF Release, Idle, TypeOK, Handler
  <2>4. \A u \in Threads : Frame(u)
    BY <2>1, <2>3
  <2> QED
    BY <2>1, <2>4, <1>a
<1>4. ASSUME NEW t \in Threads, Accept(t) PROVE Goal
  <2>1. /\ thr[t].pc = "idle" /\ thr'[t].pc = "accepted"
        /\ \A u \in Threads : u # t => thr'[u] = thr[u]
    BY <1>4 DEF Accept, TypeOK, Handler
  <2>2. \A u \in Threads : Frame(u)
    BY <2>1
  <2> QED
    BY <1>4, <2>2, <1>a DEF Accept, tables
<1>5. ASSUME NEW t \in Threads, WriteOverrides(t) PROVE Goal
  <2>1. ASSUME NEW u \in Threads PROVE Frame(u)
    <3>1. CASE u = t
      BY <1>5, <3>1 DEF WriteOverrides, Outdate, Idle, At
    <3>2. CASE u # t /\ thr'[u] = thr[u]
      BY <3>2
    <3>3. CASE /\ u # t
               /\ thr[u].pc \in {"checked", "writing"}
               /\ thr'[u] = [thr[u] EXCEPT !.current = FALSE]
      BY <3>3 DEF TypeOK, Handler
    <3> QED
      BY <1>5, <3>1, <3>2, <3>3 DEF WriteOverrides, Outdate
  <2>2. UNCHANGED <<secrets, file, conns>> /\ lost \subseteq lost'
    BY <1>5 DEF WriteOverrides, Outdate
  <2> QED
    BY <2>1, <2>2, <1>a
<1>6. ASSUME NEW t \in Threads, ReadSecrets(t) PROVE Goal
  <2>1. PICK c \in Conns : thr' = [ thr EXCEPT ![t] =
            IF thr[t].req.secret
            THEN [ @ EXCEPT !.pc = "checked", !.conn = c, !.current = TRUE,
                            !.kept = secrets ]
            ELSE [@ EXCEPT !.pc = "stored", !.conn = c] ]
    BY <1>6 DEF ReadSecrets
  <2>2. \A u \in Threads : u # t => thr'[u] = thr[u]
    BY <2>1 DEF TypeOK
  <2>3. thr[t].pc = "accepted" /\ UNCHANGED <<secrets, file, conns, lost>>
    BY <1>6 DEF ReadSecrets, At, tables
  <2>4. CASE thr[t].req.secret
    <3>1. thr'[t].pc = "checked"
      BY <2>1, <2>4 DEF TypeOK, Handler
    <3>2. \A u \in Threads : Frame(u)
      BY <2>2, <2>3, <3>1
    <3> QED
      BY <2>3, <3>2, <1>a
  <2>5. CASE ~thr[t].req.secret
    <3>1. thr'[t].pc = "stored" /\ ~thr'[t].req.secret
      BY <2>1, <2>5 DEF TypeOK, Handler
    <3>2. \A u \in Threads : Frame(u)
      BY <2>2, <2>3, <3>1
    <3> QED
      BY <2>3, <3>2, <1>a
  <2> QED
    BY <2>4, <2>5
<1>7. ASSUME NEW t \in Threads, OpenSecrets(t) PROVE Goal
  <2>1. /\ UNCHANGED <<secrets, conns, lost>>
        /\ file' = "empty"
        /\ thr'[t].pc = "writing"
        /\ \A u \in Threads : u # t => thr'[u] = thr[u]
    BY <1>7 DEF OpenSecrets, TypeOK, Handler
  <2> QED
    BY <2>1 DEF WritersCurrent, SecretsStored, SecretsKept, Goal
<1>8. ASSUME NEW t \in Threads, WriteSecrets(t) PROVE Goal
  <2>1. /\ UNCHANGED conns
        /\ secrets' = thr[t].kept \cup {thr[t].conn}
        /\ lost \subseteq lost'
        /\ ~thr[t].current => "secrets" \in lost'
        /\ thr[t].req.op = "create_connection"
        /\ thr[t].pc = "writing"
    BY <1>8 DEF WriteSecrets, Outdate, At
  <2>2. thr[t].current => secrets \subseteq secrets' /\ file' = "json"
    BY <1>8, <2>1 DEF WriteSecrets, Written, CopiesCurrent, WritersCurrent
  <2>3. thr'[t].pc = "stored" /\ thr'[t].conn = thr[t].conn
    BY <1>8 DEF WriteSecrets, Outdate, TypeOK, Handler
  <2>4. ASSUME NEW u \in Threads, u # t
        PROVE  /\ thr'[u].pc = "stored" => thr'[u] = thr[u]
               /\ thr'[u].pc = "writing" => ~thr'[u].current
    <3>1. CASE Target(thr[u].req) = "secrets" /\ thr[u].pc \in {"checked", "writing"}
      BY <1>8, <2>4, <3>1 DEF WriteSecrets, Outdate, TypeOK, Handler
    <3>2. CASE thr[u].pc \notin {"checked", "writing"}
      BY <1>8, <2>4, <3>2 DEF WriteSecrets, Outdate, TypeOK
    <3>3. CASE Target(thr[u].req) # "secrets" /\ thr[u].pc \in {"checked", "writing"}
      <4>1. thr'[u] = thr[u]
        BY <1>8, <2>4, <3>3 DEF WriteSecrets, Outdate, TypeOK
      <4>2. thr[u].pc # "writing"
        BY <3>3 DEF TypeOK, HandlerOK, Target
      <4> QED
        BY <3>3, <4>1, <4>2
    <3> QED
      BY <3>1, <3>2, <3>3
  <2>5. WritersCurrent'
    BY <2>3, <2>4 DEF WritersCurrent
  <2>6. SecretsStored'
    BY <2>1, <2>2, <2>3, <2>4 DEF SecretsStored
  <2>7. SecretsKept'
    BY <2>1, <2>2 DEF SecretsKept
  <2> QED
    BY <2>5, <2>6, <2>7 DEF Goal
<1>9. ASSUME NEW t \in Threads, InsertConnection(t) PROVE Goal
  <2>1. /\ UNCHANGED <<secrets, file, lost>>
        /\ thr[t].pc = "stored" /\ thr'[t].pc = "idle"
        /\ \A u \in Threads : u # t => thr'[u] = thr[u]
    BY <1>9 DEF InsertConnection, At, Release, Idle, TypeOK
  <2>2. /\ \A c \in Conns : c # thr[t].conn => conns'[c] = conns[c]
        /\ thr[t].conn \in Conns =>
             conns'[thr[t].conn].secret = thr[t].req.secret
    BY <1>9 DEF InsertConnection, TypeOK
  <2>3. file = "json" \/ "secrets" \in lost
          \/ \E u \in Threads : thr'[u].pc = "writing"
    BY <2>1 DEF SecretsKept
  <2>4. \A c \in Conns : conns'[c] # None /\ conns'[c].secret =>
          c \in secrets \/ "secrets" \in lost
    BY <2>1, <2>2 DEF SecretsStored, SecretsKept
  <2> QED
    BY <2>1, <2>3, <2>4 DEF WritersCurrent, SecretsStored, SecretsKept, Goal
<1>10. ASSUME NEW t \in Threads, Fail(t) PROVE Goal
  <2>1. /\ UNCHANGED <<secrets, file, conns>>
        /\ lost \subseteq lost'
        /\ thr[t].pc = "writing" => "secrets" \in lost'
        /\ thr'[t].pc = "idle"
        /\ \A u \in Threads : u # t => thr'[u] = thr[u]
    BY <1>10 DEF Fail, CutShort, Release, Idle, TypeOK, tables
  <2>2. \A u \in Threads : Frame(u)
    BY <2>1
  <2> QED
    BY <2>1, <2>2, <1>a
<1> QED
  BY <1>1, <1>2, <1>3, <1>4, <1>5, <1>6, <1>7, <1>8, <1>9, <1>10
  DEF Next, Handle

\* Nothing but an outdated copy, or a write cut short, loses a password a connection
\* needs.
THEOREM PasswordsAreKept == Spec => []SecretsKept
<1>1. Init => CopiesCurrent /\ WritersCurrent /\ SecretsStored /\ SecretsKept
  BY DEF Init, CopiesCurrent, WritersCurrent, SecretsStored, SecretsKept, Idle
<1> QED
  BY <1>1, InitType, NextType, NextCopies, NextSecrets, PTL DEF Spec

-----------------------------------------------------------------------------
(* Connections: an id is drawn once, and stays with its project. *)

LEMMA NextDrawn == TypeOK /\ DrawnFresh /\ [Next]_vars => DrawnFresh'
<1> SUFFICES ASSUME TypeOK, DrawnFresh, [Next]_vars PROVE DrawnFresh'
  OBVIOUS
<1>a. ASSUME UNCHANGED conns,
             \A u \in Threads : thr'[u].conn \in {thr[u].conn, None}
      PROVE  DrawnFresh'
  BY <1>a DEF DrawnFresh
<1>1. CASE UNCHANGED vars
  BY <1>1 DEF vars, tables, DrawnFresh
<1>2. CASE Crash
  BY <1>2, <1>a DEF Crash, tables, Idle
<1>3. ASSUME NEW t \in Threads,
             \/ CheckName(t) \/ InsertUser(t) \/ InsertRaises(t) \/ FindUser(t)
             \/ UpdateUser(t) \/ CheckConnection(t) \/ SaveMapping(t) \/ Fail(t)
             \/ ReadOverrides(t) \/ ReadRaises(t) \/ OpenSecrets(t)
      PROVE  DrawnFresh'
  <2>1. UNCHANGED conns
    BY <1>3
    DEF CheckName, InsertUser, InsertRaises, FindUser, UpdateUser,
        CheckConnection, SaveMapping, Fail, ReadOverrides, ReadRaises,
        OpenSecrets, tables
  <2>2. \/ Release(t)
        \/ thr' = [thr EXCEPT ![t].pc = "checked"]
        \/ thr' = [thr EXCEPT ![t].pc = "writing"]
        \/ thr' = [ thr EXCEPT ![t].pc = "checked", ![t].current = TRUE,
                               ![t].copy = overrides[thr[t].req.scope] ]
    BY <1>3
    DEF CheckName, InsertUser, InsertRaises, FindUser, UpdateUser,
        CheckConnection, SaveMapping, Fail, ReadOverrides, ReadRaises,
        OpenSecrets
  <2>3. \A u \in Threads : thr'[u].conn \in {thr[u].conn, None}
    BY <2>2 DEF Release, Idle, TypeOK, Handler
  <2> QED
    BY <2>1, <2>3, <1>a
<1>4. ASSUME NEW t \in Threads, Accept(t) PROVE DrawnFresh'
  <2>1. \A u \in Threads : thr'[u].conn = thr[u].conn
    BY <1>4 DEF Accept, TypeOK, Handler
  <2> QED
    BY <1>4, <2>1, <1>a DEF Accept, tables
<1>5. ASSUME NEW t \in Threads, WriteOverrides(t) \/ WriteSecrets(t)
      PROVE  DrawnFresh'
  <2>1. ASSUME NEW u \in Threads, u # t PROVE thr'[u].conn = thr[u].conn
    <3>1. thr[u] \in Handler
      BY DEF TypeOK
    <3>2. \/ thr'[u] = thr[u]
          \/ thr'[u] = [thr[u] EXCEPT !.current = FALSE]
      BY <1>5, <2>1 DEF WriteOverrides, WriteSecrets, Outdate
    <3> QED
      BY <3>1, <3>2 DEF Handler
  <2>2. thr'[t].conn \in {thr[t].conn, None}
    <3>1. thr[t] \in Handler
      BY DEF TypeOK
    <3>2. \/ thr'[t] = Idle
          \/ thr'[t] = [thr[t] EXCEPT !.pc = "stored", !.kept = {},
                                      !.current = FALSE]
      BY <1>5 DEF WriteOverrides, WriteSecrets, Outdate
    <3>3. CASE thr'[t] = Idle
      BY <3>3 DEF Idle
    <3>4. CASE thr'[t] # Idle
      BY <3>1, <3>2, <3>4 DEF Handler
    <3> QED
      BY <3>3, <3>4
  <2> QED
    BY <1>5, <2>1, <2>2, <1>a DEF WriteOverrides, WriteSecrets
<1>6. ASSUME NEW t \in Threads, ReadSecrets(t) PROVE DrawnFresh'
  <2>1. PICK c \in Conns :
          /\ conns[c] = None
          /\ \A u \in Threads : thr[u].conn # c
          /\ thr' = [ thr EXCEPT ![t] =
               IF thr[t].req.secret
               THEN [ @ EXCEPT !.pc = "checked", !.conn = c, !.current = TRUE,
                               !.kept = secrets ]
               ELSE [@ EXCEPT !.pc = "stored", !.conn = c] ]
    BY <1>6 DEF ReadSecrets
  <2>2. \A u \in Threads : u # t => thr'[u] = thr[u]
    BY <2>1 DEF TypeOK
  <2>3. thr'[t].conn = c
    <3> DEFINE h1 == [ thr[t] EXCEPT !.pc = "checked", !.conn = c,
                                     !.current = TRUE, !.kept = secrets ]
               h2 == [thr[t] EXCEPT !.pc = "stored", !.conn = c]
    <3>1. thr[t] \in Handler /\ thr'[t] \in {h1, h2}
      BY <2>1 DEF TypeOK
    <3>2. h1.conn = c /\ h2.conn = c
      BY <3>1 DEF Handler
    <3> QED
      BY <3>1, <3>2
  <2>4. UNCHANGED conns
    BY <1>6 DEF ReadSecrets, tables
  <2> QED
    BY <2>1, <2>2, <2>3, <2>4 DEF DrawnFresh
<1>7. ASSUME NEW t \in Threads, InsertConnection(t) PROVE DrawnFresh'
  <2>1. /\ thr'[t].conn = None
        /\ \A u \in Threads : u # t => thr'[u] = thr[u]
        /\ \A c \in Conns : c # thr[t].conn => conns'[c] = conns[c]
    BY <1>7 DEF InsertConnection, Release, Idle, TypeOK
  <2>2. \A u \in Threads : thr[u].conn \in Conns \cup {None}
    BY DEF TypeOK, Handler
  <2>3. thr[t].conn # None
    BY <1>7, AdministrationAssumption
    DEF AdministrationAssumption, InsertConnection, At, TypeOK, HandlerOK
  <2> QED
    BY <2>1, <2>2, <2>3 DEF DrawnFresh
<1> QED
  BY <1>1, <1>2, <1>3, <1>4, <1>5, <1>6, <1>7 DEF Next, Handle

\* What is left alone keeps the checked connections checked: c is what t inserts.
LEMMA NextChecked ==
  TypeOK /\ DrawnFresh /\ ConnectionsChecked /\ [Next]_vars => ConnectionsChecked'
<1> SUFFICES ASSUME TypeOK, DrawnFresh, ConnectionsChecked, [Next]_vars
             PROVE  ConnectionsChecked'
  OBVIOUS
<1>a. ASSUME UNCHANGED conns,
             \A u \in Threads : At(u, "checked", "save_mapping")' =>
               At(u, "checked", "save_mapping") /\ thr'[u].req = thr[u].req
      PROVE  ConnectionsChecked'
  BY <1>a DEF ConnectionsChecked
<1>1. CASE UNCHANGED vars
  BY <1>1 DEF vars, tables, ConnectionsChecked, At
<1>2. CASE Crash
  BY <1>2, <1>a DEF Crash, tables, Idle, At
<1>3. ASSUME NEW t \in Threads,
             \/ CheckName(t) \/ InsertUser(t) \/ InsertRaises(t) \/ FindUser(t)
             \/ UpdateUser(t) \/ SaveMapping(t) \/ Fail(t)
             \/ ReadOverrides(t) \/ ReadRaises(t) \/ OpenSecrets(t)
      PROVE  ConnectionsChecked'
  <2>1. UNCHANGED conns
    BY <1>3
    DEF CheckName, InsertUser, InsertRaises, FindUser, UpdateUser,
        SaveMapping, Fail, ReadOverrides, ReadRaises,
        OpenSecrets, tables
  <2>2. \/ Release(t)
        \/ /\ thr[t].req.op # "save_mapping"
           /\ \/ thr' = [thr EXCEPT ![t].pc = "checked"]
              \/ thr' = [thr EXCEPT ![t].pc = "writing"]
              \/ thr' = [ thr EXCEPT ![t].pc = "checked", ![t].current = TRUE,
                                     ![t].copy = overrides[thr[t].req.scope] ]
    BY <1>3
    DEF CheckName, InsertUser, InsertRaises, FindUser, UpdateUser,
        SaveMapping, Fail, ReadOverrides, ReadRaises,
        OpenSecrets, At
  <2>3. ~At(t, "checked", "save_mapping")'
    BY <2>2 DEF Release, Idle, TypeOK, Handler, At
  <2>4. \A u \in Threads : u # t => thr'[u] = thr[u]
    BY <2>2 DEF Release, TypeOK
  <2> QED
    BY <2>1, <2>3, <2>4, <1>a DEF At
<1>4. ASSUME NEW t \in Threads, Accept(t) PROVE ConnectionsChecked'
  <2>1. thr'[t].pc # "checked" /\ \A u \in Threads : u # t => thr'[u] = thr[u]
    BY <1>4 DEF Accept, TypeOK, Handler
  <2> QED
    BY <1>4, <2>1, <1>a DEF Accept, tables, At
<1>5. ASSUME NEW t \in Threads, WriteOverrides(t) \/ WriteSecrets(t)
      PROVE  ConnectionsChecked'
  <2>1. ASSUME NEW u \in Threads, thr'[u].pc = "checked"
        PROVE  thr[u].pc = "checked" /\ thr'[u].req = thr[u].req
    <3>1. thr[u] \in Handler
      BY DEF TypeOK
    <3>2. u # t
      <4>1. \/ thr'[t] = Idle
            \/ thr'[t] = [thr[t] EXCEPT !.pc = "stored", !.kept = {},
                                        !.current = FALSE]
        BY <1>5 DEF WriteOverrides, WriteSecrets, Outdate
      <4>2. CASE thr'[t] = Idle
        BY <2>1, <4>2 DEF Idle
      <4>3. CASE thr'[t] # Idle
        BY <2>1, <4>1, <4>3 DEF TypeOK, Handler
      <4> QED
        BY <4>2, <4>3
    <3>3. \/ thr'[u] = thr[u]
          \/ thr'[u] = [thr[u] EXCEPT !.current = FALSE]
      BY <1>5, <3>2 DEF WriteOverrides, WriteSecrets, Outdate
    <3> QED
      BY <2>1, <3>1, <3>3 DEF Handler
  <2> QED
    BY <1>5, <2>1, <1>a DEF WriteOverrides, WriteSecrets, At
<1>6. ASSUME NEW t \in Threads, ReadSecrets(t) PROVE ConnectionsChecked'
  <2>1. /\ UNCHANGED conns
        /\ thr[t].req.op = "create_connection"
        /\ \A u \in Threads : u # t => thr'[u] = thr[u]
    BY <1>6 DEF ReadSecrets, At, tables, TypeOK
  <2>2. thr'[t].req = thr[t].req
    <3>1. PICK c \in Conns : thr' = [ thr EXCEPT ![t] =
              IF thr[t].req.secret
              THEN [ @ EXCEPT !.pc = "checked", !.conn = c, !.current = TRUE,
                              !.kept = secrets ]
              ELSE [@ EXCEPT !.pc = "stored", !.conn = c] ]
      BY <1>6 DEF ReadSecrets
    <3> QED
      BY <3>1 DEF TypeOK, Handler
  <2> QED
    BY <2>1, <2>2, <1>a DEF At
<1>7. ASSUME NEW t \in Threads, CheckConnection(t) PROVE ConnectionsChecked'
  <2> DEFINE q == thr[t].req
  <2>1. UNCHANGED conns /\ \A u \in Threads : u # t => thr'[u] = thr[u]
    BY <1>7 DEF CheckConnection, Release, tables, TypeOK
  <2>2. CASE conns[q.conn] # None /\ conns[q.conn].project = q.project
    <3>1. thr'[t].req = thr[t].req
      BY <1>7, <2>2 DEF CheckConnection, TypeOK, Handler
    <3> QED
      BY <2>1, <2>2, <3>1 DEF ConnectionsChecked, At
  <2>3. CASE ~(conns[q.conn] # None /\ conns[q.conn].project = q.project)
    <3>1. thr'[t].pc # "checked"
      BY <1>7, <2>3 DEF CheckConnection, Release, Idle, TypeOK
    <3> QED
      BY <2>1, <3>1 DEF ConnectionsChecked, At
  <2> QED
    BY <2>2, <2>3
<1>8. ASSUME NEW t \in Threads, InsertConnection(t) PROVE ConnectionsChecked'
  <2>1. /\ thr'[t].pc = "idle"
        /\ \A u \in Threads : u # t => thr'[u] = thr[u]
        /\ \A c \in Conns : c # thr[t].conn => conns'[c] = conns[c]
    BY <1>8 DEF InsertConnection, Release, Idle, TypeOK
  <2>2. conns[thr[t].conn] = None
    BY <1>8, AdministrationAssumption
    DEF AdministrationAssumption, InsertConnection, At, TypeOK, HandlerOK,
        DrawnFresh
  <2>3. ASSUME NEW u \in Threads, At(u, "checked", "save_mapping")
        PROVE  thr[u].req.conn \in Conns
    BY <2>3, RequestFields DEF At, TypeOK, HandlerOK
  <2> QED
    BY <2>1, <2>2, <2>3 DEF ConnectionsChecked, At
<1> QED
  BY <1>1, <1>2, <1>3, <1>4, <1>5, <1>6, <1>7, <1>8 DEF Next, Handle

LEMMA NextMapping ==
  TypeOK /\ DrawnFresh /\ ConnectionsChecked /\ MappingUsable /\ [Next]_vars
    => MappingUsable'
<1> SUFFICES ASSUME TypeOK, DrawnFresh, ConnectionsChecked, MappingUsable,
                    [Next]_vars
             PROVE  MappingUsable'
  OBVIOUS
<1>1. CASE UNCHANGED <<mapping, conns>>
  BY <1>1 DEF MappingUsable
<1>2. ASSUME NEW t \in Threads, InsertConnection(t) PROVE MappingUsable'
  <2>1. /\ UNCHANGED mapping
        /\ \A c \in Conns : c # thr[t].conn => conns'[c] = conns[c]
    BY <1>2 DEF InsertConnection, TypeOK
  <2>2. conns[thr[t].conn] = None
    BY <1>2, AdministrationAssumption
    DEF AdministrationAssumption, InsertConnection, At, TypeOK, HandlerOK,
        DrawnFresh
  <2> QED
    BY <2>1, <2>2 DEF MappingUsable, TypeOK
<1>3. ASSUME NEW t \in Threads, SaveMapping(t) PROVE MappingUsable'
  BY <1>3 DEF SaveMapping, MappingUsable, ConnectionsChecked, TypeOK, At
<1> QED
  BY <1>1, <1>2, <1>3
  DEF Next, Crash, Handle, Accept, CheckName, InsertUser, InsertRaises, FindUser,
      UpdateUser, ReadOverrides, WriteOverrides, ReadSecrets, ReadRaises, OpenSecrets,
      WriteSecrets, CheckConnection, Fail, vars, tables

\* The mapping of a project stays on a connection of that project.
THEOREM MappingsAreUsable == Spec => []MappingUsable
<1>1. Init => DrawnFresh /\ ConnectionsChecked /\ MappingUsable
  BY DEF Init, DrawnFresh, ConnectionsChecked, MappingUsable, At, Idle
<1> QED
  BY <1>1, InitType, NextType, NextDrawn, NextChecked, NextMapping, PTL DEF Spec
=============================================================================
