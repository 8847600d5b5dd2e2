----------------------------- MODULE ServerProofs -----------------------------
(***************************************************************************)
(* Theorems of the parts beside the service that keep state: Sessions, for *)
(* any number of processes, users, roles, starts and changes, Archives,    *)
(* for any number of commands, changes and damages, Webhooks, for any      *)
(* subscribers, events and failures, and RecLifecycle, for any users and   *)
(* recommendations.                                                        *)
(***************************************************************************)
EXTENDS Sessions, Archives, Webhooks, RecLifecycle, RecommendationProofs,
        FunctionTheorems, FiniteSetTheorems, TLAPS

Starts == {"down", "found", "missing", "emptied", "up"}

\* The secret of the store will not change any more: it is in the file, and
\* nobody is about to write another.
Settled ==
  /\ secretFile # Absent
  /\ \A q \in Processes : proc[q] \notin {"missing", "emptied"}

(***************************************************************************)
(* The inductive invariant.  The secret of a process that started alone,   *)
(* and of a token it gave, is the one in the file for good; this holds     *)
(* because whoever starts later finds the file, and because two that start *)
(* at a time are both marked.                                              *)
(***************************************************************************)
StateOK ==
  /\ proc \in [Processes -> Starts]
  /\ DOMAIN secret = Processes
  /\ secretFile \in Nat
  /\ made \in Nat
  /\ made >= Empty

FileFound == \A p \in Processes : proc[p] = "found" => secretFile # Absent

AloneOrMarked ==
  \A p \in Processes :
    proc[p] \in Starting /\ p \notin raced => OthersStarting(p) = {}

UpIsSettled ==
  \A p \in Processes :
    proc[p] = "up" /\ p \notin raced => Settled /\ secret[p] = secretFile

FirmIsSettled ==
  \A t \in token : t.firm => Settled /\ t.key = secretFile

SessionInv ==
  /\ StateOK
  /\ FileFound
  /\ AloneOrMarked
  /\ UpIsSettled
  /\ FirmIsSettled
  /\ SessionsHold

-----------------------------------------------------------------------------
LEMMA SessionInvInit == SessionInit => SessionInv
  BY DEF SessionInit, SessionInv, StateOK, Starts, FileFound, AloneOrMarked,
         UpIsSettled, FirmIsSettled, SessionsHold, Absent, Empty, Starting

\* Where nobody is about to write, a start finds the file, and the secret stays.
LEMMA LookForFileKeeps ==
  ASSUME SessionInv, NEW p \in Processes, LookForFile(p)
  PROVE  SessionInv'
<1> USE DEF LookForFile
<1>1. StateOK'
  BY DEF SessionInv, StateOK, Starts
<1>2. FileFound'
  BY DEF SessionInv, StateOK, FileFound
<1>3. AloneOrMarked'
  <2> SUFFICES ASSUME NEW q \in Processes, proc'[q] \in Starting, q \notin raced'
               PROVE  OthersStarting(q)' = {}
    BY DEF AloneOrMarked
  <2>1. OthersStarting(p) = {}
    <3> SUFFICES ASSUME OthersStarting(p) # {} PROVE FALSE
      OBVIOUS
    <3>1. raced' = raced \cup OthersStarting(p) \cup {p}
      OBVIOUS
    <3>2. q # p /\ q \notin OthersStarting(p)
      BY <3>1
    <3>3. proc'[q] = proc[q]
      BY <3>2 DEF SessionInv, StateOK
    <3> QED
      BY <3>2, <3>3 DEF OthersStarting
  <2>2. \A u \in Processes \ {p} : proc'[u] = proc[u] /\ proc[u] \notin Starting
    BY <2>1 DEF OthersStarting, SessionInv, StateOK
  <2>3. q = p
    BY <2>2
  <2> QED
    BY <2>2, <2>3 DEF OthersStarting
<1>4. Settled => Settled'
  BY DEF Settled, SessionInv, StateOK
<1>5. \A u \in Processes : u \notin raced' /\ proc'[u] = "up"
                             => u \notin raced /\ proc[u] = "up"
  BY DEF SessionInv, StateOK
<1>6. UpIsSettled'
  BY <1>4, <1>5 DEF SessionInv, UpIsSettled
<1>7. FirmIsSettled'
  BY <1>4 DEF SessionInv, FirmIsSettled
<1>8. SessionsHold'
  BY DEF SessionsHold
<1> QED
  BY <1>1, <1>2, <1>3, <1>6, <1>7, <1>8 DEF SessionInv

\* A step of a start that one process makes alone leaves none about to write.
LEMMA AloneSettles ==
  ASSUME SessionInv, NEW p \in Processes, proc[p] \in Starting, p \notin raced,
         proc' = [proc EXCEPT ![p] = "up"], secretFile' # Absent
  PROVE  Settled'
<1>1. \A q \in Processes \ {p} : proc[q] \notin Starting
  BY DEF SessionInv, AloneOrMarked, OthersStarting
<1> QED
  BY <1>1 DEF SessionInv, StateOK, Settled, Starting

\* A process that goes on with its start, or ends, starts no other.
LEMMA StartGoesOn ==
  ASSUME SessionInv, NEW p \in Processes, NEW x \in Starts,
         proc' = [proc EXCEPT ![p] = x], raced' = raced,
         x \in Starting => proc[p] \in Starting
  PROVE  AloneOrMarked'
<1> SUFFICES ASSUME NEW q \in Processes, proc'[q] \in Starting, q \notin raced',
                    NEW u \in Processes \ {q}, proc'[u] \in Starting
             PROVE  FALSE
  BY DEF AloneOrMarked, OthersStarting
<1>1. proc[q] \in Starting /\ proc[u] \in Starting
  BY DEF SessionInv, StateOK
<1> QED
  BY <1>1 DEF SessionInv, AloneOrMarked, OthersStarting

LEMMA ReadSecretKeeps ==
  ASSUME SessionInv, NEW p \in Processes, ReadSecret(p)
  PROVE  SessionInv'
<1> USE DEF ReadSecret
<1>1. StateOK'
  BY DEF SessionInv, StateOK, Starts
<1>2. FileFound'
  BY DEF SessionInv, StateOK, FileFound
<1>3. AloneOrMarked'
  BY StartGoesOn DEF Starts, Starting
<1>4. Settled => Settled'
  BY DEF Settled, SessionInv, StateOK
<1>5. UpIsSettled'
  <2> SUFFICES ASSUME NEW q \in Processes, proc'[q] = "up", q \notin raced'
               PROVE  Settled' /\ secret'[q] = secretFile'
    BY DEF UpIsSettled
  <2>1. CASE q = p
    <3>1. Settled'
      BY <2>1, AloneSettles DEF SessionInv, FileFound, Starting
    <3> QED
      BY <2>1, <3>1 DEF SessionInv, StateOK
  <2>2. CASE q # p
    BY <2>2, <1>4 DEF SessionInv, StateOK, UpIsSettled
  <2> QED
    BY <2>1, <2>2
<1>6. FirmIsSettled'
  BY <1>4 DEF SessionInv, FirmIsSettled
<1>7. SessionsHold'
  BY DEF SessionsHold
<1> QED
  BY <1>1, <1>2, <1>3, <1>5, <1>6, <1>7 DEF SessionInv

\* Who is about to write is one for whom nothing was settled.
LEMMA EmptyFileKeeps ==
  ASSUME SessionInv, NEW p \in Processes, EmptyFile(p)
  PROVE  SessionInv'
<1> USE DEF EmptyFile
<1>1. StateOK'
  BY DEF SessionInv, StateOK, Starts, Empty
<1>2. FileFound'
  BY DEF FileFound, Absent, Empty
<1>3. AloneOrMarked'
  BY StartGoesOn DEF Starts, Starting
<1>4. ~Settled
  BY DEF Settled
<1>5. UpIsSettled'
  BY <1>4 DEF SessionInv, StateOK, UpIsSettled
<1>6. FirmIsSettled'
  BY <1>4 DEF SessionInv, FirmIsSettled
<1>7. SessionsHold'
  BY DEF SessionsHold
<1> QED
  BY <1>1, <1>2, <1>3, <1>5, <1>6, <1>7 DEF SessionInv

LEMMA WriteSecretKeeps ==
  ASSUME SessionInv, NEW p \in Processes, WriteSecret(p)
  PROVE  SessionInv'
<1> USE DEF WriteSecret
<1>0. made + 1 \in Nat /\ made + 1 # Absent /\ made + 1 >= Empty
  BY DEF SessionInv, StateOK, Absent, Empty
<1>1. StateOK'
  BY <1>0 DEF SessionInv, StateOK, Starts
<1>2. FileFound'
  BY <1>0 DEF FileFound
<1>3. AloneOrMarked'
  BY StartGoesOn DEF Starts, Starting
<1>4. ~Settled
  BY DEF Settled
<1>5. UpIsSettled'
  <2> SUFFICES ASSUME NEW q \in Processes, proc'[q] = "up", q \notin raced'
               PROVE  Settled' /\ secret'[q] = secretFile'
    BY DEF UpIsSettled
  <2>1. CASE q = p
    <3>1. Settled'
      BY <2>1, <1>0, AloneSettles DEF Starting
    <3> QED
      BY <2>1, <3>1 DEF SessionInv, StateOK
  <2>2. CASE q # p
    BY <2>2, <1>4 DEF SessionInv, StateOK, UpIsSettled
  <2> QED
    BY <2>1, <2>2
<1>6. FirmIsSettled'
  BY <1>4 DEF SessionInv, FirmIsSettled
<1>7. SessionsHold'
  BY DEF SessionsHold
<1> QED
  BY <1>1, <1>2, <1>3, <1>5, <1>6, <1>7 DEF SessionInv

LEMMA StopProcessKeeps ==
  ASSUME SessionInv, NEW p \in Processes, StopProcess(p)
  PROVE  SessionInv'
<1> USE DEF StopProcess
<1>1. StateOK'
  BY DEF SessionInv, StateOK, Starts
<1>2. FileFound'
  BY DEF SessionInv, StateOK, FileFound
<1>3. AloneOrMarked'
  BY StartGoesOn DEF Starts, Starting
<1>4. Settled => Settled'
  BY DEF Settled, SessionInv, StateOK
<1>5. UpIsSettled'
  BY <1>4 DEF SessionInv, StateOK, UpIsSettled
<1>6. FirmIsSettled'
  BY <1>4 DEF SessionInv, FirmIsSettled
<1>7. SessionsHold'
  BY DEF SessionsHold
<1> QED
  BY <1>1, <1>2, <1>3, <1>5, <1>6, <1>7 DEF SessionInv

-----------------------------------------------------------------------------
\* Nothing that the secrets depend on changes.
LEMMA SecretsStay ==
  ASSUME SessionInv,
         UNCHANGED <<secretFile, proc, secret, made, raced>>
  PROVE  /\ StateOK' /\ FileFound' /\ AloneOrMarked' /\ UpIsSettled'
         /\ Settled' = Settled
  BY DEF SessionInv, StateOK, FileFound, AloneOrMarked, OthersStarting,
         UpIsSettled, Settled

LEMMA LoginKeeps ==
  ASSUME SessionInv, NEW p \in Processes, NEW u \in People, Login(p, u)
  PROVE  SessionInv'
<1>1. /\ StateOK' /\ FileFound' /\ AloneOrMarked' /\ UpIsSettled'
      /\ Settled' = Settled
  BY SecretsStay DEF Login
<1>2. FirmIsSettled'
  <2> DEFINE new == [user |-> u, roles |-> account[u].roles,
                     key |-> secret[p], firm |-> p \notin raced]
  <2> SUFFICES ASSUME NEW t \in token', t.firm
               PROVE  Settled' /\ t.key = secretFile'
    BY DEF FirmIsSettled
  <2>1. secretFile' = secretFile /\ (t \in token \/ t = new)
    BY DEF Login
  <2>2. CASE t \in token
    BY <1>1, <2>1, <2>2 DEF SessionInv, FirmIsSettled
  <2>3. CASE t = new
    <3>1. p \notin raced /\ t.key = secret[p]
      BY <2>3
    <3> QED
      BY <1>1, <2>1, <3>1 DEF Login, SessionInv, UpIsSettled
  <2> QED
    BY <2>1, <2>2, <2>3
<1>3. SessionsHold'
  BY DEF Login, SessionsHold
<1> QED
  BY <1>1, <1>2, <1>3 DEF SessionInv

\* The answer follows from the token's secret and the user's row.
LEMMA AskKeeps ==
  ASSUME SessionInv, NEW p \in Processes, NEW t \in token, NEW role \in Posts,
         Ask(p, t, role)
  PROVE  SessionInv'
<1> DEFINE a == account[t.user]
<1>1. /\ StateOK' /\ FileFound' /\ AloneOrMarked' /\ UpIsSettled'
      /\ Settled' = Settled
  BY SecretsStay DEF Ask
<1>2. FirmIsSettled'
  BY <1>1 DEF Ask, SessionInv, FirmIsSettled
<1>3. /\ answer'.code = ResolvePrincipal(p, t, role)
      /\ answer'.by = p /\ answer'.of = t /\ answer'.role = role
      /\ account' = account /\ raced' = raced
  BY DEF Ask
<1>4. ResolvePrincipal(p, t, role) = Accepted
        => a.active /\ MayActAs(a.roles, role)
  BY DEF ResolvePrincipal, Accepted
<1>5. ResolvePrincipal(p, t, role) = "401" => t.key # secret[p]
  BY DEF ResolvePrincipal, Accepted
<1>6. t.firm /\ p \notin raced => t.key = secret[p]
  BY DEF Ask, SessionInv, UpIsSettled, FirmIsSettled
<1>7. SessionsHold'
  BY <1>3, <1>4, <1>5, <1>6 DEF SessionsHold, MayActAs
<1> QED
  BY <1>1, <1>2, <1>7 DEF SessionInv

LEMMA ChangeUserKeeps ==
  ASSUME SessionInv, NEW u \in People, NEW active, NEW roles,
         ChangeUser(u, active, roles)
  PROVE  SessionInv'
<1>1. /\ StateOK' /\ FileFound' /\ AloneOrMarked' /\ UpIsSettled'
      /\ Settled' = Settled
  BY SecretsStay DEF ChangeUser
<1>2. FirmIsSettled'
  BY <1>1 DEF ChangeUser, SessionInv, FirmIsSettled
<1>3. SessionsHold'
  BY DEF ChangeUser, SessionsHold
<1> QED
  BY <1>1, <1>2, <1>3 DEF SessionInv

LEMMA SessionInvStep == SessionInv /\ [SessionNext]_sessionVars => SessionInv'
<1> SUFFICES ASSUME SessionInv, [SessionNext]_sessionVars PROVE SessionInv'
  OBVIOUS
<1>1. ASSUME NEW p \in Processes, LookForFile(p) PROVE SessionInv'
  BY <1>1, LookForFileKeeps
<1>2. ASSUME NEW p \in Processes, ReadSecret(p) PROVE SessionInv'
  BY <1>2, ReadSecretKeeps
<1>3. ASSUME NEW p \in Processes, EmptyFile(p) PROVE SessionInv'
  BY <1>3, EmptyFileKeeps
<1>4. ASSUME NEW p \in Processes, WriteSecret(p) PROVE SessionInv'
  BY <1>4, WriteSecretKeeps
<1>5. ASSUME NEW p \in Processes, StopProcess(p) PROVE SessionInv'
  BY <1>5, StopProcessKeeps
<1>6. ASSUME NEW p \in Processes, NEW u \in People, Login(p, u)
      PROVE  SessionInv'
  BY <1>6, LoginKeeps
<1>7. ASSUME NEW p \in Processes, NEW t \in token, NEW role \in Posts,
             Ask(p, t, role)
      PROVE  SessionInv'
  BY <1>7, AskKeeps
<1>8. ASSUME NEW u \in People, NEW active \in BOOLEAN, NEW roles \in SUBSET Posts,
             ChangeUser(u, active, roles)
      PROVE  SessionInv'
  BY <1>8, ChangeUserKeeps
<1>9. CASE UNCHANGED sessionVars
  <2>1. /\ StateOK' /\ FileFound' /\ AloneOrMarked' /\ UpIsSettled'
        /\ Settled' = Settled
    BY <1>9, SecretsStay DEF sessionVars
  <2> QED
    BY <1>9, <2>1 DEF sessionVars, SessionInv, FirmIsSettled, SessionsHold
<1> QED
  BY <1>1, <1>2, <1>3, <1>4, <1>5, <1>6, <1>7, <1>8, <1>9 DEF SessionNext

(***************************************************************************)
(* However many processes start, die and start again over one store, a     *)
(* request is accepted only of an active user with the role, and a token   *)
(* is refused as another store's only after starts that overlapped         *)
(* (auth.py, 188-245).                                                     *)
(***************************************************************************)
THEOREM SessionsAreHeld == SessionSpec => []SessionsHold
<1>1. SessionInv => SessionsHold
  BY DEF SessionInv
<1> QED
  BY <1>1, SessionInvInit, SessionInvStep, PTL DEF SessionSpec

-----------------------------------------------------------------------------
(***************************************************************************)
(* Archives.  A manifest in a store is that of an older archive, and a     *)
(* dump comes into a store only after a manifest.                          *)
(***************************************************************************)
Manifest == "manifest.json"

StoreOK ==
  /\ onServer \in BOOLEAN
  /\ server \in Nat
  /\ commands \in Nat
  /\ \A n \in DOMAIN store : store[n] \in Nat
  /\ ~onServer => /\ "store.sqlite" \in DOMAIN store
                  /\ "store.pgdump" \notin DOMAIN store
  /\ "store.pgdump" \in DOMAIN store => Manifest \in DOMAIN store
  /\ Manifest \in DOMAIN store => store[Manifest] <= commands

\* What an archive is: its digests are those of a stage, and only damage makes a
\* file differ from its digest - or the manifest, when one was staged.
ArchiveOK(a) ==
  /\ a.number \in Nat /\ a.number <= commands
  /\ DOMAIN a.files = DOMAIN a.digests \cup {Manifest}
  /\ \A n \in DOMAIN a.digests : a.digests[n] \in Nat
  /\ a.files[Manifest] = a.number
  /\ a.restored <=> Manifest \in DOMAIN a.digests
  /\ a.restored => a.digests[Manifest] < a.number
  /\ a.intact => \A n \in DOMAIN a.digests \ {Manifest} :
                   a.files[n] = a.digests[n]
  /\ ~a.intact => \E n \in DOMAIN a.digests : a.files[n] # a.digests[n]
  /\ Metafile \in DOMAIN a.digests
  /\ ~a.restored => a.digests[Metafile] = a.made
  /\ ~onServer => "store.pgdump" \notin DOMAIN a.digests
  /\ "secrets.json" \in DOMAIN a.digests => a.secrets

ArchivesOK ==
  /\ archives = [k \in 1 .. Len(archives) |-> archives[k]]
  /\ Len(archives) \in Nat
  /\ \A k \in 1 .. Len(archives) : ArchiveOK(archives[k])

OutcomeSound ==
  outcome.command = "restore" =>
    IF outcome.ok
    THEN /\ Metadata = outcome.archive.made
         /\ \A n \in DOMAIN outcome.archive.files :
              store[n] = outcome.archive.files[n]
    ELSE /\ server = outcome.server
         /\ onServer \/ store = outcome.before

NewestKept ==
  latest # 0 => archives # <<>> /\ Last(archives).number = latest

ArchivesInv == StoreOK /\ ArchivesOK /\ OutcomeSound /\ NewestKept

\* An archive verifies as long as it is intact, unless a manifest was staged.
LEMMA IntactUnlessRestored ==
  ASSUME NEW a, ArchiveOK(a)
  PROVE  Verifies(a) <=> a.intact /\ ~a.restored
<1>1. ASSUME Verifies(a) PROVE a.intact /\ ~a.restored
  BY <1>1 DEF ArchiveOK, Verifies
<1>2. ASSUME a.intact, ~a.restored PROVE Verifies(a)
  BY <1>2 DEF ArchiveOK, Verifies
<1> QED
  BY <1>1, <1>2 DEF ArchiveOK

LEMMA ArchivesInvImplies == ArchivesInv => RestoreSound
<1> SUFFICES ASSUME ArchivesInv PROVE RestoreSound
  OBVIOUS
<1>1. DOMAIN archives = 1 .. Len(archives)
  BY DEF ArchivesInv, ArchivesOK
<1>2. ASSUME NEW k \in DOMAIN archives
      PROVE  /\ Verifies(archives[k]) <=> archives[k].intact /\ ~archives[k].restored
             /\ "secrets.json" \in DOMAIN archives[k].files => archives[k].secrets
  <2>1. ArchiveOK(archives[k])
    BY <1>1 DEF ArchivesInv, ArchivesOK
  <2> QED
    BY <2>1, IntactUnlessRestored DEF ArchiveOK, Manifest
<1> QED
  BY <1>2 DEF ArchivesInv, OutcomeSound, NewestKept, RestoreSound

LEMMA ArchivesInvInit == ArchivesInit => ArchivesInv
<1> SUFFICES ASSUME ArchivesInit PROVE ArchivesInv
  OBVIOUS
<1>1. StoreOK
  BY DEF ArchivesInit, StoreOK, Manifest
<1>2. ArchivesOK
  BY DEF ArchivesInit, ArchivesOK
<1>3. OutcomeSound /\ NewestKept
  BY DEF ArchivesInit, OutcomeSound, NewestKept, Silent
<1> QED
  BY <1>1, <1>2, <1>3 DEF ArchivesInv

\* What is said of an archive depends on the bound of its number only.
LEMMA ArchiveStaysOK ==
  ASSUME NEW a, StoreOK, ArchiveOK(a), onServer' = onServer, commands' \in Nat,
         commands' >= commands
  PROVE  ArchiveOK(a)'
  BY DEF StoreOK, ArchiveOK, Metafile

LEMMA ArchivesStayOK ==
  ASSUME ArchivesInv, UNCHANGED <<onServer, archives, latest>>,
         commands' \in Nat, commands' >= commands
  PROVE  ArchivesOK' /\ NewestKept'
  BY ArchiveStaysOK DEF ArchivesInv, ArchivesOK, NewestKept

LEMMA ChangeMetadataKeeps ==
  ASSUME ArchivesInv, ChangeMetadata
  PROVE  ArchivesInv'
<1>1. ArchivesOK' /\ NewestKept'
  BY ArchivesStayOK DEF ChangeMetadata, ArchivesInv, StoreOK
<1>2. StoreOK'
  BY DEF ChangeMetadata, ArchivesInv, StoreOK, Manifest
<1>3. OutcomeSound'
  BY DEF ChangeMetadata, OutcomeSound, Silent
<1> QED
  BY <1>1, <1>2, <1>3 DEF ArchivesInv

\* The archive that is made now.
LEMMA NewArchiveOK ==
  ASSUME StoreOK, NEW withSecrets \in BOOLEAN, onServer' = onServer,
         commands' = commands + 1, NEW a,
         a = ArchiveOf(commands + 1, withSecrets)
  PROVE  ArchiveOK(a)' /\ a.number = commands + 1
<1> DEFINE left == {"store.sqlite"} \cup (IF withSecrets THEN {} ELSE {"secrets.json"})
           stage == Staged(withSecrets)
<1>1. /\ DOMAIN stage = (DOMAIN store \ left) \cup {Metafile}
      /\ \A n \in DOMAIN store \ left : stage[n] = store[n]
      /\ Metafile \notin DOMAIN store \ left => stage[Metafile] = Metadata
  BY DEF Staged, Over, AllBut, OneFile
<1>2. /\ a.number = commands + 1 /\ a.digests = stage /\ a.made = Metadata
      /\ a.secrets = withSecrets /\ a.intact = TRUE
      /\ a.restored = (Manifest \in DOMAIN store)
      /\ DOMAIN a.files = {Manifest} \cup DOMAIN stage
      /\ a.files[Manifest] = commands + 1
      /\ \A n \in DOMAIN stage \ {Manifest} : a.files[n] = stage[n]
  BY DEF ArchiveOf, Over, OneFile, Manifest
<1>3. Metafile \in {"store.pgdump", "store.sqlite"} /\ Metadata \in Nat
  BY DEF StoreOK, Metafile, Metadata
<1>4. \A n \in DOMAIN stage : stage[n] \in Nat
  BY <1>1, <1>3 DEF StoreOK
<1>5. /\ Manifest \in DOMAIN stage <=> Manifest \in DOMAIN store
      /\ Manifest \in DOMAIN store => stage[Manifest] <= commands
  BY <1>1, <1>3 DEF StoreOK, Manifest
<1>6. Manifest \notin DOMAIN store => stage[Metafile] = Metadata
  BY <1>1 DEF StoreOK, Metafile
<1>7. ~onServer => "store.pgdump" \notin DOMAIN stage
  BY <1>1 DEF StoreOK, Metafile
<1>8. "secrets.json" \in DOMAIN stage => withSecrets
  BY <1>1, <1>3
<1>9. commands \in Nat
  BY DEF StoreOK
<1>10. Metafile' = Metafile
  BY DEF Metafile
<1> HIDE DEF stage, left
<1>11. a.number \in Nat /\ a.number <= commands'
  BY <1>2, <1>9
<1>12. a.restored <=> Manifest \in DOMAIN store
  BY Zenon DEF ArchiveOf, Manifest
<1>13. /\ DOMAIN a.files = DOMAIN a.digests \cup {Manifest}
       /\ \A n \in DOMAIN a.digests : a.digests[n] \in Nat
       /\ a.files[Manifest] = a.number
  BY <1>2, <1>4
<1>14. /\ a.restored <=> Manifest \in DOMAIN a.digests
       /\ a.restored => a.digests[Manifest] < a.number
  BY <1>2, <1>4, <1>5, <1>9, <1>12
<1>15. \A n \in DOMAIN a.digests \ {Manifest} : a.files[n] = a.digests[n]
  BY <1>2
<1>16. /\ Metafile' \in DOMAIN a.digests
       /\ ~a.restored => a.digests[Metafile'] = a.made
       /\ ~onServer' => "store.pgdump" \notin DOMAIN a.digests
       /\ "secrets.json" \in DOMAIN a.digests => a.secrets
  BY <1>1, <1>2, <1>6, <1>7, <1>8, <1>10
<1> QED
  BY <1>2, <1>11, <1>13, <1>14, <1>15, <1>16 DEF ArchiveOK

IsList(s) == Len(s) \in Nat /\ s = [k \in 1 .. Len(s) |-> s[k]]

\* Retention keeps what is there, and the newest last.
LEMMA RetainedKeeps ==
  ASSUME NEW all, IsList(all), Len(all) >= 1, NEW retain \in Nat,
         NEW kept, kept = Retained(all, retain)
  PROVE  /\ IsList(kept) /\ Len(kept) >= 1
         /\ \A k \in 1 .. Len(kept) : \E j \in 1 .. Len(all) : kept[k] = all[j]
         /\ kept[Len(kept)] = all[Len(all)]
<1>1. PICK len \in Nat : /\ len >= 1 /\ Len(all) = len
                        /\ all = [k \in 1 .. len |-> all[k]]
  BY DEF IsList
<1>2. CASE retain = 0 \/ len <= retain
  BY <1>1, <1>2 DEF Retained
<1>3. CASE ~(retain = 0 \/ len <= retain)
  <2> DEFINE from == len - retain + 1
  <2>1. from \in 2 .. len /\ kept = SubSeq(all, from, len)
    <3>1. from \in 2 .. len
      BY <1>1, <1>3
    <3> QED
      BY <3>1, <1>1, <1>3 DEF Retained
  <2> HIDE DEF from
  <2>2. kept = [k \in 1 .. len - from + 1 |-> all[from + k - 1]]
    <3>1. SubSeq(all, from, len) = [k \in 1 .. len - from + 1 |-> all[from + k - 1]]
      BY <2>1, SMT
    <3> QED
      BY <2>1, <3>1
  <2>3. Len(kept) = len - from + 1
    BY <2>1, <2>2
  <2>4. \A k \in 1 .. Len(kept) : /\ from + k - 1 \in 1 .. len
                                 /\ kept[k] = all[from + k - 1]
    BY <2>1, <2>2, <2>3
  <2>5. Len(kept) \in Nat /\ Len(kept) >= 1
    BY <2>1, <2>3
  <2>6. kept[Len(kept)] = all[len]
    BY <2>1, <2>3, <2>4, <2>5
  <2>7. IsList(kept)
    BY <2>2, <2>3, <2>5 DEF IsList
  <2> QED
    BY <1>1, <2>4, <2>5, <2>6, <2>7
<1> QED
  BY <1>2, <1>3

LEMMA RunBackupKeeps ==
  ASSUME ArchivesInv, RunBackup
  PROVE  ArchivesInv'
<1> PICK retain \in {0, 1, 2}, withSecrets \in BOOLEAN :
      archives' = Retained(Append(archives, ArchiveOf(commands + 1, withSecrets)),
                           retain)
  BY DEF RunBackup
<1> DEFINE new == ArchiveOf(commands + 1, withSecrets)
           all == Append(archives, new)
<1>1. commands' = commands + 1 /\ commands \in Nat /\ onServer' = onServer
  BY DEF RunBackup, ArchivesInv, StoreOK
<1>2. \A a : a = new => ArchiveOK(a)' /\ a.number = commands + 1
  BY <1>1, NewArchiveOK DEF ArchivesInv
<1>3. /\ Len(all) = Len(archives) + 1
      /\ all = [k \in 1 .. Len(all) |-> all[k]]
      /\ \A k \in 1 .. Len(archives) : all[k] = archives[k]
      /\ all[Len(all)] = new
  BY DEF ArchivesInv, ArchivesOK
<1>4. Len(archives) \in Nat
  BY DEF ArchivesInv, ArchivesOK
<1>5. \A k \in 1 .. Len(all) : \A a : a = all[k] => ArchiveOK(a)'
  <2> SUFFICES ASSUME NEW k \in 1 .. Len(all), NEW a, a = all[k]
               PROVE  ArchiveOK(a)'
    OBVIOUS
  <2>1. CASE k \in 1 .. Len(archives)
    <3>1. ArchiveOK(a)
      BY <2>1, <1>3 DEF ArchivesInv, ArchivesOK
    <3> QED
      BY <3>1, <1>1, ArchiveStaysOK DEF ArchivesInv
  <2>2. CASE k = Len(all)
    BY <2>2, <1>2, <1>3
  <2> QED
    BY <2>1, <2>2, <1>3, <1>4
<1>6. /\ IsList(archives') /\ Len(archives') >= 1
      /\ \A k \in 1 .. Len(archives') :
           \E j \in 1 .. Len(all) : archives'[k] = all[j]
      /\ archives'[Len(archives')] = new
  <2>1. IsList(all) /\ Len(all) >= 1
    BY <1>3, <1>4 DEF IsList
  <2> HIDE DEF all, new
  <2>2. archives' = Retained(all, retain)
    BY DEF all, new
  <2>3. ASSUME NEW old, old = all, NEW kept, kept = archives'
        PROVE  /\ IsList(kept) /\ Len(kept) >= 1
               /\ \A k \in 1 .. Len(kept) : \E j \in 1 .. Len(old) : kept[k] = old[j]
               /\ kept[Len(kept)] = old[Len(old)]
    <3>1. IsList(old) /\ Len(old) >= 1 /\ kept = Retained(old, retain)
      BY <2>1, <2>2, <2>3
    <3>2. retain \in Nat
      OBVIOUS
    <3> QED
      BY <3>1, <3>2, RetainedKeeps
  <2> QED
    BY <1>3, <2>3
<1> HIDE DEF all, new
<1>7. ArchivesOK'
  <2>1. ASSUME NEW k \in 1 .. Len(archives') PROVE ArchiveOK(archives[k])'
    BY <1>5, <1>6
  <2> QED
    BY <1>6, <2>1 DEF ArchivesOK, IsList
<1>8. NewestKept'
  <2>1. new.number = commands + 1 /\ latest' = commands + 1
    BY <1>2 DEF RunBackup
  <2> QED
    BY <1>6, <2>1 DEF NewestKept, Last, IsList
<1>9. StoreOK'
  BY <1>1 DEF RunBackup, ArchivesInv, StoreOK
<1>10. OutcomeSound'
  BY DEF RunBackup, OutcomeSound, Silent
<1> QED
  BY <1>7, <1>8, <1>9, <1>10 DEF ArchivesInv

LEMMA DamageArchiveKeeps ==
  ASSUME ArchivesInv, DamageArchive
  PROVE  ArchivesInv'
<1>1. PICK k \in DOMAIN archives : \E n \in DOMAIN archives[k].digests :
        /\ archives[k].intact
        /\ n # Manifest
        /\ archives' = [archives EXCEPT ![k].files[n] = -1, ![k].intact = FALSE]
  BY DEF DamageArchive, Manifest
<1>2. PICK n \in DOMAIN archives[k].digests :
        /\ archives[k].intact
        /\ n # Manifest
        /\ archives' = [archives EXCEPT ![k].files[n] = -1, ![k].intact = FALSE]
  BY <1>1
<1>3. /\ DOMAIN archives = 1 .. Len(archives) /\ Len(archives) \in Nat
      /\ k \in 1 .. Len(archives)
  BY DEF ArchivesInv, ArchivesOK
<1>4. /\ DOMAIN archives' = 1 .. Len(archives)
      /\ \A j \in 1 .. Len(archives) \ {k} : archives'[j] = archives[j]
      /\ archives'[k] = [archives[k] EXCEPT !.files[n] = -1, !.intact = FALSE]
      /\ archives' = [j \in 1 .. Len(archives) |-> archives'[j]]
  BY <1>2, <1>3
<1>5. Len(archives') = Len(archives)
  BY <1>3, <1>4
<1>6. UNCHANGED <<onServer, server, store, outcome, commands, latest>>
  BY DEF DamageArchive
<1>7. commands' \in Nat /\ commands' >= commands
  BY <1>6 DEF ArchivesInv, StoreOK
<1>8. ASSUME NEW j \in 1 .. Len(archives) \ {k}, NEW a, a = archives'[j]
      PROVE  ArchiveOK(a)'
  <2>1. ArchiveOK(a)
    BY <1>4, <1>8 DEF ArchivesInv, ArchivesOK
  <2> QED
    BY <2>1, <1>6, <1>7, ArchiveStaysOK DEF ArchivesInv
<1>9. ASSUME NEW a, a = archives[k],
             NEW b, b = [a EXCEPT !.files[n] = -1, !.intact = FALSE]
      PROVE  ArchiveOK(b)' /\ b.number = a.number
  <2>1. ArchiveOK(a)
    BY <1>3, <1>9 DEF ArchivesInv, ArchivesOK
  <2>2. ArchiveOK(a)'
    BY <2>1, <1>6, <1>7, ArchiveStaysOK DEF ArchivesInv
  <2> QED
    BY <1>2, <1>9, <2>2 DEF ArchiveOK
<1>10. ArchivesOK'
  <2>1. ASSUME NEW j \in 1 .. Len(archives'), NEW a, a = archives'[j]
        PROVE  ArchiveOK(a)'
    <3>1. CASE j # k
      BY <2>1, <3>1, <1>5, <1>8
    <3>2. CASE j = k
      BY <2>1, <3>2, <1>4, <1>9
    <3> QED
      BY <3>1, <3>2
  <2>2. ASSUME NEW j \in 1 .. Len(archives') PROVE ArchiveOK(archives[j])'
    BY <2>1
  <2> QED
    BY <1>3, <1>4, <1>5, <2>2 DEF ArchivesOK
<1>11. NewestKept'
  <2>1. \A j \in 1 .. Len(archives) : archives'[j].number = archives[j].number
    BY <1>3, <1>4, <1>9
  <2>2. archives # <<>> /\ archives' # <<>>
    BY <1>3, <1>4
  <2>3. Len(archives) \in 1 .. Len(archives)
    BY <1>3
  <2> QED
    BY <1>5, <1>6, <2>1, <2>2, <2>3 DEF ArchivesInv, NewestKept, Last
<1>12. StoreOK' /\ OutcomeSound'
  BY <1>6 DEF ArchivesInv, StoreOK, OutcomeSound, Metadata
<1> QED
  BY <1>10, <1>11, <1>12 DEF ArchivesInv

LEMMA RefuseRestoreKeeps ==
  ASSUME ArchivesInv, RefuseRestore
  PROVE  ArchivesInv'
<1>1. ArchivesOK' /\ NewestKept'
  BY ArchivesStayOK DEF RefuseRestore, ArchivesInv, StoreOK
<1>2. StoreOK'
  BY DEF RefuseRestore, ArchivesInv, StoreOK
<1>3. OutcomeSound'
  BY DEF RefuseRestore, OutcomeSound, Ended
<1> QED
  BY <1>1, <1>2, <1>3 DEF ArchivesInv

\* What a restore may count on in an archive that verifies.
LEMMA Verified ==
  ASSUME NEW a, StoreOK, ArchiveOK(a), Verifies(a)
  PROVE  /\ \A n \in DOMAIN a.files : a.files[n] \in Nat
         /\ Manifest \in DOMAIN a.files /\ a.files[Manifest] <= commands
         /\ Metafile \in DOMAIN a.files /\ a.files[Metafile] = a.made
         /\ ~onServer => "store.pgdump" \notin DOMAIN a.files
<1>1. a.intact /\ ~a.restored
  BY IntactUnlessRestored
<1>2. Metafile # Manifest
  BY DEF Metafile, Manifest
<1>3. \A n \in DOMAIN a.files : a.files[n] \in Nat
  BY DEF ArchiveOK, Verifies
<1>4. Manifest \in DOMAIN a.files /\ a.files[Manifest] <= commands
  BY DEF ArchiveOK
<1>5. Metafile \in DOMAIN a.files /\ a.files[Metafile] = a.made
  BY <1>1, <1>2 DEF ArchiveOK, Verifies
<1>6. ~onServer => "store.pgdump" \notin DOMAIN a.files
  BY DEF ArchiveOK, Manifest
<1> QED
  BY <1>3, <1>4, <1>5, <1>6

LEMMA RestoreKeeps ==
  ASSUME ArchivesInv, Restore
  PROVE  ArchivesInv'
<1>1. PICK k \in DOMAIN archives, target \in {store, NoFiles}, url \in BOOLEAN :
        LET files == Over(archives[k].files, target)
            dumped == "store.pgdump" \in DOMAIN files
        IN  /\ Verifies(archives[k])
            /\ store' = files
            /\ server' = IF dumped /\ url THEN files["store.pgdump"] ELSE server
            /\ outcome' = Ended(archives[k], dumped => url)
  BY DEF Restore
<1> DEFINE a == archives[k]
           dumped == "store.pgdump" \in DOMAIN store'
<1>2. /\ DOMAIN store' = DOMAIN a.files \cup DOMAIN target
      /\ \A n \in DOMAIN a.files : store'[n] = a.files[n]
      /\ \A n \in DOMAIN target \ DOMAIN a.files : store'[n] = target[n]
      /\ server' = IF dumped /\ url THEN store'["store.pgdump"] ELSE server
      /\ outcome' = Ended(a, dumped => url)
  BY <1>1 DEF Over
<1>3. /\ \A n \in DOMAIN a.files : a.files[n] \in Nat
      /\ Manifest \in DOMAIN a.files /\ a.files[Manifest] <= commands
      /\ Metafile \in DOMAIN a.files /\ a.files[Metafile] = a.made
      /\ ~onServer => "store.pgdump" \notin DOMAIN a.files
  <2>1. ArchiveOK(a) /\ Verifies(a)
    BY <1>1 DEF ArchivesInv, ArchivesOK
  <2> QED
    BY <2>1, Verified DEF ArchivesInv
<1>4. /\ \A n \in DOMAIN target : target[n] \in Nat
      /\ ~onServer => "store.pgdump" \notin DOMAIN target
  BY DEF ArchivesInv, StoreOK, NoFiles
<1>5. commands' = commands + 1 /\ commands \in Nat /\ onServer' = onServer
  BY DEF Restore, ArchivesInv, StoreOK
<1> HIDE DEF a
<1>6. StoreOK'
  <2>1. \A n \in DOMAIN store' : store'[n] \in Nat
    BY <1>2, <1>3, <1>4
  <2>2. server' \in Nat
    BY <1>2, <2>1 DEF ArchivesInv, StoreOK
  <2>3. ~onServer => /\ "store.sqlite" \in DOMAIN store'
                     /\ "store.pgdump" \notin DOMAIN store'
    BY <1>2, <1>3, <1>4 DEF Metafile
  <2>4. Manifest \in DOMAIN store' /\ store'[Manifest] <= commands'
    BY <1>2, <1>3, <1>5, <2>1
  <2> QED
    BY <1>5, <2>1, <2>2, <2>3, <2>4 DEF ArchivesInv, StoreOK
<1>7. OutcomeSound'
  <2>1. CASE dumped => url
    <3>1. /\ outcome'.ok /\ outcome'.archive = a
      BY <2>1, <1>2 DEF Ended
    <3>2. Metadata' = a.made
      <4>1. CASE onServer
        BY <4>1, <2>1, <1>2, <1>3, <1>5 DEF Metadata, Metafile
      <4>2. CASE ~onServer
        BY <4>2, <1>2, <1>3, <1>5 DEF Metadata, Metafile
      <4> QED
        BY <4>1, <4>2
    <3> QED
      BY <3>1, <3>2, <1>2 DEF OutcomeSound
  <2>2. CASE ~(dumped => url)
    <3>1. onServer
      BY <2>2, <1>2, <1>3, <1>4
    <3>2. server' = server /\ outcome'.server = server /\ ~outcome'.ok
      BY <2>2, <1>2 DEF Ended
    <3> QED
      BY <3>1, <3>2, <1>5 DEF OutcomeSound
  <2> QED
    BY <2>1, <2>2
<1>8. ArchivesOK' /\ NewestKept'
  BY <1>5, ArchivesStayOK DEF Restore
<1> QED
  BY <1>6, <1>7, <1>8 DEF ArchivesInv

\* The manifest is extracted first, so that a dump never comes without one.
LEMMA CutRestoreKeeps ==
  ASSUME ArchivesInv, CutRestore
  PROVE  ArchivesInv'
<1>1. PICK k \in DOMAIN archives, n \in 1 .. Len(MemberOrder) :
        /\ Verifies(archives[k])
        /\ store' = Over(OnlyFiles(archives[k].files,
                                   Range(SubSeq(MemberOrder, 1, n))), store)
  BY DEF CutRestore
<1> DEFINE a == archives[k]
           names == Range(SubSeq(MemberOrder, 1, n))
<1>2. Manifest \in names
  <2>1. Len(MemberOrder) = 5 /\ MemberOrder[1] = Manifest
    BY DEF MemberOrder, Manifest
  <2>2. SubSeq(MemberOrder, 1, n) = [i \in 1 .. n |-> MemberOrder[i]]
    BY <2>1
  <2> QED
    BY <2>1, <2>2 DEF Range
<1> HIDE DEF names
<1>3. /\ DOMAIN store' = (DOMAIN a.files \cap names) \cup DOMAIN store
      /\ \A m \in DOMAIN a.files \cap names : store'[m] = a.files[m]
      /\ \A m \in DOMAIN store \ (DOMAIN a.files \cap names) : store'[m] = store[m]
  BY <1>1 DEF Over, OnlyFiles, names
<1>4. /\ \A m \in DOMAIN a.files : a.files[m] \in Nat
      /\ Manifest \in DOMAIN a.files /\ a.files[Manifest] <= commands
      /\ ~onServer => "store.pgdump" \notin DOMAIN a.files
  <2>1. ArchiveOK(a) /\ Verifies(a)
    BY <1>1 DEF ArchivesInv, ArchivesOK
  <2> QED
    BY <2>1, Verified DEF ArchivesInv
<1>5. /\ commands' = commands + 1 /\ commands \in Nat
      /\ UNCHANGED <<onServer, server, archives, latest>>
  BY DEF CutRestore, ArchivesInv, StoreOK
<1> HIDE DEF a
<1>6. StoreOK'
  <2>1. \A m \in DOMAIN store' : store'[m] \in Nat
    BY <1>3, <1>4 DEF ArchivesInv, StoreOK
  <2>2. Manifest \in DOMAIN store' /\ store'[Manifest] <= commands'
    BY <1>2, <1>3, <1>4, <1>5, <2>1
  <2>3. ~onServer => /\ "store.sqlite" \in DOMAIN store'
                     /\ "store.pgdump" \notin DOMAIN store'
    BY <1>3, <1>4 DEF ArchivesInv, StoreOK
  <2> QED
    BY <1>5, <2>1, <2>2, <2>3 DEF ArchivesInv, StoreOK
<1>7. OutcomeSound'
  BY DEF CutRestore, OutcomeSound, Silent
<1>8. ArchivesOK' /\ NewestKept'
  BY <1>5, ArchivesStayOK
<1> QED
  BY <1>6, <1>7, <1>8 DEF ArchivesInv

LEMMA ArchivesInvStep ==
  ArchivesInv /\ [ArchivesNext]_archiveVars => ArchivesInv'
<1> SUFFICES ASSUME ArchivesInv, [ArchivesNext]_archiveVars PROVE ArchivesInv'
  OBVIOUS
<1>1. CASE ChangeMetadata
  BY <1>1, ChangeMetadataKeeps
<1>2. CASE RunBackup
  BY <1>2, RunBackupKeeps
<1>3. CASE DamageArchive
  BY <1>3, DamageArchiveKeeps
<1>4. CASE RefuseRestore
  BY <1>4, RefuseRestoreKeeps
<1>5. CASE Restore
  BY <1>5, RestoreKeeps
<1>6. CASE CutRestore
  BY <1>6, CutRestoreKeeps
<1>7. CASE UNCHANGED archiveVars
  <2>1. ArchivesOK' /\ NewestKept'
    BY <1>7, ArchivesStayOK DEF archiveVars, ArchivesInv, StoreOK
  <2> QED
    BY <1>7, <2>1 DEF archiveVars, ArchivesInv, StoreOK, OutcomeSound, Metadata
<1> QED
  BY <1>1, <1>2, <1>3, <1>4, <1>5, <1>6, <1>7 DEF ArchivesNext

(***************************************************************************)
(* For any number of commands, changes and damages: what a restore said is *)
(* true of the store and the server it left, exactly the archives that     *)
(* verify are those nobody touched and that were made of a store never     *)
(* restored, secrets are archived only when asked for, and retention keeps *)
(* the newest (RestoreSound, of scripts/backup.py, 66-160).                *)
(***************************************************************************)
THEOREM RestoresAreSound == ArchivesSpec => []RestoreSound
<1> QED
  BY ArchivesInvInit, ArchivesInvStep, ArchivesInvImplies, PTL DEF ArchivesSpec

-----------------------------------------------------------------------------
(***************************************************************************)
(* Webhooks.  The inductive invariant: every notice told of is on its way, *)
(* answered, failed or lost, in one of these only, the dispatching thread  *)
(* has each of its notices once, and a receiver has heard of none that is  *)
(* still on its way.  The rows are finitely many, whatever may register,   *)
(* so that the subscribers of an event can be put in a sequence.           *)
(***************************************************************************)
Rows == [known : BOOLEAN, active : BOOLEAN, events : SUBSET Happenings]

DeliveryOK ==
  /\ hook \in [Hooks -> Rows]
  /\ dispatched \in Seq([event : Happenings, told : SUBSET Hooks])
  /\ Len(dispatched) <= MaxDispatches
  /\ toSend \in Seq(Notices)
  /\ threads \in SUBSET Notices
  /\ answered \in SUBSET Notices
  /\ failed \in SUBSET Notices
  /\ lost \in SUBSET Notices
  /\ received \in [Notices -> Nat]

KnownHooks == { h \in Hooks : hook[h].known }

RowsFinite ==
  /\ IsFiniteSet(KnownHooks)
  /\ \A h \in Hooks : hook[h].active => hook[h].known

\* The four places of a notice, the two of Waiting told apart.
OnePlace ==
  /\ IsInjective(toSend)
  /\ threads \cap Range(toSend) = {}
  /\ (threads \cup Range(toSend)) \cap (answered \cup failed \cup lost) = {}
  /\ answered \cap failed = {}
  /\ answered \cap lost = {}
  /\ failed \cap lost = {}

AllPlaced ==
  threads \cup Range(toSend) \cup answered \cup failed \cup lost = Told

HeardOnce ==
  \A m \in Notices :
    /\ received[m] <= 1
    /\ m \in answered => received[m] = 1
    /\ m \notin answered \cup failed \cup lost => received[m] = 0

DeliveryInv ==
  /\ DeliveryOK
  /\ RowsFinite
  /\ OnePlace
  /\ AllPlaced
  /\ HeardOnce

\* A sequence without repetition loses exactly its head to the thread posted.
LEMMA TailOnce ==
  ASSUME NEW S, NEW s \in Seq(S), s # <<>>, IsInjective(s)
  PROVE  /\ Head(s) \in Range(s)
         /\ Range(Tail(s)) = Range(s) \ {Head(s)}
         /\ IsInjective(Tail(s))
         /\ Tail(s) \in Seq(S)
<1>1. /\ Len(s) \in Nat \ {0}
      /\ DOMAIN s = 1 .. Len(s)
      /\ Head(s) = s[1]
      /\ Tail(s) \in Seq(S)
      /\ DOMAIN Tail(s) = 1 .. Len(s) - 1
      /\ \A i \in 1 .. Len(s) - 1 : Tail(s)[i] = s[i + 1]
  OBVIOUS
<1>2. Head(s) \in Range(s)
  BY <1>1 DEF Range
<1>3. ASSUME NEW x \in Range(Tail(s))
      PROVE  x \in Range(s) \ {Head(s)}
  <2>1. PICK i \in 1 .. Len(s) - 1 : x = s[i + 1]
    BY <1>1, <1>3 DEF Range
  <2>2. i + 1 \in 1 .. Len(s) /\ i + 1 # 1
    BY <1>1
  <2>3. x # s[1]
    BY <1>1, <2>1, <2>2 DEF IsInjective
  <2> QED
    BY <1>1, <2>1, <2>2, <2>3 DEF Range
<1>4. ASSUME NEW x \in Range(s), x # Head(s)
      PROVE  x \in Range(Tail(s))
  <2>1. PICK i \in 1 .. Len(s) : x = s[i]
    BY <1>1 DEF Range
  <2>2. i - 1 \in 1 .. Len(s) - 1 /\ i = (i - 1) + 1
    BY <1>1, <1>4, <2>1
  <2>3. Tail(s)[i - 1] = x
    BY <1>1, <2>1, <2>2
  <2> QED
    BY <1>1, <2>2, <2>3 DEF Range
<1>5. IsInjective(Tail(s))
  <2> SUFFICES ASSUME NEW i \in 1 .. Len(s) - 1, NEW j \in 1 .. Len(s) - 1,
                      Tail(s)[i] = Tail(s)[j]
               PROVE  i = j
    BY <1>1 DEF IsInjective
  <2>1. i + 1 \in 1 .. Len(s) /\ j + 1 \in 1 .. Len(s) /\ s[i + 1] = s[j + 1]
    BY <1>1
  <2>2. i + 1 = j + 1
    BY <1>1, <2>1 DEF IsInjective
  <2> QED
    BY <2>2
<1> QED
  BY <1>1, <1>2, <1>3, <1>4, <1>5

\* The sequence of a finite set has its elements, each once.
LEMMA SequenceOfSet ==
  ASSUME NEW S, IsFiniteSet(S)
  PROVE  /\ SetToSeq(S) \in Seq(S)
         /\ Range(SetToSeq(S)) = S
         /\ IsInjective(SetToSeq(S))
<1> DEFINE D == 1 .. Cardinality(S)
<1>1. Cardinality(S) \in Nat /\ ExistsBijection(D, S)
  BY FS_CardinalityType
<1>2. PICK g \in Bijection(D, S) : TRUE
  BY <1>1 DEF ExistsBijection
<1>3. g \in [D -> S] /\ IsInjective(g)
  BY <1>2 DEF Bijection, Injection
<1>4. SetToSeq(S) \in [D -> S] /\ IsInjective(SetToSeq(S))
  BY <1>3 DEF SetToSeq
<1>5. IsFiniteSet(D) /\ Cardinality(D) = Cardinality(S)
  <2>1. ExistsBijection(S, D)
    BY <1>1, Fun_ExistsBijSymmetric
  <2> QED
    BY <2>1, FS_Bijection
<1>6. SetToSeq(S) \in Injection(D, S)
  BY <1>4 DEF Injection
<1>7. SetToSeq(S) \in Surjection(D, S)
  BY <1>5, <1>6, FS_Injection
<1>8. Range(SetToSeq(S)) = S
  BY <1>4, <1>7 DEF Surjection, Range
<1> QED
  BY <1>1, <1>4, <1>8

\* The notices of an event go to finitely many subscribers.
LEMMA NoticesFinite ==
  ASSUME DeliveryOK, RowsFinite, NEW e \in Happenings, NEW k
  PROVE  IsFiniteSet({ [hook |-> h, n |-> k] : h \in Subscribers(e) })
<1> DEFINE T == { [hook |-> h, n |-> k] : h \in Subscribers(e) }
           f == [h \in Subscribers(e) |-> [hook |-> h, n |-> k]]
<1>1. Subscribers(e) \in SUBSET KnownHooks
  BY DEF Subscribers, RowsFinite, KnownHooks
<1>2. IsFiniteSet(Subscribers(e))
  BY <1>1, FS_Subset DEF RowsFinite
<1>3. f \in [Subscribers(e) -> T]
  OBVIOUS
<1>4. \A t \in T : \E h \in Subscribers(e) : f[h] = t
  OBVIOUS
<1>5. f \in Surjection(Subscribers(e), T)
  BY <1>3, <1>4 DEF Surjection
<1> QED
  BY <1>2, <1>5, FS_Surjection

LEMMA DeliveryInvInit == WebhookInit => DeliveryInv
<1> SUFFICES ASSUME WebhookInit PROVE DeliveryInv
  OBVIOUS
<1>1. Range(<<>>) = {} /\ IsInjective(<<>>)
  BY DEF Range, IsInjective
<1>2. DeliveryOK
  BY WebhooksAssumption DEF WebhookInit, DeliveryOK, Rows, NoHook
<1>3. RowsFinite
  <2>1. KnownHooks = {}
    BY DEF WebhookInit, KnownHooks, NoHook
  <2> QED
    BY <2>1, FS_EmptySet DEF WebhookInit, RowsFinite, NoHook
<1>4. Told = {}
  BY DEF WebhookInit, Told, Notices
<1> QED
  BY <1>1, <1>2, <1>3, <1>4
     DEF WebhookInit, DeliveryInv, OnePlace, AllPlaced, HeardOnce

LEMMA AddKeeps ==
  ASSUME DeliveryInv, NEW h \in Hooks, NEW events \in SUBSET Happenings,
         AddWebhook(h, events)
  PROVE  DeliveryInv'
<1>1. hook' \in [Hooks -> Rows]
  BY DEF AddWebhook, DeliveryInv, DeliveryOK, Rows
<1>2. KnownHooks' = KnownHooks \cup {h}
  BY DEF AddWebhook, DeliveryInv, DeliveryOK, Rows, KnownHooks
<1>3. RowsFinite'
  <2>1. IsFiniteSet(KnownHooks')
    BY <1>2, FS_AddElement DEF DeliveryInv, RowsFinite
  <2>2. \A g \in Hooks : hook'[g].active => hook'[g].known
    BY DEF AddWebhook, DeliveryInv, DeliveryOK, RowsFinite
  <2> QED
    BY <2>1, <2>2 DEF RowsFinite
<1> QED
  BY <1>1, <1>3
     DEF AddWebhook, DeliveryInv, DeliveryOK, OnePlace, AllPlaced, HeardOnce,
         Told

LEMMA DeactivateKeeps ==
  ASSUME DeliveryInv, NEW h \in Hooks, DeactivateWebhook(h)
  PROVE  DeliveryInv'
<1>1. hook' \in [Hooks -> Rows]
  BY DEF DeactivateWebhook, DeliveryInv, DeliveryOK, Rows
<1>2. \A g \in Hooks : /\ hook'[g].known = hook[g].known
                       /\ hook'[g].active => hook[g].active
  BY DEF DeactivateWebhook, DeliveryInv, DeliveryOK, Rows
<1>3. KnownHooks' = KnownHooks
  BY <1>2 DEF KnownHooks
<1>4. RowsFinite'
  BY <1>2, <1>3 DEF DeliveryInv, RowsFinite
<1> QED
  BY <1>1, <1>4
     DEF DeactivateWebhook, DeliveryInv, DeliveryOK, OnePlace, AllPlaced,
         HeardOnce, Told

\* What is told with the next event are the notices now to be sent.
LEMMA DispatchKeeps ==
  ASSUME DeliveryInv, NEW e \in Happenings, Dispatch(e)
  PROVE  DeliveryInv'
<1> DEFINE k == Len(dispatched) + 1
           new == { [hook |-> h, n |-> k] : h \in Subscribers(e) }
<1>1. /\ k \in 1 .. MaxDispatches
      /\ Subscribers(e) \in SUBSET Hooks
      /\ new \in SUBSET Notices
  BY WebhooksAssumption
     DEF Dispatch, DeliveryInv, DeliveryOK, Subscribers, Notices
<1>2. /\ toSend' \in Seq(new)
      /\ Range(toSend') = new
      /\ IsInjective(toSend')
  <2>1. IsFiniteSet(new)
    BY NoticesFinite DEF DeliveryInv
  <2>2. toSend' = SetToSeq(new)
    BY DEF Dispatch
  <2> QED
    BY <2>1, <2>2, SequenceOfSet
<1>3. /\ dispatched' \in Seq([event : Happenings, told : SUBSET Hooks])
      /\ Len(dispatched') = k
      /\ dispatched'[k].told = Subscribers(e)
      /\ \A j \in 1 .. Len(dispatched) : dispatched'[j] = dispatched[j]
  <2>1. dispatched' =
          Append(dispatched, [event |-> e, told |-> Subscribers(e)])
    BY DEF Dispatch, Subscribers
  <2> QED
    BY <1>1, <2>1 DEF DeliveryInv, DeliveryOK
<1>4. Told' = Told \cup new
  <2>1. ASSUME NEW m \in Notices
        PROVE  m \in Told' <=> m \in Told \cup new
    <3>1. m.n \in 1 .. MaxDispatches /\ m.hook \in Hooks
          /\ m = [hook |-> m.hook, n |-> m.n]
      BY DEF Notices
    <3>2. CASE m.n <= Len(dispatched)
      <4>1. m.n \in 1 .. Len(dispatched) /\ m.n # k /\ m.n <= k
        BY <3>1, <3>2 DEF DeliveryInv, DeliveryOK
      <4>2. m \notin new
        BY <4>1
      <4> QED
        BY <1>3, <4>1, <4>2 DEF Told
    <3>3. CASE m.n = k
      <4>1. m.n <= Len(dispatched') /\ ~(m.n <= Len(dispatched))
        BY <1>3, <3>3 DEF DeliveryInv, DeliveryOK
      <4>2. m \in Told' <=> m.hook \in Subscribers(e)
        BY <1>3, <3>3, <4>1 DEF Told
      <4>3. m \in new <=> m.hook \in Subscribers(e)
        BY <3>1, <3>3
      <4> QED
        BY <4>1, <4>2, <4>3 DEF Told
    <3>4. CASE m.n > k
      <4>1. ~(m.n <= Len(dispatched')) /\ ~(m.n <= Len(dispatched))
            /\ m.n # k
        BY <1>1, <1>3, <3>1, <3>4 DEF DeliveryInv, DeliveryOK
      <4> QED
        BY <4>1 DEF Told
    <3> QED
      BY <3>1, <3>2, <3>3, <3>4 DEF DeliveryInv, DeliveryOK
  <2> QED
    BY <1>1, <2>1 DEF Told
<1>5. new \cap Told = {}
  <2>1. \A m \in Told : m.n # k
    BY DEF Told, Notices, DeliveryInv, DeliveryOK
  <2> QED
    BY <2>1
<1> HIDE DEF new, k
<1>6. Range(toSend) = {}
  BY DEF Dispatch, Range
<1>7. DeliveryOK'
  <2>1. toSend' \in Seq(Notices)
    BY <1>1, <1>2
  <2>2. Len(dispatched') <= MaxDispatches
    BY <1>1, <1>3, WebhooksAssumption
  <2> QED
    BY <1>3, <2>1, <2>2 DEF Dispatch, DeliveryInv, DeliveryOK
<1>8. RowsFinite'
  BY DEF Dispatch, DeliveryInv, RowsFinite, KnownHooks
<1>9. AllPlaced'
  BY <1>2, <1>4, <1>6 DEF Dispatch, DeliveryInv, AllPlaced
<1>10. OnePlace'
  BY <1>2, <1>5, <1>6 DEF Dispatch, DeliveryInv, AllPlaced, OnePlace
<1>11. HeardOnce'
  BY DEF Dispatch, DeliveryInv, HeardOnce
<1> QED
  BY <1>7, <1>8, <1>9, <1>10, <1>11 DEF DeliveryInv

LEMMA PostKeeps ==
  ASSUME DeliveryInv, Post
  PROVE  DeliveryInv'
<1>1. /\ Head(toSend) \in Range(toSend)
      /\ Range(toSend') = Range(toSend) \ {Head(toSend)}
      /\ IsInjective(toSend')
      /\ toSend' \in Seq(Notices)
  BY TailOnce DEF Post, DeliveryInv, DeliveryOK, OnePlace
<1>2. Range(toSend) \subseteq Notices
  BY DEF Range, DeliveryInv, DeliveryOK
<1>3. DeliveryOK'
  BY <1>1, <1>2 DEF Post, DeliveryInv, DeliveryOK
<1>4. RowsFinite' /\ HeardOnce'
  BY DEF Post, DeliveryInv, RowsFinite, KnownHooks, HeardOnce
<1>5. Told' = Told
  BY DEF Post, Told
<1>6. OnePlace' /\ AllPlaced'
  BY <1>1, <1>5 DEF Post, DeliveryInv, OnePlace, AllPlaced
<1> QED
  BY <1>3, <1>4, <1>6 DEF DeliveryInv

LEMMA DeliverKeeps ==
  ASSUME DeliveryInv, NEW m \in Notices, Deliver(m)
  PROVE  DeliveryInv'
<1>1. DeliveryOK' /\ RowsFinite' /\ Told' = Told
  BY DEF Deliver, DeliveryInv, DeliveryOK, RowsFinite, KnownHooks, Told
<1>2. OnePlace' /\ AllPlaced'
  BY <1>1 DEF Deliver, DeliveryInv, OnePlace, AllPlaced
<1>3. received[m] = 0
  BY DEF Deliver, DeliveryInv, OnePlace, HeardOnce
<1>4. HeardOnce'
  BY <1>3 DEF Deliver, DeliveryInv, DeliveryOK, HeardOnce
<1> QED
  BY <1>1, <1>2, <1>4 DEF DeliveryInv

LEMMA FailKeeps ==
  ASSUME DeliveryInv, NEW m \in Notices, NEW got \in BOOLEAN,
         FailDelivery(m, got)
  PROVE  DeliveryInv'
<1>1. DeliveryOK' /\ RowsFinite' /\ Told' = Told
  BY DEF FailDelivery, DeliveryInv, DeliveryOK, RowsFinite, KnownHooks, Told
<1>2. OnePlace' /\ AllPlaced'
  BY <1>1 DEF FailDelivery, DeliveryInv, OnePlace, AllPlaced
<1>3. received[m] = 0
  BY DEF FailDelivery, DeliveryInv, OnePlace, HeardOnce
<1>4. HeardOnce'
  BY <1>3 DEF FailDelivery, DeliveryInv, DeliveryOK, OnePlace, HeardOnce
<1> QED
  BY <1>1, <1>2, <1>4 DEF DeliveryInv

LEMMA UnrecordedKeeps ==
  ASSUME DeliveryInv, NEW m \in Notices, NEW got \in BOOLEAN,
         FailUnrecorded(m, got)
  PROVE  DeliveryInv'
<1>1. Range(<<>>) = {} /\ IsInjective(<<>>)
  BY DEF Range, IsInjective
<1>2. Range(toSend) \subseteq Notices
  BY DEF Range, DeliveryInv, DeliveryOK
<1>3. DeliveryOK' /\ RowsFinite' /\ Told' = Told
  BY <1>2
     DEF FailUnrecorded, DeliveryInv, DeliveryOK, RowsFinite, KnownHooks, Told
<1>4. OnePlace' /\ AllPlaced'
  <2>1. CASE inline
    BY <1>1, <1>3, <2>1
       DEF FailUnrecorded, DeliveryInv, OnePlace, AllPlaced
  <2>2. CASE ~inline
    BY <1>3, <2>2 DEF FailUnrecorded, DeliveryInv, OnePlace, AllPlaced
  <2> QED
    BY <2>1, <2>2
<1>5. received[m] = 0
  BY DEF FailUnrecorded, DeliveryInv, OnePlace, HeardOnce
<1>6. HeardOnce'
  BY <1>5 DEF FailUnrecorded, DeliveryInv, DeliveryOK, OnePlace, HeardOnce
<1> QED
  BY <1>3, <1>4, <1>6 DEF DeliveryInv

LEMMA EndProcessKeeps ==
  ASSUME DeliveryInv, EndProcess
  PROVE  DeliveryInv'
<1>1. Range(<<>>) = {} /\ IsInjective(<<>>)
  BY DEF Range, IsInjective
<1>2. Range(toSend) \subseteq Notices
  BY DEF Range, DeliveryInv, DeliveryOK
<1>3. DeliveryOK' /\ RowsFinite' /\ Told' = Told
  BY <1>2
     DEF EndProcess, DeliveryInv, DeliveryOK, RowsFinite, KnownHooks, Told
<1>4. OnePlace' /\ AllPlaced'
  BY <1>1, <1>3 DEF EndProcess, DeliveryInv, OnePlace, AllPlaced
<1>5. HeardOnce'
  BY DEF EndProcess, DeliveryInv, HeardOnce
<1> QED
  BY <1>3, <1>4, <1>5 DEF DeliveryInv

LEMMA DeliveryInvStep ==
  DeliveryInv /\ [WebhookNext]_webhookVars => DeliveryInv'
<1> SUFFICES ASSUME DeliveryInv, [WebhookNext]_webhookVars PROVE DeliveryInv'
  OBVIOUS
<1>1. CASE \E h \in Hooks : DeactivateWebhook(h)
  BY <1>1, DeactivateKeeps
<1>2. CASE \E h \in Hooks, events \in SUBSET Happenings : AddWebhook(h, events)
  BY <1>2, AddKeeps
<1>3. CASE \E e \in Happenings : Dispatch(e)
  BY <1>3, DispatchKeeps
<1>4. CASE Post
  BY <1>4, PostKeeps
<1>5. CASE \E m \in Notices, got \in BOOLEAN : FailDelivery(m, got)
  BY <1>5, FailKeeps
<1>6. CASE \E m \in Notices, got \in BOOLEAN : FailUnrecorded(m, got)
  BY <1>6, UnrecordedKeeps
<1>7. CASE \E m \in Notices : Deliver(m)
  BY <1>7, DeliverKeeps
<1>8. CASE EndProcess
  BY <1>8, EndProcessKeeps
<1>9. CASE UNCHANGED webhookVars
  BY <1>9
     DEF webhookVars, DeliveryInv, DeliveryOK, RowsFinite, KnownHooks,
         OnePlace, AllPlaced, HeardOnce, Told
<1> QED
  BY <1>1, <1>2, <1>3, <1>4, <1>5, <1>6, <1>7, <1>8, <1>9 DEF WebhookNext

LEMMA DeliveryInvImplies == DeliveryInv => NoticesAccounted
<1> SUFFICES ASSUME DeliveryInv PROVE NoticesAccounted
  OBVIOUS
<1> DEFINE place == <<Waiting, answered, failed, lost>>
<1>1. DOMAIN place = 1 .. 4
  OBVIOUS
<1>2. /\ place[1] = Waiting
      /\ place[2] = answered
      /\ place[3] = failed
      /\ place[4] = lost
  OBVIOUS
<1> HIDE DEF place
<1>3. Range(place) = {Waiting, answered, failed, lost}
  BY <1>1, <1>2 DEF Range
<1>4. UNION Range(place) = Told
  BY <1>3 DEF DeliveryInv, AllPlaced, Waiting
<1>5. ASSUME NEW i \in 1 .. 4, NEW j \in 1 .. 4, i # j
      PROVE  place[i] \cap place[j] = {}
  <2>1. /\ i = 1 \/ i = 2 \/ i = 3 \/ i = 4
        /\ j = 1 \/ j = 2 \/ j = 3 \/ j = 4
    OBVIOUS
  <2> QED
    BY <1>2, <1>5, <2>1 DEF DeliveryInv, OnePlace, Waiting
<1>6. \A m \in Notices :
        /\ received[m] <= 1
        /\ m \in answered => received[m] = 1
        /\ received[m] = 1 => m \notin Waiting
  BY DEF DeliveryInv, OnePlace, HeardOnce, Waiting
<1> QED
  BY <1>1, <1>4, <1>5, <1>6 DEF NoticesAccounted, place

(***************************************************************************)
(* For any subscribers, events and failures: exactly the subscribers that  *)
(* were active when an event was told of have a notice, each notice is on  *)
(* its way, answered, recorded as failed or left behind by a failure of    *)
(* the service, and no receiver gets one twice (NoticesAccounted, of       *)
(* api/service.py, 1154-1192).                                             *)
(***************************************************************************)
THEOREM NoticesStayAccounted == WebhookSpec => []NoticesAccounted
<1> QED
  BY DeliveryInvInit, DeliveryInvStep, DeliveryInvImplies, PTL DEF WebhookSpec
-----------------------------------------------------------------------------
(***************************************************************************)
(* The lifecycle: it is well typed, every recommendation it holds is       *)
(* consistent, its history is append-only and an approval is final,        *)
(* whatever the users, the roles and the number of recommendations.        *)
(***************************************************************************)
\* All that a step can do to one recommendation.
RowMoves(r) ==
  \/ row'[r] = row[r]
  \/ /\ row[r] = NoRow
     /\ \E p \in Identity, badge \in Badges : row'[r] = Draft(p, badge)
  \/ /\ row[r] # NoRow
     /\ \E p \in Identity, at \in Nat \ {0} : StepOf(row'[r], row[r], at, p)
  \/ /\ row[r] # NoRow
     /\ row[r].state = "EVALUATED"
     /\ \E at \in Nat : row'[r] = [row[r] EXCEPT !.evaluations = @ \cup {at}]

LEMMA NextMoves ==
  TypeOK /\ [Next]_vars =>
    /\ \A r \in Recs : RowMoves(r)
    /\ row' \in [Recs -> RecommendationType \cup {NoRow}]
    /\ policy' \in {"log", "enforce"}
<1> SUFFICES ASSUME TypeOK, [Next]_vars
             PROVE  /\ \A r \in Recs : RowMoves(r)
                    /\ row' \in [Recs -> RecommendationType \cup {NoRow}]
                    /\ policy' \in {"log", "enforce"}
  OBVIOUS
<1> USE DEF TypeOK
<1>1. ASSUME NEW r \in Recs, Create(r)
      PROVE  /\ \A s \in Recs : RowMoves(s)
             /\ row' \in [Recs -> RecommendationType \cup {NoRow}]
             /\ policy' = policy
  <2>1. PICK p \in Principals, badge \in Badges :
          row' = [row EXCEPT ![r] = Draft(p, badge)]
    BY <1>1 DEF Create
  <2>2. p \in Identity
    BY LifecycleAssumption
  <2>3. Draft(p, badge) \in RecommendationType
    BY <2>2, DraftConsistent
  <2>4. row[r] = NoRow
    BY <1>1 DEF Create, Exists
  <2>5. policy' = policy
    BY <1>1 DEF Create
  <2> QED
    BY <2>1, <2>2, <2>3, <2>4, <2>5 DEF RowMoves
<1>2. ASSUME NEW r \in Recs, Advance(r)
      PROVE  /\ \A s \in Recs : RowMoves(s)
             /\ row' \in [Recs -> RecommendationType \cup {NoRow}]
             /\ policy' = policy
  <2>1. PICK p \in Principals, at \in Times :
          \E new \in Outcomes(row[r], at, p) : row' = [row EXCEPT ![r] = new]
    BY <1>2 DEF Advance
  <2>2. PICK new \in Outcomes(row[r], at, p) : row' = [row EXCEPT ![r] = new]
    BY <2>1
  <2>3. p \in Identity /\ at \in Nat \ {0}
    BY LifecycleAssumption
  <2>4. row[r] \in RecommendationType /\ row[r] # NoRow
    BY <1>2 DEF Advance, Exists
  <2>5. StepOf(new, row[r], at, p)
    <3>1. PICK reason \in BOOLEAN :
            new \in Review(row[r], at, p)
                      \cup Approve(row[r], at, p, policy, reason)
                      \cup Reject(row[r], at, p)
                      \cup Implement(row[r], at, p)
                      \cup Evaluate(row[r], at, p)
      BY <2>2 DEF Outcomes
    <3> QED
      BY <2>3, <2>4, <3>1, OutcomeStep
  <2>6. policy' = policy
    BY <1>2 DEF Advance
  <2>7. new \in RecommendationType
    BY <2>5 DEF StepOf, StepBy
  <2>8. row'[r] = new /\ \A s \in Recs \ {r} : row'[s] = row[s]
    BY <2>2
  <2> QED
    BY <2>2, <2>3, <2>4, <2>5, <2>6, <2>7, <2>8 DEF RowMoves
<1>3. ASSUME NEW r \in Recs, EvaluateAgain(r)
      PROVE  /\ \A s \in Recs : RowMoves(s)
             /\ row' \in [Recs -> RecommendationType \cup {NoRow}]
             /\ policy' = policy
  <2>1. PICK at \in Times :
          row' = [row EXCEPT ![r].evaluations = @ \cup {at}]
    BY <1>3 DEF EvaluateAgain
  <2>2. at \in Nat
    BY LifecycleAssumption
  <2>3. /\ row[r] \in RecommendationType /\ row[r] # NoRow
        /\ row[r].state = "EVALUATED" /\ policy' = policy
    BY <1>3 DEF EvaluateAgain, Exists
  <2>4. [row[r] EXCEPT !.evaluations = @ \cup {at}] \in RecommendationType
    BY <2>2, <2>3 DEF RecommendationType
  <2>5. row' = [row EXCEPT ![r] = [row[r] EXCEPT !.evaluations = @ \cup {at}]]
    BY <2>1
  <2>6. /\ row'[r] = [row[r] EXCEPT !.evaluations = @ \cup {at}]
        /\ \A s \in Recs \ {r} : row'[s] = row[s]
    BY <2>5
  <2> QED
    BY <2>2, <2>3, <2>4, <2>5, <2>6 DEF RowMoves
<1>4. CASE SetPolicy
  BY <1>4 DEF SetPolicy, RowMoves
<1>5. CASE UNCHANGED vars
  BY <1>5 DEF vars, RowMoves
<1> QED
  BY <1>1, <1>2, <1>3, <1>4, <1>5 DEF Next

\* Whatever moves a recommendation keeps it consistent.
LEMMA MovesConsistent ==
  ASSUME TypeOK, RowConsistent, NEW r \in Recs, RowMoves(r),
         row'[r] # NoRow
  PROVE  Consistent(row'[r])
<1> USE DEF TypeOK
<1>1. row[r] # NoRow => row[r] \in RecommendationType /\ Consistent(row[r])
  BY DEF RowConsistent, Exists
<1>2. CASE row'[r] = row[r]
  BY <1>1, <1>2
<1>3. CASE \E p \in Identity, badge \in Badges : row'[r] = Draft(p, badge)
  BY <1>3, DraftConsistent
<1>4. CASE /\ row[r] # NoRow
           /\ \E p \in Identity, at \in Nat \ {0} :
                StepOf(row'[r], row[r], at, p)
  BY <1>1, <1>4, StepConsistent
<1>5. CASE /\ row[r] # NoRow
           /\ row[r].state = "EVALUATED"
           /\ \E at \in Nat :
                row'[r] = [row[r] EXCEPT !.evaluations = @ \cup {at}]
  BY <1>1, <1>5, EvaluateAgainConsistent
<1> QED
  BY <1>2, <1>3, <1>4, <1>5 DEF RowMoves

-----------------------------------------------------------------------------
\* The lifecycle is well typed.
THEOREM LifecycleType == Spec => []TypeOK
<1>1. Init => TypeOK
  BY DEF Init, TypeOK
<1>2. TypeOK /\ [Next]_vars => TypeOK'
  BY NextMoves DEF TypeOK
<1> QED
  BY <1>1, <1>2, PTL DEF Spec

\* Every recommendation of the lifecycle is consistent: a legal history in the
\* required roles, and the snapshot, flags and entries its state calls for.
THEOREM LifecycleConsistent == Spec => []RowConsistent
<1>1. Init => RowConsistent
  BY DEF Init, RowConsistent, Exists
<1>2. TypeOK /\ RowConsistent /\ [Next]_vars => RowConsistent'
  <2> SUFFICES ASSUME TypeOK, RowConsistent, [Next]_vars,
                      NEW r \in Recs, row'[r] # NoRow
               PROVE  Consistent(row'[r])
    BY DEF RowConsistent, Exists, Consistent
  <2>1. RowMoves(r)
    BY NextMoves
  <2> QED
    BY <2>1, MovesConsistent
<1> QED
  BY <1>1, <1>2, LifecycleType, PTL DEF Spec

-----------------------------------------------------------------------------
\* No step drops or rewrites an event that was logged.
THEOREM LifecycleAppendOnly == Spec => HistoryAppendOnly
<1>1. TypeOK /\ [Next]_vars => \A r \in Recs : HistoryKept(r)
  <2> SUFFICES ASSUME TypeOK, [Next]_vars, NEW r \in Recs, row[r] # NoRow
               PROVE  HistoryKept(r)
    BY DEF HistoryKept, Exists
  <2>1. RowMoves(r)
    BY NextMoves
  <2>2. row[r] \in RecommendationType
    BY DEF TypeOK
  <2>3. CASE row'[r] = row[r]
    <3>1. row[r].history \in Seq(Event)
      BY <2>2 DEF RecommendationType
    <3>2. Len(row[r].history) \in Nat
      BY <3>1
    <3> QED
      BY <2>3, <3>2 DEF HistoryKept
  <2>4. CASE \E p \in Identity, at \in Nat \ {0} :
               StepOf(row'[r], row[r], at, p)
    <3>1. PICK p \in Identity, at \in Nat \ {0} :
            StepOf(row'[r], row[r], at, p)
      BY <2>4
    <3>2. PICK action \in Actions, to \in States :
            Extends(row'[r], row[r], at, action, p, to)
      BY <3>1 DEF StepOf, StepBy, Allowed
    <3>3. row'[r] # NoRow
      BY <3>1, LifecycleAssumption DEF StepOf, StepBy
    <3>4. /\ Len(row[r].history) \in Nat
          /\ Len(row'[r].history) = Len(row[r].history) + 1
          /\ \A i \in 1..Len(row[r].history) :
               row'[r].history[i] = row[r].history[i]
      BY <2>2, <3>2, ExtendsHistory
    <3>5. /\ row'[r].originator = row[r].originator
          /\ row'[r].confidence = row[r].confidence
      BY <3>2 DEF Extends
    <3> QED
      BY <3>3, <3>4, <3>5 DEF HistoryKept
  <2>5. CASE \E at \in Nat :
               row'[r] = [row[r] EXCEPT !.evaluations = @ \cup {at}]
    <3>1. row[r].history \in Seq(Event)
      BY <2>2 DEF RecommendationType
    <3>2. Len(row[r].history) \in Nat
      BY <3>1
    <3>3. row'[r] \in RecommendationType
      BY <2>2, <2>5 DEF RecommendationType
    <3>4. row'[r] # NoRow
      BY <3>3, LifecycleAssumption
    <3>5. /\ row'[r].history = row[r].history
          /\ row'[r].originator = row[r].originator
          /\ row'[r].confidence = row[r].confidence
      BY <2>2, <2>5 DEF RecommendationType
    <3> QED
      BY <3>2, <3>4, <3>5 DEF HistoryKept
  <2> QED
    BY <2>1, <2>3, <2>4, <2>5 DEF RowMoves
<1> QED
  BY <1>1, LifecycleType, PTL DEF Spec, HistoryAppendOnly

\* An approval is final: the snapshot, the override, the self-approval flag and
\* the implementation entry of an approved recommendation never change again.
THEOREM LifecycleImmutable == Spec => SnapshotImmutable
<1>1. TypeOK /\ RowConsistent /\ [Next]_vars => \A r \in Recs : ApprovalKept(r)
  <2> SUFFICES ASSUME TypeOK, RowConsistent, [Next]_vars, NEW r \in Recs,
                      row[r] # NoRow, row[r].state \in ApprovedStates
               PROVE  ApprovalKept(r)
    BY DEF ApprovalKept, Exists
  <2>1. RowMoves(r)
    BY NextMoves
  <2>2. row[r] \in RecommendationType /\ Consistent(row[r])
    BY DEF TypeOK, RowConsistent, Exists
  <2>3. CASE row'[r] = row[r]
    BY <2>3 DEF ApprovalKept
  <2>4. CASE \E p \in Identity, at \in Nat \ {0} :
               StepOf(row'[r], row[r], at, p)
    <3>1. PICK p \in Identity, at \in Nat \ {0} :
            StepOf(row'[r], row[r], at, p)
      BY <2>4
    <3>2. PICK action \in Actions, to \in States :
            /\ Extends(row'[r], row[r], at, action, p, to)
            /\ Effect(row'[r], row[r], at, action, p)
            /\ <<row[r].state, action, to>> \in Transitions
      BY <3>1 DEF StepOf, StepBy, Allowed
    <3>3. row'[r] # NoRow
      BY <3>1, LifecycleAssumption DEF StepOf, StepBy
    <3>4. /\ action # "approve"
          /\ action = "implement" => row[r].state = "APPROVED"
          /\ to \in ApprovedStates
          /\ row'[r].state = to
      BY <3>2 DEF Transitions, ApprovedStates, Extends
    <3>5. /\ row[r].byOriginator \in BOOLEAN /\ row'[r].byOriginator \in BOOLEAN
          /\ row[r].overridden \in BOOLEAN /\ row'[r].overridden \in BOOLEAN
      BY <2>2, <3>1 DEF StepOf, StepBy, RecommendationType
    <3>6. /\ row'[r].byOriginator = row[r].byOriginator
          /\ row'[r].overridden = row[r].overridden
      BY <3>2, <3>4, <3>5 DEF Effect
    <3>7. /\ row'[r].snapshot = row[r].snapshot
          /\ row[r].evaluations \subseteq row'[r].evaluations
      BY <3>2, <3>4 DEF Effect
    <3>8. row[r].implemented # 0 => action # "implement"
      BY <2>2, <3>4 DEF Consistent, EntriesMatchState, ImplementedStates
    <3>9. row[r].implemented # 0 => row'[r].implemented = row[r].implemented
      BY <3>2, <3>8 DEF Effect
    <3> QED
      BY <3>3, <3>4, <3>6, <3>7, <3>9 DEF ApprovalKept
  <2>5. CASE \E at \in Nat :
               row'[r] = [row[r] EXCEPT !.evaluations = @ \cup {at}]
    <3>1. row'[r] \in RecommendationType
      BY <2>2, <2>5 DEF RecommendationType
    <3>2. row'[r] # NoRow
      BY <3>1, LifecycleAssumption
    <3>3. /\ row'[r].state = row[r].state
          /\ row'[r].snapshot = row[r].snapshot
          /\ row'[r].overridden = row[r].overridden
          /\ row'[r].byOriginator = row[r].byOriginator
          /\ row'[r].implemented = row[r].implemented
          /\ row[r].evaluations \subseteq row'[r].evaluations
      BY <2>2, <2>5 DEF RecommendationType
    <3> QED
      BY <3>2, <3>3 DEF ApprovalKept
  <2> QED
    BY <2>1, <2>3, <2>4, <2>5 DEF RowMoves
<1> QED
  BY <1>1, LifecycleType, LifecycleConsistent, PTL DEF Spec, SnapshotImmutable
=============================================================================
