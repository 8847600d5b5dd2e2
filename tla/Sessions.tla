-------------------------------- MODULE Sessions --------------------------------
(***************************************************************************)
(* The sessions of users with the server processes of one store: the       *)
(* secret that TokenService (api/auth.py) finds in the file .jwt_secret or *)
(* makes, the token a login gives, and what resolve_principal answers to a *)
(* request that carries it while processes crash and start again and an    *)
(* administrator changes the users.                                        *)
(*                                                                         *)
(* A process starts in up to four steps, any of which another process may  *)
(* fall between: does the file exist, then either read it, or empty it and *)
(* write a new secret into it.                                             *)
(***************************************************************************)
EXTENDS Integers, FiniteSets

CONSTANTS
  Processes,      \* processes that serve the store
  People,         \* users of the store
  Posts,          \* roles a user may hold
  MaxStarts,      \* bound: starts of processes in a behaviour
  MaxChanges      \* bound: changes of users in a behaviour

ASSUME SessionsAssumption ==
  /\ MaxStarts \in Nat
  /\ MaxChanges \in Nat

VARIABLES
  secretFile,     \* what .jwt_secret holds: 0 no file, 1 nothing, or a secret
  proc,           \* process -> where its start is
  secret,         \* process -> the secret it signs with; 1 is the empty one
  made,           \* secrets made so far, each another number above 1
  raced,          \* processes that started while another one did (history)
  account,        \* user -> whether active, and the roles held
  token,          \* the tokens users hold
  answer,         \* the answer to a request, if the last step gave one
  starts, changes

sessionVars ==
  <<secretFile, proc, secret, made, raced, account, token, answer, starts,
    changes>>

Absent == 0
Empty == 1

Starting == {"found", "missing", "emptied"}

Quiet == [code |-> "none", by |-> "none", of |-> "none", role |-> "none"]

SessionInit ==
  /\ secretFile = Absent
  /\ proc = [p \in Processes |-> "down"]
  /\ secret = [p \in Processes |-> Absent]
  /\ made = Empty
  /\ raced = {}
  /\ account = [u \in People |-> [active |-> TRUE, roles |-> Posts]]
  /\ token = {}
  /\ answer = Quiet
  /\ starts = 0
  /\ changes = 0

-----------------------------------------------------------------------------
OthersStarting(p) == { q \in Processes \ {p} : proc[q] \in Starting }

\* Mutant: a secret of its own for every process.
LookForFileNever(p) ==
  /\ proc[p] = "down"
  /\ starts < MaxStarts
  /\ starts' = starts + 1
  /\ proc' = [proc EXCEPT ![p] = "missing"]
  /\ raced' = IF OthersStarting(p) = {} THEN raced \ {p}
              ELSE raced \cup OthersStarting(p) \cup {p}
  /\ UNCHANGED <<secretFile, secret, made, account, token, changes>>
  /\ answer' = Quiet

\* p.exists().
LookForFile(p) ==
  /\ proc[p] = "down"
  /\ starts < MaxStarts
  /\ starts' = starts + 1
  /\ proc' = [proc EXCEPT ![p] =
                IF secretFile = Absent THEN "missing" ELSE "found"]
  /\ raced' = IF OthersStarting(p) = {} THEN raced \ {p}
              ELSE raced \cup OthersStarting(p) \cup {p}
  /\ UNCHANGED <<secretFile, secret, made, account, token, changes>>
  /\ answer' = Quiet

\* p.read_text(): nothing, while another process is about to write.
ReadSecret(p) ==
  /\ proc[p] = "found"
  /\ secret' = [secret EXCEPT ![p] = secretFile]
  /\ proc' = [proc EXCEPT ![p] = "up"]
  /\ UNCHANGED <<secretFile, made, raced, account, token, starts, changes>>
  /\ answer' = Quiet

\* p.write_text(s) opens the file, which empties it ...
EmptyFile(p) ==
  /\ proc[p] = "missing"
  /\ secretFile' = Empty
  /\ proc' = [proc EXCEPT ![p] = "emptied"]
  /\ UNCHANGED <<secret, made, raced, account, token, starts, changes>>
  /\ answer' = Quiet

\* ... and writes the secret that was made.
WriteSecret(p) ==
  /\ proc[p] = "emptied"
  /\ made' = made + 1
  /\ secretFile' = made + 1
  /\ secret' = [secret EXCEPT ![p] = made + 1]
  /\ proc' = [proc EXCEPT ![p] = "up"]
  /\ UNCHANGED <<raced, account, token, starts, changes>>
  /\ answer' = Quiet

\* The process ends, or is killed at any point of its start.
StopProcess(p) ==
  /\ proc[p] # "down"
  /\ proc' = [proc EXCEPT ![p] = "down"]
  /\ UNCHANGED <<secretFile, secret, made, raced, account, token, starts,
                 changes>>
  /\ answer' = Quiet

-----------------------------------------------------------------------------
\* login, with the right password; firm: the process did not race (history).
Login(p, u) ==
  /\ proc[p] = "up"
  /\ account[u].active
  /\ token' = { t \in token : t.user # u }
                \cup {[user |-> u, roles |-> account[u].roles,
                       key |-> secret[p], firm |-> p \notin raced]}
  /\ UNCHANGED <<secretFile, proc, secret, made, raced, account, starts,
                 changes>>
  /\ answer' = Quiet

\* UserStore.update by an administrator.
ChangeUser(u, active, roles) ==
  /\ changes < MaxChanges
  /\ changes' = changes + 1
  /\ account' = [account EXCEPT ![u] = [active |-> active, roles |-> roles]]
  /\ UNCHANGED <<secretFile, proc, secret, made, raced, token, starts>>
  /\ answer' = Quiet

Accepted == "200"

\* can_act_as: an administrator may act in every role.
MayActAs(roles, role) == role \in roles \/ "admin" \in roles

\* resolve_principal: the token names the user, the table says what he may do.
ResolvePrincipal(p, t, role) ==
  LET a == account[t.user]
  IN  CASE t.key # secret[p] -> "401"
        [] t.key = secret[p] /\ ~(a.active /\ MayActAs(a.roles, role))
             -> "403"
        [] OTHER -> Accepted

Ask(p, t, role) ==
  /\ proc[p] = "up"
  /\ answer' = [code |-> ResolvePrincipal(p, t, role), by |-> p,
                of |-> t, role |-> role]
  /\ UNCHANGED <<secretFile, proc, secret, made, raced, account, token, starts,
                 changes>>

SessionNext ==
  \/ \E p \in Processes :
       \/ LookForFile(p)
       \/ ReadSecret(p)
       \/ EmptyFile(p)
       \/ WriteSecret(p)
       \/ StopProcess(p)
       \/ \E u \in People : Login(p, u)
       \/ \E t \in token, role \in Posts : Ask(p, t, role)
  \/ \E u \in People, active \in BOOLEAN, roles \in SUBSET Posts :
       ChangeUser(u, active, roles)

SessionSpec == SessionInit /\ [][SessionNext]_sessionVars

-----------------------------------------------------------------------------
(***************************************************************************)
(* A request is accepted only if its user is active and holds the role at  *)
(* that moment, whatever the token says; and a token is refused as not     *)
(* this store's only where one of the two processes started while another  *)
(* one did: a restart keeps everybody logged in (auth.py, 188-245).        *)
(***************************************************************************)
SessionsHold ==
  answer # Quiet =>
    /\ answer.code = Accepted =>
         /\ account[answer.of.user].active
         /\ MayActAs(account[answer.of.user].roles, answer.role)
    /\ answer.code = "401" => ~answer.of.firm \/ answer.by \in raced
=============================================================================
