-------------------------------- MODULE Webhooks --------------------------------
(***************************************************************************)
(* Webhook delivery (api/service.py): dispatch_webhook reads the active    *)
(* subscribers of an event and _post sends to each of them, in a daemon    *)
(* thread, or at once where jobs are run inline.  Subscribers are added    *)
(* and deactivated meanwhile, receivers fail or answer too late, the       *)
(* store fails, and the process ends with the threads it has.              *)
(***************************************************************************)
EXTENDS Integers, Sequences, FiniteSets, SequencesExt

CONSTANTS
  Hooks,          \* subscribers that may be registered
  Happenings,     \* events the service tells of
  MaxDispatches,  \* bound: events told of in a behaviour
  MaxHookFaults   \* bound: receiver, store and process failures

ASSUME WebhooksAssumption ==
  /\ MaxDispatches \in Nat
  /\ MaxHookFaults \in Nat

VARIABLES
  inline,         \* jobs.sync: deliveries are made by the dispatching thread
  hook,           \* subscriber -> its row: whether active, and its events
  dispatched,     \* events told of so far
  toSend,         \* the notices the dispatching thread has yet to post
  threads,        \* notices held by delivery threads
  received,       \* notice -> how often its receiver got it
  answered,       \* notices whose receiver answered in time, well or badly
  failed,         \* entries webhook_failed of the audit log
  lost,           \* notices that a failure of the service left behind (history)
  hookFaults

webhookVars ==
  <<inline, hook, dispatched, toSend, threads, received, answered, failed,
    lost, hookFaults>>

\* A notice is for one subscriber, about the event told of as the n-th.
Notices == [hook : Hooks, n : 1 .. MaxDispatches]

NoHook == [known |-> FALSE, active |-> FALSE, events |-> {}]

WebhookInit ==
  /\ inline \in BOOLEAN
  /\ hook = [h \in Hooks |-> NoHook]
  /\ dispatched = <<>>
  /\ toSend = <<>>
  /\ threads = {}
  /\ received = [m \in Notices |-> 0]
  /\ answered = {}
  /\ failed = {}
  /\ lost = {}
  /\ hookFaults = 0

-----------------------------------------------------------------------------
AddWebhook(h, events) ==
  /\ ~hook[h].known
  /\ hook' = [hook EXCEPT ![h] =
                [known |-> TRUE, active |-> TRUE, events |-> events]]
  /\ UNCHANGED <<inline, dispatched, toSend, threads, received, answered,
                 failed, lost, hookFaults>>

DeactivateWebhook(h) ==
  /\ hook[h].active
  /\ hook' = [hook EXCEPT ![h].active = FALSE]
  /\ UNCHANGED <<inline, dispatched, toSend, threads, received, answered,
                 failed, lost, hookFaults>>

Subscribers(e) == { h \in Hooks : hook[h].active /\ e \in hook[h].events }

\* dispatch_webhook reads the rows once; told: the subscribers at that moment.
Dispatch(e) ==
  /\ toSend = <<>>
  /\ Len(dispatched) < MaxDispatches
  /\ dispatched' = Append(dispatched,
       [event |-> e,
        told |-> { h \in Hooks : hook[h].active /\ e \in hook[h].events }])
  /\ toSend' = SetToSeq({ [hook |-> h, n |-> Len(dispatched) + 1] :
                            h \in Subscribers(e) })
  /\ UNCHANGED <<inline, hook, threads, received, answered, failed, lost,
                 hookFaults>>

\* _post: a thread of its own for the next notice, or its turn.
Post ==
  /\ toSend # <<>>
  /\ inline => threads = {}
  /\ threads' = threads \cup {Head(toSend)}
  /\ toSend' = Tail(toSend)
  /\ UNCHANGED <<inline, hook, dispatched, received, answered, failed, lost,
                 hookFaults>>

-----------------------------------------------------------------------------
\* The receiver gets the notice and answers: no status code is an error here.
Deliver(m) ==
  /\ m \in threads
  /\ threads' = threads \ {m}
  /\ received' = [received EXCEPT ![m] = @ + 1]
  /\ answered' = answered \cup {m}
  /\ UNCHANGED <<inline, hook, dispatched, toSend, failed, lost, hookFaults>>

\* Mutant: the thread tries a second time before it gives up.
FailRetried(m, got) ==
  /\ m \in threads
  /\ hookFaults < MaxHookFaults
  /\ hookFaults' = hookFaults + 1
  /\ received' = [received EXCEPT ![m] = @ + (IF got THEN 2 ELSE 0)]
  /\ threads' = threads \ {m}
  /\ failed' = failed \cup {m}
  /\ UNCHANGED <<inline, hook, dispatched, toSend, answered, lost>>

\* No connection, or no answer in time, whether the receiver got it or not; the
\* failure is recorded.
FailDelivery(m, got) ==
  /\ m \in threads
  /\ hookFaults < MaxHookFaults
  /\ hookFaults' = hookFaults + 1
  /\ received' = [received EXCEPT ![m] = @ + (IF got THEN 1 ELSE 0)]
  /\ threads' = threads \ {m}
  /\ failed' = failed \cup {m}
  /\ UNCHANGED <<inline, hook, dispatched, toSend, answered, lost>>

\* The record fails as well: a thread ends with it, inline it ends the dispatch.
FailUnrecorded(m, got) ==
  /\ m \in threads
  /\ hookFaults < MaxHookFaults
  /\ hookFaults' = hookFaults + 1
  /\ received' = [received EXCEPT ![m] = @ + (IF got THEN 1 ELSE 0)]
  /\ threads' = threads \ {m}
  /\ toSend' = IF inline THEN <<>> ELSE toSend
  /\ lost' = lost \cup {m} \cup (IF inline THEN Range(toSend) ELSE {})
  /\ UNCHANGED <<inline, hook, dispatched, answered, failed>>

\* The process ends, and its daemon threads with it; another one is started.
EndProcess ==
  /\ hookFaults < MaxHookFaults
  /\ hookFaults' = hookFaults + 1
  /\ lost' = lost \cup threads \cup Range(toSend)
  /\ threads' = {}
  /\ toSend' = <<>>
  /\ UNCHANGED <<inline, hook, dispatched, received, answered, failed>>

WebhookNext ==
  \/ \E h \in Hooks : DeactivateWebhook(h)
  \/ \E h \in Hooks, events \in SUBSET Happenings : AddWebhook(h, events)
  \/ \E e \in Happenings : Dispatch(e)
  \/ Post
  \/ \E m \in Notices, got \in BOOLEAN :
       \/ FailDelivery(m, got)
       \/ FailUnrecorded(m, got)
  \/ \E m \in Notices : Deliver(m)
  \/ EndProcess

WebhookSpec == WebhookInit /\ [][WebhookNext]_webhookVars

-----------------------------------------------------------------------------
Told == { m \in Notices : /\ m.n <= Len(dispatched)
                          /\ m.hook \in dispatched[m.n].told }

Waiting == threads \cup Range(toSend)

(***************************************************************************)
(* Exactly the subscribers that were active and had asked for the event    *)
(* when it was told of have a notice, and every notice is in one place: on *)
(* its way, answered, recorded as failed, or left behind by a failure of   *)
(* the service itself.  No receiver gets one twice (service.py, 1154-1192: *)
(* sent once, "failures are logged").                                      *)
(***************************************************************************)
NoticesAccounted ==
  LET place == <<Waiting, answered, failed, lost>>
  IN  /\ UNION Range(place) = Told
      /\ \A j, k \in DOMAIN place : j # k => place[j] \cap place[k] = {}
      /\ \A m \in Notices :
           /\ received[m] <= 1
           /\ m \in answered => received[m] = 1
           /\ received[m] = 1 => m \notin Waiting
=============================================================================
