----------------------------- MODULE NodeTopics -----------------------------
(***************************************************************************)
(* The topics of one node (node/node.go): the runner's goroutines join,    *)
(* subscribe and unsubscribe topics, messages pass their topic's verify    *)
(* hook, reach the open subscriptions and are handed to OnReceive by one   *)
(* receive goroutine each, and Close stops it all.  A step is one section  *)
(* of n.mu, or one call of the pubsub library outside it; any two calls    *)
(* may overlap, on one topic too, and the library may refuse a call.       *)
(*                                                                         *)
(* A verifier is what BatchVerifier shows it to be: it calls back whatever *)
(* is submitted before stop(), and nothing submitted after it has exited.  *)
(***************************************************************************)
EXTENDS Integers, FiniteSets

CONSTANTS
  Topics, Callers, Msgs,
  TopicOf,        \* TopicOf[m]: the topic message m is on
  ClassOf,        \* verifyClassFor: "fixed", "column", or the class of a batched flood
  PartialTopics,  \* topics of a partial kind, when the node runs the partial transport
  Subscribable,   \* bound: the topics the callers subscribe, of those they join
  MaxSubs         \* bound: subscriptions the library hands out

Batched(t) == ClassOf[t] \notin {"fixed", "column"}
Classes == {ClassOf[t] : t \in {u \in Topics : Batched(u)}}
SubIds == 1..MaxSubs

ASSUME NodeTopicsAssumption ==
  /\ TopicOf \in [Msgs -> Topics]
  /\ PartialTopics \subseteq {t \in Topics : Batched(t)}
  /\ Subscribable \subseteq Topics
  /\ MaxSubs \in Nat
  /\ "closed" \notin Topics /\ "none" \notin Topics  \* what stands for no topic

VARIABLES
  topics,      \* n.topics: the topics joined
  validated,   \* n.validated: the topics with a verify hook
  subs,        \* n.subs: topic -> subscription id, 0 for none
  verifiers,   \* n.verifiers: class -> "none", "running" or "stopped"
  open,        \* the library's open subscriptions: id -> topic, or "closed"
  used,        \* how many ids the library has handed out
  buffer,      \* id -> the messages buffered on the subscription
  receivers,   \* the receive goroutines in n.wg, by subscription
  call,        \* caller -> the call it is in, after its first section
  closing,     \* Close: "no", "cancelled", "waited", "copied", "done"
  toStop,      \* Close's copy of the verifiers still to stop
  mstate,      \* message -> "none", "verifying", "out"
  received,    \* history: message -> calls of OnReceive, at most 2
  overlapped,  \* history: the topics on which two Subscribes have overlapped
  crossed      \* history: the messages let through between Unsubscribe's two steps

vars == <<topics, validated, subs, verifiers, open, used, buffer, receivers, call, closing,
          toStop, mstate, received, overlapped, crossed>>
mapVars == <<topics, validated, verifiers>>
msgVars == <<mstate, received, crossed>>
closeVars == <<closing, toStop>>

Call(o, t, i) == [op |-> o, topic |-> t, id |-> i]
Idle == Call("idle", "none", 0)

\* JoinTopics: empty maps, a fresh receive context.
Init ==
  /\ topics = {} /\ validated = {}
  /\ subs = [t \in Topics |-> 0]
  /\ verifiers = [c \in Classes |-> "none"]
  /\ open = [i \in SubIds |-> "closed"] /\ used = 0
  /\ buffer = [i \in SubIds |-> {}]
  /\ receivers = {}
  /\ call = [c \in Callers |-> Idle]
  /\ closing = "no" /\ toStop = {}
  /\ mstate = [m \in Msgs |-> "none"] /\ received = [m \in Msgs |-> 0]
  /\ overlapped = {} /\ crossed = {}

----------------------------------------------------------------------------
(* Joining and subscribing.                                                *)

\* batchVerifierFor: created, and running, on first use.
batchVerifierFor(class) ==
  verifiers' = IF verifiers[class] = "none" THEN [verifiers EXCEPT ![class] = "running"]
               ELSE verifiers

\* joinLocked with registerVerifyHook: a partial topic gets no hook.
joinLocked(t) ==
  IF t \in topics THEN UNCHANGED mapVars
  ELSE /\ topics' = topics \cup {t}
       /\ IF t \in PartialTopics THEN UNCHANGED <<validated, verifiers>>
          ELSE /\ validated' = validated \cup {t}
               /\ IF Batched(t) THEN batchVerifierFor(ClassOf[t]) ELSE UNCHANGED verifiers

\* ... or the library refuses: RegisterTopicValidator, the verifier being made by
\* then, or the Join after it.
joinFails(t) ==
  /\ t \notin topics /\ UNCHANGED topics
  /\ IF t \in PartialTopics \cup validated THEN UNCHANGED <<validated, verifiers>>
     ELSE /\ validated' \in {validated, validated \cup {t}}
          /\ IF Batched(t) THEN batchVerifierFor(ClassOf[t]) ELSE UNCHANGED verifiers

Join(c, t) ==
  /\ call[c] = Idle
  /\ joinLocked(t)
  /\ UNCHANGED <<subs, open, used, buffer, receivers, call, closeVars, msgVars, overlapped>>

\* Join, or Subscribe's first section, returns the error of joinLocked.
JoinFails(c, t) ==
  /\ call[c] = Idle
  /\ joinFails(t)
  /\ UNCHANGED <<subs, open, used, buffer, receivers, call, closeVars, msgVars, overlapped>>

\* Subscribe, first section: join, and return if the topic is subscribed.
Subscribed_Never(t) == FALSE \* mutant: Subscribe is not idempotent

Subscribed(t) == subs[t] # 0

\* Some Subscribe of topic t is between its two sections.
Subscribing(t) == \E d \in Callers : call[d].op \in {"subscribe", "register"} /\ call[d].topic = t

SubscribeCheck(c, t) ==
  /\ call[c] = Idle
  /\ joinLocked(t)
  /\ IF Subscribed(t) THEN UNCHANGED <<call, overlapped>>
     ELSE /\ call' = [call EXCEPT ![c] = Call("subscribe", t, 0)]
          /\ overlapped' = IF Subscribing(t) THEN overlapped \cup {t} ELSE overlapped
  /\ UNCHANGED <<subs, open, used, buffer, receivers, closeVars, msgVars>>

\* ... the library opens a subscription ...
SubscribeOpen(c) ==
  /\ call[c].op = "subscribe" /\ used < MaxSubs
  /\ used' = used + 1
  /\ open' = [open EXCEPT ![used + 1] = call[c].topic]
  /\ call' = [call EXCEPT ![c] = Call("register", @.topic, used + 1)]
  /\ UNCHANGED <<mapVars, subs, buffer, receivers, closeVars, msgVars, overlapped>>

\* ... or refuses, and Subscribe returns its error ...
SubscribeFails(c) ==
  /\ call[c].op = "subscribe"
  /\ call' = [call EXCEPT ![c] = Idle]
  /\ UNCHANGED <<mapVars, subs, open, used, buffer, receivers, closeVars, msgVars, overlapped>>

\* ... the second section records it ...
SubscribeRegister(c) ==
  /\ call[c].op = "register"
  /\ subs' = [subs EXCEPT ![call[c].topic] = call[c].id]
  /\ call' = [call EXCEPT ![c] = Call("start", @.topic, @.id)]
  /\ UNCHANGED <<mapVars, open, used, buffer, receivers, closeVars, msgVars, overlapped>>

\* ... and the receive goroutine starts.
SubscribeStart(c) ==
  /\ call[c].op = "start"
  /\ receivers' = receivers \cup {call[c].id}
  /\ call' = [call EXCEPT ![c] = Idle]
  /\ UNCHANGED <<mapVars, subs, open, used, buffer, closeVars, msgVars, overlapped>>

\* Unsubscribe: forget the subscription, then cancel it outside the lock.
Unsubscribe(c, t) ==
  /\ call[c] = Idle /\ subs[t] # 0
  /\ subs' = [subs EXCEPT ![t] = 0]
  /\ call' = [call EXCEPT ![c] = Call("cancel", t, subs[t])]
  /\ UNCHANGED <<mapVars, open, used, buffer, receivers, closeVars, msgVars, overlapped>>

UnsubscribeCancel_Forgets(c) == \* mutant: the subscription is only forgotten
  /\ call[c].op = "cancel"
  /\ call' = [call EXCEPT ![c] = Idle]
  /\ UNCHANGED <<mapVars, subs, open, used, buffer, receivers, closeVars, msgVars, overlapped>>

UnsubscribeCancel(c) ==
  /\ call[c].op = "cancel"
  /\ open' = [open EXCEPT ![call[c].id] = "closed"]
  /\ call' = [call EXCEPT ![c] = Idle]
  /\ UNCHANGED <<mapVars, subs, used, buffer, receivers, closeVars, msgVars, overlapped>>

----------------------------------------------------------------------------
(* Messages.                                                               *)

OpenOn(t) == {i \in SubIds : open[i] = t}

\* What the library does with a message that passed its hook.
Forward(m) ==
  buffer' = [i \in SubIds |-> IF i \in OpenOn(TopicOf[m]) THEN buffer[i] \cup {m} ELSE buffer[i]]

\* Some Unsubscribe of topic t has forgotten its subscription and not cancelled it.
Cancelling(t) == \E c \in Callers : call[c].op = "cancel" /\ call[c].topic = t

Cross(m) == crossed' = IF Cancelling(TopicOf[m]) THEN crossed \cup {m} ELSE crossed

\* Publish, on a joined topic only: the node's own message skips the hook.
Publish(c, m) ==
  /\ call[c] = Idle /\ mstate[m] = "none"
  /\ TopicOf[m] \in topics \ PartialTopics
  /\ mstate' = [mstate EXCEPT ![m] = "out"]
  /\ Forward(m) /\ Cross(m)
  /\ UNCHANGED <<mapVars, subs, open, used, receivers, call, closeVars, received, overlapped>>

\* A peer's message enters its topic's hook: a classic one if the node is in the
\* mesh, a partial RPC through verifierFor whenever the topic is joined.
arrive(m) ==
  LET t == TopicOf[m] IN
  /\ mstate[m] = "none"
  /\ IF t \in PartialTopics
     THEN t \in topics /\ batchVerifierFor(ClassOf[t])
     ELSE OpenOn(t) # {} /\ UNCHANGED verifiers
  /\ mstate' = [mstate EXCEPT ![m] = "verifying"]
  /\ UNCHANGED <<topics, validated, subs, open, used, buffer, receivers, call, closeVars,
                 received, overlapped, crossed>>

Bump(m) == received' = [received EXCEPT ![m] = IF @ < 2 THEN @ + 1 ELSE @]

\* The hook returns: a batched class's verifier calls back while it runs.  A
\* partial vote goes to OnReceive directly (markValidated).
verify(m) ==
  LET t == TopicOf[m] IN
  /\ mstate[m] = "verifying"
  /\ Batched(t) => verifiers[ClassOf[t]] = "running"
  /\ mstate' = [mstate EXCEPT ![m] = "out"]
  /\ IF t \in PartialTopics THEN Bump(m) /\ UNCHANGED <<buffer, crossed>>
     ELSE Forward(m) /\ Cross(m) /\ UNCHANGED received
  /\ UNCHANGED <<mapVars, subs, open, used, receivers, call, closeVars, overlapped>>

\* receive: one message off the subscription ...
receive(i) ==
  /\ i \in receivers
  /\ \E m \in buffer[i] : buffer' = [buffer EXCEPT ![i] = @ \ {m}] /\ Bump(m)
  /\ UNCHANGED <<mapVars, subs, open, used, receivers, call, closeVars, mstate, overlapped,
                 crossed>>

\* ... until the context or the drained subscription ends it.
receiveExit_NoContext(i) == \* mutant: the context does not end it
  /\ i \in receivers
  /\ open[i] = "closed" /\ buffer[i] = {}
  /\ receivers' = receivers \ {i}
  /\ UNCHANGED <<mapVars, subs, open, used, buffer, call, closeVars, msgVars, overlapped>>

receiveExit(i) ==
  /\ i \in receivers
  /\ closing # "no" \/ (open[i] = "closed" /\ buffer[i] = {})
  /\ receivers' = receivers \ {i}
  /\ UNCHANGED <<mapVars, subs, open, used, buffer, call, closeVars, msgVars, overlapped>>

----------------------------------------------------------------------------
(* Close: cancel the context, wait for the goroutines, cancel what is      *)
(* subscribed and copy the verifiers, then stop each (which drains it).    *)

CloseCancel ==
  /\ closing = "no"
  /\ closing' = "cancelled"
  /\ UNCHANGED <<mapVars, subs, open, used, buffer, receivers, call, toStop, msgVars, overlapped>>

CloseWaited ==
  /\ closing = "cancelled" /\ receivers = {}
  /\ closing' = "waited"
  /\ UNCHANGED <<mapVars, subs, open, used, buffer, receivers, call, toStop, msgVars, overlapped>>

CloseCopy ==
  /\ closing = "waited"
  /\ closing' = "copied"
  /\ open' = [i \in SubIds |-> IF \E t \in Topics : subs[t] = i THEN "closed" ELSE open[i]]
  /\ toStop' = {c \in Classes : verifiers[c] = "running"}
  /\ UNCHANGED <<mapVars, subs, used, buffer, receivers, call, msgVars, overlapped>>

\* Mutant: stop() does not wait for the queue.
CloseStop_Undrained(class) ==
  /\ closing = "copied" /\ class \in toStop
  /\ toStop' = toStop \ {class}
  /\ verifiers' = [verifiers EXCEPT ![class] = "stopped"]
  /\ UNCHANGED <<topics, validated, subs, open, used, buffer, receivers, call, closing, msgVars,
                 overlapped>>

CloseStop(class) ==
  /\ closing = "copied" /\ class \in toStop
  /\ \A m \in Msgs : mstate[m] = "verifying" => ClassOf[TopicOf[m]] # class
  /\ toStop' = toStop \ {class}
  /\ verifiers' = [verifiers EXCEPT ![class] = "stopped"]
  /\ UNCHANGED <<topics, validated, subs, open, used, buffer, receivers, call, closing, msgVars,
                 overlapped>>

CloseDone ==
  /\ closing = "copied" /\ toStop = {}
  /\ closing' = "done"
  /\ UNCHANGED <<mapVars, subs, open, used, buffer, receivers, call, toStop, msgVars, overlapped>>

Close ==
  \/ CloseCancel \/ CloseWaited \/ CloseCopy \/ CloseDone
  \/ \E class \in Classes : CloseStop(class)

Next ==
  \/ \E c \in Callers :
       \/ \E t \in Topics : Join(c, t) \/ JoinFails(c, t) \/ Unsubscribe(c, t)
       \/ \E t \in Subscribable : SubscribeCheck(c, t)
       \/ SubscribeOpen(c) \/ SubscribeFails(c) \/ SubscribeRegister(c) \/ SubscribeStart(c)
       \/ UnsubscribeCancel(c)
       \/ \E m \in Msgs : Publish(c, m)
  \/ \E m \in Msgs : arrive(m) \/ verify(m)
  \/ \E i \in SubIds : receive(i) \/ receiveExit(i)
  \/ Close

Safety == Init /\ [][Next]_vars

\* A call once begun goes on, verifications and receive goroutines are
\* scheduled, and Close goes on once called.
Fairness ==
  /\ \A c \in Callers : WF_vars(SubscribeOpen(c) \/ SubscribeFails(c) \/ SubscribeRegister(c)
                                \/ SubscribeStart(c) \/ UnsubscribeCancel(c))
  /\ \A m \in Msgs : WF_vars(verify(m))
  /\ \A i \in SubIds : WF_vars(receive(i) \/ receiveExit(i))
  /\ WF_vars(CloseWaited \/ CloseCopy \/ CloseDone \/ \E class \in Classes : CloseStop(class))

Spec == Safety /\ Fairness

----------------------------------------------------------------------------
\* The subscription caller c is about to register or to cancel.
InCall(c) == IF call[c].op \in {"register", "cancel"} THEN {call[c].id} ELSE {}

\* Nothing leaks: every open subscription is the one n.subs records for its
\* topic, or one whose Subscribe or Unsubscribe is still under way, so Unsubscribe
\* and Close find everything there is to cancel.  Unsubscribe may overlap any call
\* and the library may refuse any; the one way to a leak is two Subscribes of one
\* topic that overlap, of which n.subs keeps the later.
NoLeakedSubscription ==
  \A i \in SubIds :
    open[i] # "closed" => \/ subs[open[i]] = i
                          \/ \E c \in Callers : i \in InCall(c)
                          \/ open[i] \in overlapped

\* A message reaches OnReceive twice, over resubscriptions, buffered leftovers of
\* a cancelled subscription, own publishes and partial callbacks, in one case
\* only: the classic transport let it through after an Unsubscribe had left the
\* lock and before it cancelled (a new Subscribe then has a second subscription
\* open), or on a topic that overlapping Subscribes had leaked a subscription of.
ReceivedOnce ==
  \A m \in Msgs :
    received[m] > 1 => /\ TopicOf[m] \notin PartialTopics
                       /\ m \in crossed \/ TopicOf[m] \in overlapped

\* No validator goroutine and no partial vote hangs in a verifier it entered
\* before Close copied the verifiers (submitAndWait returns).
HooksReturn ==
  \A m \in Msgs :
    (mstate[m] = "verifying" /\ closing \in {"no", "cancelled", "waited"}) ~> mstate[m] = "out"

\* Close returns.
CloseReturns == closing = "cancelled" ~> closing = "done"
============================================================================
