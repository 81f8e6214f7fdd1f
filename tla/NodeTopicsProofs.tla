-------------------------- MODULE NodeTopicsProofs --------------------------
(***************************************************************************)
(* The topics of a node, proved for every set of topics, callers, messages *)
(* and subscriptions, with any calls overlapping and any of them refused.  *)
(* Subscribe and Unsubscribe work on a subscription in several sections of *)
(* n.mu with calls of the library between them, so the invariant says      *)
(* which call accounts for a subscription that n.subs does not record.     *)
(* Unless Subscribes of the topic overlapped, that leaves one open         *)
(* subscription a topic while no Unsubscribe of it has yet to cancel, and  *)
(* with it one buffer for a message to be in.                              *)
(***************************************************************************)
EXTENDS NodeTopics, TLAPS

\* The calls a caller can be in the middle of.
Calls ==
  [op : {"subscribe", "register", "start", "cancel"}, topic : Topics, id : 0..MaxSubs]

\* The types of the variables.
TypeInv ==
  /\ subs \in [Topics -> 0..MaxSubs]
  /\ open \in [SubIds -> Topics \cup {"closed"}]
  /\ used \in 0..MaxSubs
  /\ buffer \in [SubIds -> SUBSET Msgs]
  /\ call \in [Callers -> {Idle} \cup Calls]
  /\ mstate \in [Msgs -> {"none", "verifying", "out"}]
  /\ received \in [Msgs -> 0..2]

\* Caller c is between the two sections of a Subscribe of topic t.
Opening(c, t) == call[c].op \in {"subscribe", "register"} /\ call[c].topic = t

\* Without an overlap, one Subscribe of a topic is between its sections.
ApartInv ==
  \A t \in Topics \ overlapped : \A c, d \in Callers : Opening(c, t) /\ Opening(d, t) => c = d

\* ... and n.subs has no subscription for the topic meanwhile.
UnrecordedInv ==
  \A t \in Topics \ overlapped : \A c \in Callers : Opening(c, t) => subs[t] = 0

\* Caller c is about to register or to cancel subscription i.
Accounts(c, i) ==
  call[c].op \in {"register", "cancel"} /\ call[c].id = i /\ call[c].topic = open[i]

\* Without an overlap, an open subscription is recorded, or a call on its topic
\* accounts for it.
OpenInv ==
  \A i \in SubIds :
    open[i] \in Topics \ overlapped => subs[open[i]] = i \/ \E c \in Callers : Accounts(c, i)

\* What excuses a second call of OnReceive.
Excused(m) == TopicOf[m] \notin PartialTopics /\ (m \in crossed \/ TopicOf[m] \in overlapped)

\* Message m is in one place: in one buffer, or received, once.
Single(m) ==
  /\ received[m] <= 1
  /\ \A i, j \in SubIds : m \in buffer[i] /\ m \in buffer[j] => i = j
  /\ \A i \in SubIds : m \in buffer[i] => received[m] = 0

\* A message is on its way to the subscriptions, or in one place if not excused.
PlaceInv ==
  \A m \in Msgs :
    /\ mstate[m] # "out" => received[m] = 0 /\ \A i \in SubIds : m \notin buffer[i]
    /\ ~Excused(m) => Single(m)

CallInv == TypeInv /\ ApartInv /\ UnrecordedInv /\ OpenInv

IInv == CallInv /\ PlaceInv

-----------------------------------------------------------------------------
\* No message is on its way and nothing is subscribed at first.
LEMMA InitIInv == Init => IInv
<1> SUFFICES ASSUME Init PROVE IInv
  OBVIOUS
<1> USE NodeTopicsAssumption DEF Init, SubIds, Idle, Call
<1>1. TypeInv
  BY DEF TypeInv
<1>2. ApartInv /\ UnrecordedInv /\ OpenInv /\ PlaceInv
  BY DEF ApartInv, UnrecordedInv, OpenInv, Opening, PlaceInv, Single
<1> QED BY <1>1, <1>2 DEF IInv, CallInv

\* What a caller's entry says of the call it is in.
LEMMA CallShape ==
  ASSUME TypeInv, NEW c \in Callers
  PROVE  \/ call[c] = Idle /\ call[c].op = "idle" /\ call[c].topic = "none"
         \/ /\ call[c] # Idle
            /\ call[c].op \in {"subscribe", "register", "start", "cancel"}
            /\ call[c].topic \in Topics /\ call[c].topic # "none"
            /\ call[c].id \in 0..MaxSubs
BY NodeTopicsAssumption DEF TypeInv, Calls, Idle, Call

\* An entry built from the fields of a call is a call.
LEMMA CallTyped ==
  ASSUME NEW o \in {"subscribe", "register", "start", "cancel"}, NEW t \in Topics,
         NEW i \in 0..MaxSubs
  PROVE  /\ Call(o, t, i) \in Calls
         /\ Call(o, t, i).op = o /\ Call(o, t, i).topic = t /\ Call(o, t, i).id = i
BY DEF Calls, Call

\* A topic whose Subscribes did not overlap has at most one open subscription
\* while no Unsubscribe of it has yet to cancel.
LEMMA OneOpen ==
  ASSUME CallInv, NEW t \in Topics \ overlapped, ~Cancelling(t),
         NEW i \in SubIds, NEW j \in SubIds, open[i] = t, open[j] = t
  PROVE  i = j
<1>1. ASSUME NEW k \in SubIds, open[k] = t
      PROVE  subs[t] = k \/ \E c \in Callers : Opening(c, t) /\ call[c].id = k
  BY <1>1 DEF CallInv, OpenInv, Accounts, Opening, Cancelling
<1>2. i # 0 /\ j # 0
  BY NodeTopicsAssumption DEF SubIds
<1>3. \A c \in Callers : Opening(c, t) => subs[t] = 0
  BY DEF CallInv, UnrecordedInv
<1>4. \A c, d \in Callers : Opening(c, t) /\ Opening(d, t) => c = d
  BY DEF CallInv, ApartInv
<1> QED BY <1>1, <1>2, <1>3, <1>4

-----------------------------------------------------------------------------
\* The bump of the history counter keeps its type, and counts a first call.
LEMMA BumpOnce ==
  ASSUME TypeInv, NEW m \in Msgs, Bump(m)
  PROVE  /\ received' \in [Msgs -> 0..2]
         /\ received[m] = 0 => received'[m] = 1
         /\ \A n \in Msgs \ {m} : received'[n] = received[n]
BY DEF TypeInv, Bump

\* Every step keeps the types.
LEMMA NextType == TypeInv /\ [Next]_vars => TypeInv'
<1> SUFFICES ASSUME TypeInv, [Next]_vars PROVE TypeInv'
  OBVIOUS
<1> USE NodeTopicsAssumption DEF TypeInv, mapVars, msgVars, closeVars, SubIds
<1>1. ASSUME NEW c \in Callers, NEW t \in Topics,
             Join(c, t) \/ JoinFails(c, t) \/ SubscribeCheck(c, t) \/ Unsubscribe(c, t)
      PROVE  TypeInv'
  <2>1. CASE Join(c, t) \/ JoinFails(c, t)
    BY <2>1 DEF Join, JoinFails
  <2>2. CASE SubscribeCheck(c, t)
    <3>1. call' \in [Callers -> {Idle} \cup Calls]
      BY <2>2, CallTyped DEF SubscribeCheck
    <3> QED BY <2>2, <3>1 DEF SubscribeCheck
  <2>3. CASE Unsubscribe(c, t)
    <3>1. call' \in [Callers -> {Idle} \cup Calls]
      BY <2>3, CallTyped DEF Unsubscribe
    <3> QED BY <2>3, <3>1 DEF Unsubscribe
  <2> QED BY <1>1, <2>1, <2>2, <2>3
<1>2. ASSUME NEW c \in Callers,
             \/ SubscribeOpen(c) \/ SubscribeFails(c) \/ SubscribeRegister(c)
             \/ SubscribeStart(c) \/ UnsubscribeCancel(c)
      PROVE  TypeInv'
  <2>1. CASE SubscribeOpen(c)
    <3>1. call[c].topic \in Topics /\ used + 1 \in 0..MaxSubs
      BY <2>1, CallShape DEF SubscribeOpen
    <3>2. call' \in [Callers -> {Idle} \cup Calls]
      BY <2>1, <3>1, CallTyped DEF SubscribeOpen
    <3> QED BY <2>1, <3>1, <3>2 DEF SubscribeOpen
  <2>2. CASE SubscribeRegister(c)
    <3>1. call[c].topic \in Topics /\ call[c].id \in 0..MaxSubs
      BY <2>2, CallShape DEF SubscribeRegister
    <3>2. call' \in [Callers -> {Idle} \cup Calls]
      BY <2>2, <3>1, CallTyped DEF SubscribeRegister
    <3> QED BY <2>2, <3>1, <3>2 DEF SubscribeRegister
  <2>3. CASE SubscribeFails(c) \/ SubscribeStart(c) \/ UnsubscribeCancel(c)
    BY <2>3 DEF SubscribeFails, SubscribeStart, UnsubscribeCancel
  <2> QED BY <1>2, <2>1, <2>2, <2>3
<1>3. ASSUME NEW c \in Callers, NEW m \in Msgs, Publish(c, m)
      PROVE  TypeInv'
  BY <1>3 DEF Publish, Forward
<1>4. ASSUME NEW m \in Msgs, arrive(m)
      PROVE  TypeInv'
  BY <1>4 DEF arrive
<1>5. ASSUME NEW m \in Msgs, verify(m)
      PROVE  TypeInv'
  <2>1. CASE TopicOf[m] \in PartialTopics
    BY <1>5, <2>1, BumpOnce DEF verify
  <2>2. CASE TopicOf[m] \notin PartialTopics
    <3>1. Forward(m) /\ mstate' = [mstate EXCEPT ![m] = "out"]
      BY <1>5, <2>2 DEF verify
    <3>2. buffer' \in [SubIds -> SUBSET Msgs]
      BY <3>1 DEF Forward
    <3>3. UNCHANGED <<subs, open, used, call, received>>
      BY <1>5, <2>2, Zenon DEF verify
    <3> QED BY <3>1, <3>2, <3>3
  <2> QED BY <2>1, <2>2
<1>6. ASSUME NEW i \in SubIds, receive(i)
      PROVE  TypeInv'
  BY <1>6, BumpOnce DEF receive
<1>7. ASSUME NEW i \in SubIds, receiveExit(i)
      PROVE  TypeInv'
  BY <1>7 DEF receiveExit
<1>8. CASE Close
  BY <1>8 DEF Close, CloseCancel, CloseWaited, CloseCopy, CloseStop, CloseDone
<1>9. CASE UNCHANGED vars
  BY <1>9 DEF vars
<1> QED BY <1>1, <1>2, <1>3, <1>4, <1>5, <1>6, <1>7, <1>8, <1>9, NodeTopicsAssumption DEF Next

\* Every step keeps each open subscription accounted for.
LEMMA NextCallInv == CallInv /\ [Next]_vars => CallInv'
<1> SUFFICES ASSUME CallInv, [Next]_vars PROVE ApartInv' /\ UnrecordedInv' /\ OpenInv'
  BY NextType DEF CallInv
<1> USE NodeTopicsAssumption DEF CallInv, ApartInv, UnrecordedInv, OpenInv, Accounts, Opening
<1>1. ASSUME NEW c \in Callers, NEW t \in Topics, SubscribeCheck(c, t)
      PROVE  ApartInv' /\ UnrecordedInv' /\ OpenInv'
  <2>1. CASE Subscribed(t)
    BY <1>1, <2>1 DEF SubscribeCheck
  <2>2. CASE ~Subscribed(t)
    <3>1. /\ subs[t] = 0 /\ UNCHANGED <<subs, open>>
          /\ call[c] = Idle /\ call'[c] = Call("subscribe", t, 0)
          /\ \A d \in Callers \ {c} : call'[d] = call[d]
          /\ overlapped \subseteq overlapped'
          /\ Subscribing(t) => t \in overlapped'
      BY <1>1, <2>2 DEF SubscribeCheck, Subscribed, TypeInv
    <3>2. call[c].op = "idle" /\ call'[c].op = "subscribe" /\ call'[c].topic = t
      BY <3>1 DEF Idle, Call
    <3>3. ASSUME NEW u \in Topics \ overlapped', NEW d \in Callers, Opening(d, u)'
          PROVE  (d = c /\ u = t) \/ (Opening(d, u) /\ u # t)
      <4>1. CASE d = c
        BY <3>2, <3>3, <4>1
      <4>2. CASE d # c
        <5>1. Opening(d, u)
          BY <3>1, <3>3, <4>2
        <5>2. u = t => Subscribing(t)
          BY <5>1 DEF Subscribing
        <5> QED BY <3>1, <3>3, <5>1, <5>2
      <4> QED BY <4>1, <4>2
    <3>4. ApartInv' /\ UnrecordedInv'
      BY <3>1, <3>3
    <3>5. OpenInv'
      BY <3>1, <3>2
    <3> QED BY <3>4, <3>5
  <2> QED BY <2>1, <2>2
<1>2. ASSUME NEW c \in Callers, NEW t \in Topics, Unsubscribe(c, t)
      PROVE  ApartInv' /\ UnrecordedInv' /\ OpenInv'
  BY <1>2, CallShape DEF Unsubscribe, TypeInv, Idle, Call
<1>3. ASSUME NEW c \in Callers, SubscribeOpen(c)
      PROVE  ApartInv' /\ UnrecordedInv' /\ OpenInv'
  <2>0. PICK n \in SubIds : n = used + 1
    BY <1>3 DEF SubscribeOpen, TypeInv, SubIds
  <2>1. /\ call[c].topic \in Topics /\ n = used + 1
        /\ call[c].op = "subscribe"
    BY <1>3, <2>0, CallShape DEF SubscribeOpen, TypeInv
  <2>2. /\ call'[c].op = "register" /\ call'[c].topic = call[c].topic
        /\ call'[c].id = n /\ open'[n] = call[c].topic
    BY <1>3, <2>1 DEF SubscribeOpen, TypeInv, Call
  <2>3. /\ \A d \in Callers \ {c} : call'[d] = call[d]
        /\ \A i \in SubIds \ {n} : open'[i] = open[i]
        /\ UNCHANGED <<subs, overlapped>>
    BY <1>3, <2>1 DEF SubscribeOpen, TypeInv
  <2>4. ApartInv' /\ UnrecordedInv'
    BY <2>1, <2>2, <2>3
  <2>5. OpenInv'
    <3>1. Accounts(c, n)'
      BY <2>1, <2>2
    <3>2. ASSUME NEW i \in SubIds, i # n, open[i] \in Topics \ overlapped, subs[open[i]] # i
          PROVE  \E d \in Callers : Accounts(d, i)'
      BY <2>1, <2>3, <3>2
    <3> QED BY <2>1, <2>3, <3>1, <3>2
  <2> QED BY <2>4, <2>5
<1>4. ASSUME NEW c \in Callers, SubscribeRegister(c)
      PROVE  ApartInv' /\ UnrecordedInv' /\ OpenInv'
  <2>1. /\ call[c].op = "register" /\ call[c].topic \in Topics
        /\ call'[c].op = "start"
        /\ \A d \in Callers \ {c} : call'[d] = call[d]
        /\ subs'[call[c].topic] = call[c].id
        /\ \A t \in Topics \ {call[c].topic} : subs'[t] = subs[t]
        /\ UNCHANGED <<open, overlapped>>
    BY <1>4, CallShape DEF SubscribeRegister, TypeInv, Call
  <2>2. ASSUME NEW t \in Topics \ overlapped, NEW d \in Callers, Opening(d, t)'
        PROVE  Opening(d, t) /\ d # c /\ t # call[c].topic
    BY <2>1, <2>2
  <2>3. ApartInv' /\ UnrecordedInv'
    BY <2>1, <2>2
  <2>4. OpenInv'
    BY <2>1 DEF SubIds
  <2> QED BY <2>3, <2>4
<1>5. ASSUME NEW c \in Callers, SubscribeStart(c) \/ SubscribeFails(c)
      PROVE  ApartInv' /\ UnrecordedInv' /\ OpenInv'
  BY <1>5, CallShape DEF SubscribeStart, SubscribeFails, TypeInv, Idle, Call
<1>6. ASSUME NEW c \in Callers, UnsubscribeCancel(c)
      PROVE  ApartInv' /\ UnrecordedInv' /\ OpenInv'
  BY <1>6, CallShape DEF UnsubscribeCancel, TypeInv, Idle, Call
<1>7. CASE CloseCopy
  BY <1>7, CallShape DEF CloseCopy, TypeInv
<1>8. CASE UNCHANGED <<subs, open, call, overlapped>>
  BY <1>8
<1>9. CASE \/ \E c \in Callers, t \in Topics : Join(c, t) \/ JoinFails(c, t)
           \/ \E c \in Callers, m \in Msgs : Publish(c, m)
           \/ \E m \in Msgs : arrive(m) \/ verify(m)
           \/ \E i \in SubIds : receive(i) \/ receiveExit(i)
           \/ CloseCancel \/ CloseWaited \/ CloseDone \/ \E class \in Classes : CloseStop(class)
           \/ UNCHANGED vars
  BY <1>8, <1>9, Zenon
     DEF Join, JoinFails, Publish, arrive, verify, receive, receiveExit, CloseCancel, CloseWaited,
         CloseDone, CloseStop, vars
<1> QED BY <1>1, <1>2, <1>3, <1>4, <1>5, <1>6, <1>7, <1>9, Zenon DEF Next, Close

\* The two histories only grow.
LEMMA NextHistory == [Next]_vars => overlapped \subseteq overlapped' /\ crossed \subseteq crossed'
BY DEF Next, vars, msgVars, Join, JoinFails, SubscribeCheck, Unsubscribe, SubscribeOpen,
       SubscribeFails, SubscribeRegister, SubscribeStart, UnsubscribeCancel, Publish, Cross, arrive,
       verify, receive, receiveExit, Close, CloseCancel, CloseWaited, CloseCopy, CloseDone,
       CloseStop

\* A message that goes out lands in the one buffer of its topic, unless excused.
LEMMA ForwardOnce ==
  ASSUME CallInv, PlaceInv, NEW m \in Msgs, mstate[m] # "out",
         overlapped \subseteq overlapped', crossed \subseteq crossed',
         mstate' = [mstate EXCEPT ![m] = "out"], Forward(m), Cross(m), UNCHANGED received,
         TopicOf[m] \notin PartialTopics
  PROVE  PlaceInv'
<1>1. ASSUME ~Excused(m)'
      PROVE  \A i, j \in SubIds : i \in OpenOn(TopicOf[m]) /\ j \in OpenOn(TopicOf[m]) => i = j
  <2>1. TopicOf[m] \in Topics \ overlapped /\ ~Cancelling(TopicOf[m])
    BY <1>1, NodeTopicsAssumption DEF Excused, Cross
  <2> QED BY <2>1, OneOpen DEF OpenOn
<1>2. /\ \A i \in SubIds : m \in buffer'[i] => i \in OpenOn(TopicOf[m])
      /\ \A i \in SubIds, n \in Msgs \ {m} : n \in buffer'[i] => n \in buffer[i]
  BY DEF Forward, PlaceInv
<1>3. ~Excused(m)' => Single(m)'
  BY <1>1, <1>2 DEF PlaceInv, Single
<1>4. ASSUME NEW n \in Msgs \ {m}, ~Excused(n)'
      PROVE  Single(n)'
  <2>1. Single(n)
    BY <1>4 DEF PlaceInv, Excused
  <2> QED BY <1>2, <2>1 DEF Single
<1>5. \A n \in Msgs : mstate'[n] # "out" => n # m /\ mstate[n] # "out"
  BY DEF CallInv, TypeInv
<1> QED BY <1>2, <1>3, <1>4, <1>5 DEF PlaceInv

\* Every step keeps each message in one place.
LEMMA NextPlaceInv == IInv /\ [Next]_vars => PlaceInv'
<1> SUFFICES ASSUME IInv, [Next]_vars PROVE PlaceInv'
  OBVIOUS
<1> USE DEF IInv
<1>0. /\ overlapped \subseteq overlapped' /\ crossed \subseteq crossed'
      /\ \A m \in Msgs : ~Excused(m)' => ~Excused(m)
  BY NextHistory DEF Excused
<1>1. ASSUME NEW c \in Callers, NEW m \in Msgs, Publish(c, m)
      PROVE  PlaceInv'
  BY <1>0, <1>1, ForwardOnce DEF Publish
<1>2. ASSUME NEW m \in Msgs, arrive(m)
      PROVE  PlaceInv'
  BY <1>0, <1>2 DEF arrive, PlaceInv, Single, CallInv, TypeInv
<1>3. ASSUME NEW m \in Msgs, verify(m)
      PROVE  PlaceInv'
  <2>1. CASE TopicOf[m] \in PartialTopics
    <3>1. Bump(m) /\ UNCHANGED buffer /\ mstate' = [mstate EXCEPT ![m] = "out"]
          /\ mstate[m] # "out"
      BY <1>3, <2>1 DEF verify
    <3> QED BY <1>0, <3>1, BumpOnce DEF PlaceInv, Single, CallInv, TypeInv
  <2>2. CASE TopicOf[m] \notin PartialTopics
    BY <1>0, <1>3, <2>2, ForwardOnce DEF verify
  <2> QED BY <2>1, <2>2
<1>4. ASSUME NEW i \in SubIds, receive(i)
      PROVE  PlaceInv'
  <2>1. PICK m \in buffer[i] : buffer' = [buffer EXCEPT ![i] = @ \ {m}] /\ Bump(m)
    BY <1>4 DEF receive
  <2>2. m \in Msgs /\ UNCHANGED mstate /\ mstate[m] = "out"
    BY <1>4, <2>1 DEF receive, CallInv, TypeInv, PlaceInv
  <2>3. ~Excused(m)' => received[m] = 0 /\ \A j \in SubIds : m \notin buffer'[j]
    BY <1>0, <2>1, <2>2 DEF PlaceInv, Single, CallInv, TypeInv
  <2>4. \A j \in SubIds, n \in Msgs : n \in buffer'[j] => n \in buffer[j]
    BY <2>1 DEF CallInv, TypeInv
  <2>5. /\ received[m] = 0 => received'[m] = 1
        /\ \A n \in Msgs \ {m} : received'[n] = received[n]
    BY <2>1, <2>2, BumpOnce DEF CallInv
  <2>6. ASSUME NEW n \in Msgs, ~Excused(n)'
        PROVE  Single(n)'
    BY <1>0, <2>3, <2>4, <2>5, <2>6 DEF PlaceInv, Single
  <2>7. ASSUME NEW n \in Msgs, mstate'[n] # "out"
        PROVE  received'[n] = 0 /\ \A j \in SubIds : n \notin buffer'[j]
    BY <2>2, <2>4, <2>5, <2>7 DEF PlaceInv
  <2> QED BY <2>6, <2>7 DEF PlaceInv
<1>5. CASE UNCHANGED <<buffer, mstate, received>>
  BY <1>0, <1>5 DEF PlaceInv, Single
<1>6. CASE \/ \E c \in Callers :
                \/ \E t \in Topics :
                     Join(c, t) \/ JoinFails(c, t) \/ SubscribeCheck(c, t) \/ Unsubscribe(c, t)
                \/ SubscribeOpen(c) \/ SubscribeFails(c) \/ SubscribeRegister(c)
                \/ SubscribeStart(c) \/ UnsubscribeCancel(c)
           \/ \E i \in SubIds : receiveExit(i)
           \/ Close \/ UNCHANGED vars
  BY <1>5, <1>6, Zenon
     DEF Join, JoinFails, SubscribeCheck, Unsubscribe, SubscribeOpen, SubscribeFails,
         SubscribeRegister, SubscribeStart, UnsubscribeCancel, receiveExit, Close, CloseCancel,
         CloseWaited, CloseCopy, CloseStop, CloseDone, vars, msgVars
<1> QED BY <1>1, <1>2, <1>3, <1>4, <1>6, NodeTopicsAssumption, Zenon DEF Next

\* The invariant holds throughout.
LEMMA AlwaysIInv == Spec => []IInv
<1>1. IInv /\ [Next]_vars => IInv'
  BY NextCallInv, NextPlaceInv DEF IInv
<1> QED BY InitIInv, <1>1, PTL DEF Spec, Safety

-----------------------------------------------------------------------------
\* Node.Subscribe and Node.Unsubscribe lose no subscription, whatever topics and
\* callers there are, whichever calls the library refuses, and however Unsubscribe
\* and Close overlap the other calls, unless two Subscribes of one topic overlap.
THEOREM SubscriptionsAccounted == Spec => []NoLeakedSubscription
<1>1. IInv => NoLeakedSubscription
  BY DEF IInv, CallInv, TypeInv, OpenInv, Accounts, NoLeakedSubscription, InCall
<1> QED BY AlwaysIInv, <1>1, PTL

\* The receive goroutines and markValidated hand a message to OnReceive at most
\* once, however often its topic is resubscribed, unless it was let through while
\* an Unsubscribe of its topic had yet to cancel or after Subscribes overlapped.
THEOREM EachReceivedOnce == Spec => []ReceivedOnce
<1>1. IInv => ReceivedOnce
  BY DEF IInv, CallInv, TypeInv, PlaceInv, Single, Excused, ReceivedOnce
<1> QED BY AlwaysIInv, <1>1, PTL
=============================================================================
