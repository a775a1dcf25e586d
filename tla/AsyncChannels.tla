---------------------------- MODULE AsyncChannels ----------------------------
(***************************************************************************)
(* The facade's channels (async_engine.rs: channel, unbounded_channel,     *)
(* oneshot_channel; async_engine/broadcast.rs).  A behaviour has one       *)
(* channel of one kind, one receiver for the point-to-point kinds, several *)
(* subscribers for a broadcast, and producers that are tasks of a runtime  *)
(* or plain threads.  The n-th value sent is the number n.                 *)
(***************************************************************************)
EXTENDS Naturals, Sequences, FiniteSets, SequencesExt

CONSTANTS Producers, Subscribers,
          Capacity,   \* of the bounded channel and of the broadcast ring
          MaxSends    \* bound: values created

VARIABLES
  kind,       \* bounded, unbounded, oneshot, broadcast
  inRuntime,  \* producers whose thread has entered a runtime
  senders,    \* producers whose sending half is alive
  open,       \* the receiving half: open, closed (still drains), dropped
  made,       \* values created so far
  parked,     \* producer -> the value its send or blocking_send waits with, 0
  ring,       \* values buffered (point to point) or retained (broadcast)
  base,       \* broadcast: number of values already displaced from the ring
  cursor,     \* subscriber -> values it has passed, or Out when unsubscribed
  since,      \* subscriber -> values made when it subscribed
  early,      \* subscribers that were given an older value
  blocked,    \* producers whose thread is parked inside blocking_send
  fate        \* value -> waiting, buffered, received, returned, dropped, lost

vars == <<kind, inRuntime, senders, open, made, parked, ring, base, cursor, since, early, blocked, fate>>

Out == MaxSends + 1
Values == 1 .. MaxSends
Kinds == {"bounded", "unbounded", "oneshot", "broadcast"}

TypeOK ==
  /\ kind \in Kinds /\ inRuntime \subseteq Producers /\ senders \subseteq Producers
  /\ open \in {"open", "closed", "dropped"} /\ made \in 0 .. MaxSends
  /\ parked \in [Producers -> 0 .. MaxSends]
  /\ Range(ring) \subseteq Values /\ base \in 0 .. MaxSends
  /\ cursor \in [Subscribers -> 0 .. Out] /\ since \in [Subscribers -> 0 .. MaxSends]
  /\ early \subseteq Subscribers /\ blocked \subseteq Producers
  /\ fate \in [Values -> {"none", "waiting", "buffered", "received", "returned", "dropped", "lost"}]

\* channel, unbounded_channel, oneshot_channel and broadcast_channel hand out
\* one sender and one receiver; senders of all but the oneshot are cloned.
Init ==
  /\ kind \in Kinds /\ inRuntime \in SUBSET Producers
  /\ senders \in {p \in SUBSET Producers : p # {} /\ (kind = "oneshot" => Cardinality(p) = 1)}
  /\ open = "open" /\ made = 0 /\ parked = [p \in Producers |-> 0]
  /\ ring = <<>> /\ base = 0 /\ fate = [v \in Values |-> "none"]
  /\ since = [s \in Subscribers |-> 0] /\ early = {} /\ blocked = {}
  /\ cursor = [s \in Subscribers |-> IF s = CHOOSE x \in Subscribers : TRUE THEN 0 ELSE Out]

Full == IF kind = "unbounded" THEN FALSE ELSE Len(ring) = Capacity
Create(p) == p \in senders /\ parked[p] = 0 /\ made < MaxSends /\ made' = made + 1
Push == /\ ring' = Append(ring, made + 1) /\ fate' = [fate EXCEPT ![made + 1] = "buffered"]
GiveBack == /\ fate' = [fate EXCEPT ![made + 1] = "returned"] /\ UNCHANGED ring
Park(p) == /\ parked' = [parked EXCEPT ![p] = made + 1]
           /\ fate' = [fate EXCEPT ![made + 1] = "waiting"] /\ UNCHANGED ring

(* --------------------------- point to point ----------------------------- *)
\* Sender::send: waits for capacity; a closed channel returns the value.
Send(p) ==
  /\ kind = "bounded" /\ p \in inRuntime /\ Create(p)
  /\ IF open # "open" THEN GiveBack /\ UNCHANGED parked
     ELSE IF Full THEN Park(p) ELSE Push /\ UNCHANGED parked
  /\ UNCHANGED <<kind, inRuntime, senders, open, base, cursor, since, early, blocked>>

\* Sender::blocking_send: refused on a thread that has entered a runtime
\* (AsyncContext), otherwise parks the thread until there is capacity.
BlockingSend(p) ==
  /\ kind = "bounded" /\ Create(p)
  /\ IF p \in inRuntime \/ open # "open" THEN GiveBack /\ UNCHANGED <<parked, blocked>>
     ELSE IF Full THEN Park(p) /\ blocked' = blocked \cup {p}
     ELSE Push /\ UNCHANGED <<parked, blocked>>
  /\ UNCHANGED <<kind, inRuntime, senders, open, base, cursor, since, early>>

Offer(p) ==
  /\ Create(p) /\ (IF open # "open" \/ Full THEN GiveBack ELSE Push)
  /\ UNCHANGED <<kind, inRuntime, open, parked, base, cursor, since, early, blocked>>

\* Sender::try_send: Full or Closed returns the value.
TrySend(p) == kind = "bounded" /\ Offer(p) /\ UNCHANGED senders

\* UnboundedSender::send never waits.
UnboundedSend(p) == kind = "unbounded" /\ Offer(p) /\ UNCHANGED senders

\* OneshotSender::send consumes the sender.
OneshotSend(p) == kind = "oneshot" /\ Offer(p) /\ senders' = senders \ {p}

\* A waiting send gets a slot, or the receiver closed and it gets its value
\* back.
Unpark(p) ==
  /\ parked[p] # 0 /\ (open # "open" \/ ~Full)
  /\ ring' = IF open = "open" THEN Append(ring, parked[p]) ELSE ring
  /\ fate' = [fate EXCEPT ![parked[p]] = IF open = "open" THEN "buffered" ELSE "returned"]
  /\ parked' = [parked EXCEPT ![p] = 0] /\ blocked' = blocked \ {p}
  /\ UNCHANGED <<kind, inRuntime, senders, open, made, base, cursor, since, early>>

\* Dropping the future of a waiting send drops its value with it.
CancelSend(p) ==
  /\ parked[p] # 0 /\ p \notin blocked
  /\ fate' = [fate EXCEPT ![parked[p]] = "returned"] /\ parked' = [parked EXCEPT ![p] = 0]
  /\ UNCHANGED <<kind, inRuntime, senders, open, made, ring, base, cursor, since, early, blocked>>

DropSender(p) ==
  /\ p \in senders /\ parked[p] = 0 /\ senders' = senders \ {p}
  /\ UNCHANGED <<kind, inRuntime, open, made, parked, ring, base, cursor, since, early, blocked, fate>>

\* The receiver is a task of a runtime with one worker thread.
Take ==
  /\ blocked \cap inRuntime = {} /\ open # "dropped" /\ ring # <<>>
  /\ fate' = [fate EXCEPT ![Head(ring)] = "received"] /\ ring' = Tail(ring)
  /\ UNCHANGED <<kind, inRuntime, senders, made, parked, base, cursor, since, early, blocked>>

\* Receiver::recv and try_recv.
Recv == kind = "bounded" /\ Take /\ UNCHANGED open

\* UnboundedReceiver::recv and try_recv.
UnboundedRecv == kind = "unbounded" /\ Take /\ UNCHANGED open

\* A oneshot receiver is used up by its value.
OneshotRecv == kind = "oneshot" /\ Take /\ open' = "dropped"

\* Receiver::close: no more sends, buffered values stay receivable.
Close ==
  /\ blocked \cap inRuntime = {} /\ kind \in {"bounded", "unbounded"} /\ open = "open" /\ open' = "closed"
  /\ UNCHANGED <<kind, inRuntime, senders, made, parked, ring, base, cursor, since, early, blocked, fate>>

\* The receiver is dropped with what it buffered.
DropReceiver ==
  /\ blocked \cap inRuntime = {} /\ kind # "broadcast" /\ open # "dropped" /\ open' = "dropped" /\ ring' = <<>>
  /\ fate' = [v \in Values |-> IF fate[v] = "buffered" THEN "dropped" ELSE fate[v]]
  /\ UNCHANGED <<kind, inRuntime, senders, made, parked, base, cursor, since, early, blocked>>

(* ------------------------------- broadcast ------------------------------ *)
Joined == {s \in Subscribers : cursor[s] # Out}

\* BroadcastSender::send: never waits; the oldest retained value is displaced,
\* and with no subscriber left the value is returned.
Publish(p) ==
  /\ kind = "broadcast" /\ Create(p)
  /\ IF Joined = {} THEN GiveBack /\ UNCHANGED base
     ELSE /\ ring' = IF Full THEN Append(Tail(ring), made + 1) ELSE Append(ring, made + 1)
          /\ base' = IF Full THEN base + 1 ELSE base
          /\ fate' = [fate EXCEPT ![made + 1] = "buffered"]
  /\ UNCHANGED <<kind, inRuntime, senders, open, parked, cursor, since, early, blocked>>

\* BroadcastSender::subscribe: only values sent after this call.
Subscribe(s) ==
  /\ kind = "broadcast" /\ senders # {} /\ cursor[s] = Out
  /\ cursor' = [cursor EXCEPT ![s] = base + Len(ring)]
  /\ since' = [since EXCEPT ![s] = made]
  /\ UNCHANGED <<kind, inRuntime, senders, open, made, parked, ring, base, early, blocked, fate>>

\* BroadcastReceiver::recv and try_recv: Lagged(n) advances to the oldest
\* retained value, otherwise the next value is cloned out.
Deliver(s) ==
  /\ kind = "broadcast" /\ cursor[s] # Out /\ cursor[s] < base + Len(ring)
  /\ cursor' = [cursor EXCEPT ![s] = IF @ < base THEN base ELSE @ + 1]
  /\ fate' = IF cursor[s] < base THEN fate
             ELSE [fate EXCEPT ![ring[cursor[s] - base + 1]] = "received"]
  /\ early' = IF cursor[s] >= base /\ ring[cursor[s] - base + 1] <= since[s]
              THEN early \cup {s} ELSE early
  /\ UNCHANGED <<kind, inRuntime, senders, open, made, parked, ring, base, since, blocked>>

\* BroadcastStream::poll_next: map sees every notification, lag included, and
\* the poll goes on past those it filters to the first it keeps.
StreamNext(s) ==
  /\ kind = "broadcast" /\ cursor[s] # Out
  /\ \E upto \in base + 1 .. base + Len(ring) :
       LET seen == {ring[k] : k \in {k \in 1 .. Len(ring) : cursor[s] < base + k /\ base + k <= upto}} IN
       /\ cursor[s] < upto /\ cursor' = [cursor EXCEPT ![s] = upto]
       /\ fate' = [v \in Values |-> IF v \in seen THEN "received" ELSE fate[v]]
       /\ early' = IF \E v \in seen : v <= since[s] THEN early \cup {s} ELSE early
  /\ UNCHANGED <<kind, inRuntime, senders, open, made, parked, ring, base, since, blocked>>

\* Dropping a subscription.
Unsubscribe(s) ==
  /\ kind = "broadcast" /\ cursor[s] # Out /\ cursor' = [cursor EXCEPT ![s] = Out]
  /\ UNCHANGED <<kind, inRuntime, senders, open, made, parked, ring, base, since, early, blocked, fate>>

Next ==
  \/ Recv \/ UnboundedRecv \/ OneshotRecv \/ Close \/ DropReceiver
  \/ \E p \in Producers : \/ Send(p) \/ BlockingSend(p) \/ TrySend(p) \/ UnboundedSend(p)
                          \/ OneshotSend(p) \/ Unpark(p)
                          \/ CancelSend(p) \/ DropSender(p) \/ Publish(p)
  \/ \E s \in Subscribers : Subscribe(s) \/ Deliver(s) \/ StreamNext(s) \/ Unsubscribe(s)

Spec == Init /\ [][Next]_vars

(* ------------------------------ properties ------------------------------ *)
\* Point to point: a value is with exactly one party, what send accepted is in
\* the buffer until it is received or the receiver itself goes, and close()
\* takes nothing away.  Broadcast: nobody is given a value that was sent
\* before they subscribed.
ChannelKeepsItsValues ==
  /\ \A v \in Values : fate[v] # "lost"
  /\ \A v \in Values : fate[v] = "waiting" => \E p \in Producers : parked[p] = v
  /\ kind # "broadcast" => ToSet(ring) = {v \in Values : fate[v] = "buffered"}
  /\ early = {}

\* Whoever waits for capacity can still be served: the thread the receiver
\* needs is never itself parked in blocking_send, and closing or dropping the
\* receiver ends every wait.
ParkedSendersAreServed ==
  \A p \in Producers : parked[p] # 0 =>
     \/ open # "open" \/ ~Full
     \/ blocked \cap inRuntime = {} /\ ring # <<>>
=============================================================================
