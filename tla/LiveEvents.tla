------------------------------- MODULE LiveEvents -------------------------------
(* LiveEventBroker of events/broker.py and the WebSocket handlers of             *)
(* api/routes/events.py that read from it.  publish() runs on the audit worker   *)
(* and hands every event to the one event loop of the server as a callback; the  *)
(* loop runs the callbacks in order, and between any two of them the handlers,   *)
(* up to their next await.  Events are numbers in the order they are published.  *)
EXTENDS Naturals, Sequences, FiniteSets, Functions

CONSTANTS Connections,    \* each is made once; a client that returns is another
          Readers,        \* those whose client reads what it is sent
          MaxSubscribers, \* max_subscribers
          QueueCapacity,  \* queue_capacity
          MaxPublished    \* bound on the events published

ASSUME LiveEventsAssumption == /\ Readers \subseteq Connections
                               /\ MaxSubscribers \in Nat \ {0} /\ QueueCapacity \in Nat \ {0}
                               /\ MaxPublished \in Nat

VARIABLES subscribers, \* the connections in _subscribers; publish() may take them in any order
          queues,      \* the queue of each subscription
          published,   \* the number of the last event
          todo, stale, \* publish(): the subscribers left, and those whose loop is closed
          ready, open, \* the event loop: callbacks to run, and whether it is there
          handler,     \* where live_events() is for each connection
          there,       \* the connections whose client has not gone away
          got          \* history: the last event taken for a connection, or the last before it

broker == <<subscribers, published, todo, stale>>
loop == <<queues, ready, open>>
liveVars == <<broker, loop, handler, there, got>>

Numbers == 1..MaxPublished
Served == {c \in Connections : handler[c] \in {"waiting", "sending"}}
-----------------------------------------------------------------------------
(* Slips, one mistake each; none is part of LiveNext.                        *)

\* A full queue refuses what comes.
OfferedNone(q, n) == IF Len(q) < QueueCapacity THEN Append(q, n) ELSE q

\* A client that is gone is waited for without a heartbeat.
SilentNever(c) == FALSE

-----------------------------------------------------------------------------
\* _offer_latest(): the oldest event makes room.
Offered(q, n) == Append(IF Len(q) = QueueCapacity THEN Tail(q) ELSE q, n)

\* An event in the queue wakes its handler.
Woken(c) == queues[c] # <<>>

\* The heartbeat: nothing came for HEARTBEAT_SECONDS.
Silent(c) == queues[c] = <<>>

Ends(c) == /\ handler' = [handler EXCEPT ![c] = "over"]
           /\ subscribers' = subscribers \ {c}
           /\ queues' = [queues EXCEPT ![c] = <<>>] /\ got' = [got EXCEPT ![c] = 0]

LiveInit == /\ subscribers = {} /\ published = 0 /\ todo = {} /\ stale = {}
            /\ queues = [c \in Connections |-> <<>>] /\ ready = <<>> /\ open = TRUE
            /\ handler = [c \in Connections |-> "new"]
            /\ there = Connections
            /\ got = [c \in Connections |-> 0]
-----------------------------------------------------------------------------
(* The audit worker.                                                         *)

\* publish(): a copy of the subscribers, under the lock.
Publish == /\ todo = {} /\ stale = {} /\ published < MaxPublished
           /\ published' = published + 1
           /\ todo' = subscribers
           /\ UNCHANGED <<subscribers, stale, loop, handler, there, got>>

\* call_soon_threadsafe(), which raises once the loop is closed.
Post(c) == /\ c \in todo
           /\ todo' = todo \ {c}
           /\ IF open THEN ready' = Append(ready, <<c, published>>) /\ UNCHANGED stale
                      ELSE stale' = stale \cup {c} /\ UNCHANGED ready
           /\ UNCHANGED <<subscribers, published, queues, open, handler, there, got>>

Forget(c) == /\ todo = {} /\ c \in stale
             /\ stale' = stale \ {c} /\ subscribers' = subscribers \ {c}
             /\ UNCHANGED <<published, todo, loop, handler, there, got>>
-----------------------------------------------------------------------------
(* The event loop.                                                           *)

\* The callback of a subscription that has ended fills a queue nobody reads: left out.
Callback == /\ open /\ ready # <<>>
            /\ LET c == Head(ready)[1]
               IN  queues' = IF c \in Served THEN [queues EXCEPT ![c] = Offered(queues[c], Head(ready)[2])]
                                            ELSE queues
            /\ ready' = Tail(ready)
            /\ UNCHANGED <<broker, open, handler, there, got>>

\* subscribe() raises at its limit.
Admitted == Cardinality(subscribers) < MaxSubscribers

\* live_events() up to its first wait: authenticated, accepted, and a slot or none.
Connect(c) == /\ open /\ handler[c] = "new"
              /\ IF Admitted
                 THEN /\ subscribers' = subscribers \cup {c}
                      /\ handler' = [handler EXCEPT ![c] = "waiting"]
                      /\ got' = [got EXCEPT ![c] = published]
                 ELSE /\ handler' = [handler EXCEPT ![c] = "refused"]
                      /\ UNCHANGED <<subscribers, got>>
              /\ UNCHANGED <<published, todo, stale, loop, there>>

Receive(c) == /\ handler[c] = "waiting" /\ Woken(c)
              /\ queues' = [queues EXCEPT ![c] = Tail(queues[c])]
              /\ got' = [got EXCEPT ![c] = Head(queues[c])]
              /\ handler' = [handler EXCEPT ![c] = "sending"]
              /\ UNCHANGED <<broker, ready, open, there>>

Heartbeat(c) == /\ handler[c] = "waiting" /\ Silent(c)
                /\ handler' = [handler EXCEPT ![c] = "sending"]
                /\ UNCHANGED <<broker, loop, there, got>>

Sent(c) == /\ handler[c] = "sending" /\ c \in there
           /\ handler' = [handler EXCEPT ![c] = "waiting"]
           /\ UNCHANGED <<broker, loop, there, got>>

\* WebSocketDisconnect: only a send tells that the client has gone.
Disconnected(c) == /\ handler[c] = "sending" /\ c \notin there
                   /\ Ends(c)
                   /\ UNCHANGED <<published, todo, stale, ready, open, there>>

Leave(c) == /\ c \in there /\ handler[c] \in {"waiting", "sending"}
            /\ there' = there \ {c}
            /\ UNCHANGED <<broker, loop, handler, got>>

\* The server stops while the audit worker has still events to publish.  Handlers
\* that are cancelled give up their subscription, those that are just dropped do not.
CloseLoop == /\ open /\ open' = FALSE /\ ready' = <<>>
             /\ \E dropped \in SUBSET subscribers : subscribers' = dropped
             /\ handler' = [c \in Connections |-> "over"]
             /\ queues' = [c \in Connections |-> <<>>] /\ got' = [c \in Connections |-> 0]
             /\ there' = {}
             /\ UNCHANGED <<published, todo, stale>>

LiveNext == \/ Publish \/ Callback \/ CloseLoop
            \/ \E c \in Connections :
                  \/ Post(c) \/ Forget(c) \/ Connect(c) \/ Receive(c) \/ Heartbeat(c)
                  \/ Sent(c) \/ Disconnected(c) \/ Leave(c)

\* The publisher and the loop go on; a handler that waits is woken by an event or by
\* its timeout; a send to a client that is gone raises.  A send to a client that does
\* not read may take for ever.
LiveFairness == /\ WF_liveVars(Callback)
                /\ \A c \in Connections : /\ WF_liveVars(Post(c))
                                          /\ WF_liveVars(Forget(c))
                                          /\ WF_liveVars(Receive(c) \/ Heartbeat(c))
                                          /\ WF_liveVars(Disconnected(c))
                /\ \A c \in Readers : WF_liveVars(Sent(c))

LiveSpec == LiveInit /\ [][LiveNext]_liveVars /\ LiveFairness
-----------------------------------------------------------------------------
\* Queues keep to their capacity and subscriptions to theirs; a handler that runs has
\* its subscription.
LiveTypeOK == /\ \A c \in Connections : /\ Len(queues[c]) <= QueueCapacity
                                        /\ Range(queues[c]) \subseteq Numbers
              /\ Cardinality(subscribers) <= MaxSubscribers
              /\ open => subscribers = Served
              /\ UNION {subscribers, todo, stale, there} \subseteq Connections
              /\ \A i \in DOMAIN ready : ready[i] \in Connections \X Numbers
              /\ published \in 0..MaxPublished /\ \A c \in Connections : got[c] \in 0..published

\* What is on its way to a client: in its queue, among the callbacks, and still with
\* the publisher.
Calls(c) == {i \in DOMAIN ready : ready[i][1] = c}
Posted(c) == {ready[i][2] : i \in Calls(c)}
Unposted(c) == IF c \in todo THEN {published} ELSE {}
Underway(c) == UNION {Range(queues[c]), Posted(c), Unposted(c)}

\* One event after the other, in the queue, then in the callbacks, then at the publisher.
OneAfterAnother(c) ==
    /\ \A i, j \in DOMAIN queues[c] : i < j => queues[c][i] < queues[c][j]
    /\ \A i, j \in Calls(c) : i < j => ready[i][2] < ready[j][2]
    /\ \A m \in Range(queues[c]), n \in Posted(c) \cup Unposted(c) : m < n
    /\ \A m \in Posted(c), n \in Unposted(c) : m < n

\* What is on its way is the latest events in order and without a hole, up to the last
\* one published; and if the client has missed some before them, its queue is full.  A
\* slow client loses the oldest events and nothing else, whatever the other clients do.
LatestKept == \A c \in Served :
    /\ OneAfterAnother(c)
    /\ Underway(c) \subseteq (got[c] + 1)..published
    /\ \A n \in Underway(c) : n..published \subseteq Underway(c)
    /\ Underway(c) # (got[c] + 1)..published => Len(queues[c]) = QueueCapacity

\* What holds of every queue at every moment.
QueuesInv == LiveTypeOK /\ LatestKept

\* A client that reads catches up with the events, again and again, as long as it stays.
CaughtUp(c) == got[c] = published /\ handler[c] = "waiting"
LatestArrives == \A c \in Readers : []<>(c \in Served \cap there => CaughtUp(c))

\* A client that goes away while nothing happens frees its slot for another.
SlotFreed == \A c \in Connections : (c \in Served /\ c \notin there) ~> c \notin subscribers \/ ~open

\* Clients that stay get the events, and those that leave make room.
LiveProgress == LatestArrives /\ SlotFreed
=============================================================================
