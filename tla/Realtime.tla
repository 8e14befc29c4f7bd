------------------------------ MODULE Realtime ------------------------------
(***************************************************************************)
(* The realtime hints of one API process: the Redis Pub/Sub backplane with *)
(* its listener task, the hub that fans a hint out to the websockets of a  *)
(* channel, and the websockets of GET /api/notifications/stream.           *)
(*                                                                         *)
(* A user is a channel (notification_channel) and the notification of that *)
(* user is its one hint, so a hint is the name of the user.                *)
(***************************************************************************)
EXTENDS Integers, FiniteSets

CONSTANTS
  Users,     \* users, in the order of their subscription ids
  Sockets,   \* websocket connections
  None

VARIABLES
  app,          \* lifespan: "running", "stopping" (hub gone from app.state), "stopped"
  listener,     \* the task of _listen
  topic,        \* hints Redis has sent to the listener's connection, still unread
  sending,      \* the hint that hub.publish is sending, and the sockets left
  socket,       \* how far stream_notifications is
  holder,       \* the user of the socket's session
  subscribers,  \* hub._subscribers
  owed          \* history: hints published while a socket could hear them

Hints == [user : Users, to : (SUBSET Sockets) \ {{}}]

hintVars == <<app, listener, topic, sending, socket, holder, subscribers, owed>>

RealtimeTypeOK ==
  /\ app \in {"running", "stopping", "stopped"}
  /\ listener \in {"connecting", "listening", "dead", "closed"}
  /\ topic \subseteq Users
  /\ sending \in Hints \cup {None}
  /\ socket \in [Sockets -> {"idle", "accepted", "open", "left", "done"}]
  /\ holder \in [Sockets -> Users \cup {None}]
  /\ subscribers \subseteq Sockets
  /\ owed \subseteq Sockets \X Users

\* realtime_notifications_lifespan: the hub, and the listener task started
RealtimeInit ==
  /\ app = "running"
  /\ listener = "connecting"
  /\ topic = {}
  /\ sending = None
  /\ socket = [k \in Sockets |-> "idle"]
  /\ holder = [k \in Sockets |-> None]
  /\ subscribers = {}
  /\ owed = {}

-----------------------------------------------------------------------------
(* The hub *)

Subscribe(k) == subscribers' = subscribers \cup {k}

Unsubscribe(k) == subscribers' = subscribers \ {k}

\* the subscribers of a channel, copied under the lock
SubscribersOf(u) == {k \in subscribers : holder[k] = u}

\* the sends that are still to come, by socket and hint
Underway == IF sending = None THEN {} ELSE sending.to \X {sending.user}

\* The sends of the copy run on when a subscriber has left meanwhile.
Publish(u) ==
  sending' = IF SubscribersOf(u) = {} THEN None
             ELSE [user |-> u, to |-> SubscribersOf(u)]

Sent(k) ==
  sending' = IF sending.to = {k} THEN None ELSE [sending EXCEPT !.to = @ \ {k}]

-----------------------------------------------------------------------------
(* The backplane *)

\* PUBLISH reaches a connection that is subscribed, and no other.
Broadcast(u) ==
  /\ topic' = IF listener = "listening" THEN topic \cup {u} ELSE topic
  /\ owed' = IF listener = "listening"
               THEN owed \cup ({k \in SubscribersOf(u) : socket[k] = "open"} \X {u})
               ELSE owed

\* _open_client and SUBSCRIBE, at the first or at a later attempt
Listen ==
  /\ listener = "connecting"
  /\ listener' = "listening"
  /\ UNCHANGED <<app, topic, sending, socket, holder, subscribers, owed>>

\* get_message and _decode_payload, then deliver(channel, message)
Receive(u) ==
  /\ listener = "listening"
  /\ sending = None
  /\ u \in topic
  /\ topic' = topic \ {u}
  /\ Publish(u)
  /\ UNCHANGED <<app, listener, socket, holder, subscribers, owed>>

\* RedisError: what the connection had not read is lost, and the listener
\* connects again after the reconnect delay
ConnectionLost ==
  /\ listener = "listening"
  /\ sending = None
  /\ listener' = "connecting"
  /\ topic' = {}
  /\ owed' = {}
  /\ UNCHANGED <<app, sending, socket, holder, subscribers>>

\* An exception of another type, from a send or from the loop, or one that the
\* aclose calls of the finally clause raise, ends the task for good. The other
\* sends of gather run on.
ListenerDies ==
  /\ listener # "dead" /\ app # "stopped"
  /\ listener' = "dead"
  /\ \/ sending = None /\ UNCHANGED sending
     \/ sending # None /\ \E k \in sending.to : Sent(k)
  /\ topic' = {}
  /\ owed' = owed \cap Underway'
  /\ UNCHANGED <<app, socket, holder, subscribers>>

\* the exception of a closed socket leaves gather and ends the listener task
SendRaises(k) ==
  /\ sending # None /\ k \in sending.to
  /\ Sent(k)
  /\ owed' = owed \ {<<k, sending.user>>}
  /\ IF socket[k] = "open" THEN UNCHANGED <<listener, topic>>
     ELSE listener' = "dead" /\ topic' = {}
  /\ UNCHANGED <<app, socket, holder, subscribers>>

\* _SafeWebSocketSubscriber.send: a closed socket is passed over
Send(k) ==
  /\ sending # None /\ k \in sending.to
  /\ Sent(k)
  /\ owed' = owed \ {<<k, sending.user>>}
  /\ UNCHANGED <<app, listener, topic, socket, holder, subscribers>>

-----------------------------------------------------------------------------
(* stream_notifications *)

\* authorised and accepted; without a session, or without the hub, the socket
\* is closed and nothing else happens
Accept(k, u) ==
  /\ socket[k] = "idle"
  /\ app = "running"
  /\ socket' = [socket EXCEPT ![k] = "accepted"]
  /\ holder' = [holder EXCEPT ![k] = u]
  /\ UNCHANGED <<app, listener, topic, sending, subscribers, owed>>

\* hub.subscribe raises once the hub is closed
Stream(k) ==
  /\ socket[k] = "accepted"
  /\ IF app = "stopped"
       THEN socket' = [socket EXCEPT ![k] = "done"] /\ UNCHANGED subscribers
       ELSE socket' = [socket EXCEPT ![k] = "open"] /\ Subscribe(k)
  /\ UNCHANGED <<app, listener, topic, sending, holder, owed>>

\* the client is gone before the route notices it
Disconnect(k) ==
  /\ socket[k] = "open"
  /\ socket' = [socket EXCEPT ![k] = "left"]
  /\ owed' = owed \ ({k} \X Users)
  /\ UNCHANGED <<app, listener, topic, sending, holder, subscribers>>

\* the finally clause
Leave(k) ==
  /\ socket[k] = "left"
  /\ socket' = [socket EXCEPT ![k] = "done"]
  /\ holder' = [holder EXCEPT ![k] = None]
  /\ Unsubscribe(k)
  /\ UNCHANGED <<app, listener, topic, sending, owed>>

-----------------------------------------------------------------------------
(* The end of the lifespan *)

\* the hub leaves app.state, and backplane.aclose cancels the listener
CloseBackplane ==
  /\ app = "running"
  /\ app' = "stopping"
  /\ listener' = IF listener = "dead" THEN "dead" ELSE "closed"
  /\ topic' = {}
  /\ sending' = None
  /\ owed' = {}
  /\ UNCHANGED <<socket, holder, subscribers>>

\* hub.aclose; not reached when backplane.aclose raises what ended the task
CloseHub ==
  /\ app = "stopping"
  /\ listener # "dead"
  /\ app' = "stopped"
  /\ subscribers' = {}
  /\ UNCHANGED <<listener, topic, sending, socket, holder, owed>>

\* what the process does while it runs
RealtimeStep ==
  \/ Listen
  \/ \E u \in Users : Receive(u)
  \/ \E k \in Sockets : Send(k) \/ Stream(k) \/ Disconnect(k) \/ Leave(k)
  \/ CloseHub

-----------------------------------------------------------------------------
(* Properties *)

\* A websocket closing at any moment, before or after the hub has copied its
\* subscribers, takes no hint from another one: a hint published while a socket
\* could hear it is on its way to that socket, unread in the topic or about to
\* be sent, until it arrives, its own client leaves, the Redis connection is
\* lost, or an exception that nobody expected ends the listener.
HintsReachOpenSockets ==
  \A k \in Sockets, u \in Users : <<k, u>> \in owed =>
    u \in topic \/ <<k, u>> \in Underway
=============================================================================
