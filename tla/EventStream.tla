---------------------------- MODULE EventStream ----------------------------
(***************************************************************************)
(* The WebSockets of one user and the events published for him: the        *)
(* handler of a socket (api/routes/events.py), the publisher               *)
(* (core/event_bus.py) and the hook of a browser tab that opens a new      *)
(* socket whenever one is gone (lib/realtime.ts).                          *)
(*                                                                         *)
(* A handler is cut at its awaits. The session of its handshake keeps its  *)
(* connection of the database pool until the handler returns.              *)
(***************************************************************************)
EXTENDS Naturals, Sequences, FiniteSets

CONSTANTS
    Sockets,
    Pool,           \* connections of the pool
    MaxEvents       \* bound: events published

VARIABLES
    client,     \* the tab's end of each socket
    handler,    \* its handler
    inbox,      \* frames Redis has sent to it and it has not read
    events

vars == <<client, handler, inbox, events>>

(* sent: SUBSCRIBE was sent and UNSUBSCRIBE was not; live: Redis has taken *)
(* it. drained: the task that reads the socket has met its end.            *)
Handler == [pc : {"none", "handshake", "accept", "subscribe", "hello", "pump", "send",
                  "finally", "close", "end"},
            sent : BOOLEAN, live : BOOLEAN, drained : BOOLEAN]

NoHandler == [pc |-> "none", sent |-> FALSE, live |-> FALSE, drained |-> FALSE]

Init ==
    /\ client = [s \in Sockets |-> "new"]
    /\ handler = [s \in Sockets |-> NoHandler]
    /\ inbox = [s \in Sockets |-> <<>>]
    /\ events = 0

Goto(s, pc) == handler' = [handler EXCEPT ![s].pc = pc]

Pinned == {s \in Sockets : handler[s].pc \notin {"none", "handshake", "end"}}

(* A tab opens a socket when it has none left, after a back-off.           *)
Open(s) ==
    /\ client[s] = "new" /\ \A t \in Sockets : client[t] \in {"new", "gone"}
    /\ client' = [client EXCEPT ![s] = "open"]
    /\ Goto(s, "handshake")
    /\ UNCHANGED <<inbox, events>>

(* The tab is closed, navigates, or its network fails.                     *)
Leave(s) ==
    /\ client[s] = "open"
    /\ client' = [client EXCEPT ![s] = "gone"]
    /\ UNCHANGED <<handler, inbox, events>>

(* _resolve_ws_user over a connection of the pool: the token is good, or   *)
(* the socket is closed with 4401; no connection within pool_timeout is an *)
(* error before the session holds anything.                                *)
Handshake(s) ==
    /\ handler[s].pc = "handshake"
    /\ \/ Cardinality(Pinned) < Pool /\ Goto(s, "accept") /\ UNCHANGED client
       \/ Cardinality(Pinned) < Pool /\ Goto(s, "close") /\ UNCHANGED client
       \/ /\ Cardinality(Pinned) >= Pool
          /\ Goto(s, "end") /\ client' = [client EXCEPT ![s] = "gone"]
    /\ UNCHANGED <<inbox, events>>

(* accept() does not notice a client that has gone.                        *)
Accept(s) ==
    /\ handler[s].pc = "accept"
    /\ Goto(s, "subscribe")
    /\ UNCHANGED <<client, inbox, events>>

(* subscribe() returns when the command is sent; if it fails, 1011.        *)
Subscribe(s) ==
    /\ handler[s].pc = "subscribe"
    /\ \/ handler' = [handler EXCEPT ![s].pc = "hello", ![s].sent = TRUE]
       \/ Goto(s, "close")
    /\ UNCHANGED <<client, inbox, events>>

RedisTakesSubscribe(s) ==
    /\ handler[s].sent /\ ~handler[s].live
    /\ handler' = [handler EXCEPT ![s].live = TRUE]
    /\ UNCHANGED <<client, inbox, events>>

(* Fault: the greeting is sent before the try.                             *)
HelloUnguarded(s) ==
    /\ handler[s].pc = "hello"
    /\ Goto(s, "pump") \/ (client[s] = "gone" /\ Goto(s, "close"))
    /\ UNCHANGED <<client, inbox, events>>

(* A frame to a client that has gone may raise, or be lost.                *)
Hello(s) ==
    /\ handler[s].pc = "hello"
    /\ Goto(s, "pump") \/ (client[s] = "gone" /\ Goto(s, "finally"))
    /\ UNCHANGED <<client, inbox, events>>

(* _drain_inbound, from the greeting on.                                   *)
DrainInbound(s) ==
    /\ handler[s].pc \in {"pump", "send"} /\ ~handler[s].drained /\ client[s] = "gone"
    /\ handler' = [handler EXCEPT ![s].drained = TRUE]
    /\ UNCHANGED <<client, inbox, events>>

(* One turn of the loop: the drain, a frame, a keepalive, or an error of   *)
(* Redis. Without any of them the turn changes nothing.                    *)
Pump(s) ==
    /\ handler[s].pc = "pump"
    /\ \/ handler[s].drained /\ Goto(s, "finally") /\ UNCHANGED inbox
       \/ /\ ~handler[s].drained /\ inbox[s] # <<>>
          /\ Goto(s, "send") /\ inbox' = [inbox EXCEPT ![s] = Tail(@)]
       \/ ~handler[s].drained /\ Goto(s, "finally") /\ UNCHANGED inbox
    /\ UNCHANGED <<client, events>>

Send(s) ==
    /\ handler[s].pc = "send"
    /\ Goto(s, "pump") \/ (client[s] = "gone" /\ Goto(s, "finally"))
    /\ UNCHANGED <<client, inbox, events>>

(* unsubscribe() and close(): even if they fail, the subscription ends     *)
(* with its connection.                                                    *)
Finally(s) ==
    /\ handler[s].pc = "finally"
    /\ handler' = [handler EXCEPT ![s].pc = "close", ![s].sent = FALSE, ![s].live = FALSE]
    /\ inbox' = [inbox EXCEPT ![s] = <<>>]
    /\ UNCHANGED <<client, events>>

(* The socket is closed and get_db returns its connection.                 *)
Close(s) ==
    /\ handler[s].pc = "close"
    /\ Goto(s, "end")
    /\ client' = [client EXCEPT ![s] = "gone"]
    /\ UNCHANGED <<inbox, events>>

(* publish_for_user, after the caller's work: whoever is subscribed gets a *)
(* frame, and an error is swallowed.                                       *)
Publish ==
    /\ events < MaxEvents
    /\ events' = events + 1
    /\ \/ inbox' = [s \in Sockets |-> IF handler[s].live THEN Append(inbox[s], events')
                                      ELSE inbox[s]]
       \/ UNCHANGED inbox
    /\ UNCHANGED <<client, handler>>

Step(s) ==
    \/ Handshake(s) \/ Accept(s) \/ Subscribe(s) \/ RedisTakesSubscribe(s) \/ Hello(s)
    \/ DrainInbound(s) \/ Pump(s) \/ Send(s) \/ Finally(s) \/ Close(s)

Next == Publish \/ \E s \in Sockets : Open(s) \/ Leave(s) \/ Step(s)

(* The loop never blocks for longer than a turn, the server reads its      *)
(* sockets and Redis its commands; nothing is asked of the tab.            *)
Progress(s) ==
    \/ Handshake(s) \/ Accept(s) \/ Subscribe(s) \/ Hello(s) \/ DrainInbound(s)
    \/ handler[s].drained /\ Pump(s)
    \/ Send(s) \/ Finally(s) \/ Close(s)

Fairness == \A s \in Sockets : WF_vars(Progress(s))

Spec == Init /\ [][Next]_vars /\ Fairness

-----------------------------------------------------------------------------
(* Types.                                                                  *)
TypeOK ==
    /\ client \in [Sockets -> {"new", "open", "gone"}]
    /\ handler \in [Sockets -> Handler]
    /\ \A s \in Sockets : inbox[s] \in Seq(1..MaxEvents)
    /\ events \in 0..MaxEvents

(* api/routes/events.py: "instead of a silent ghost connection": there     *)
(* comes a time from which on no handler whose tab has gone, whatever it   *)
(* was doing then, holds a subscription or a connection of the pool.       *)
StreamLetsGo ==
    <>[](\A s \in Sockets : client[s] = "gone" => ~handler[s].sent /\ s \notin Pinned)

=============================================================================
