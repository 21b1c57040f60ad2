----------------------------- MODULE EventPush -----------------------------
(***************************************************************************)
(* From EventBus.publish() to the browser: the bus of                      *)
(* backend/eventbus/event_bus.py, the bridge that backend/api/websocket.py *)
(* subscribes to it, and the WebSocketManager with its clients.            *)
(*                                                                         *)
(* publish() starts a task for every subscription that matches; each task  *)
(* broadcasts to the clients registered when it starts, one awaited send   *)
(* after another, while clients come, go and change their filters.         *)
(* Payloads are left out.                                                  *)
(***************************************************************************)
EXTENDS Integers, Sequences, FiniteSets

CONSTANTS Topics,      \* event types
          Star,        \* "*", which a client may subscribe to as to a topic
          Bridged,     \* topics the bridge subscribes to by name
          Globbed,     \* topics that "data.*", "signal.*" or "system.*" match
          Clients,     \* WebSocket connections, each opened once
          MaxEvents,   \* bound: events published
          MaxCommands  \* bound: filter commands of a client

ASSUME PushAssumption == /\ Star \notin Topics
                         /\ Bridged \subseteq Topics /\ Globbed \subseteq Topics
                         /\ MaxEvents \in Nat /\ MaxCommands \in Nat

Events == 1..MaxEvents
Tasks  == Events \X {"exact", "glob"}
Filterable == Topics \cup {Star}

VARIABLES
    published,    \* _total_published, and the number of the last event
    topic,        \* topic of each event
    task,         \* state of each handler task, see TaskStates
    todo,         \* clients a broadcast has yet to come to
    dead,         \* `disconnected` of a broadcast
    cancelled,    \* tasks that drain() has cancelled
    drain,        \* drain(): not called, waiting, timed out or done
    awaited,      \* the tasks drain() waits for
    connections,  \* keys of _connections
    filter,       \* values of _connections (empty = all)
    serving,      \* clients whose websocket_endpoint() runs
    link,         \* the network's view: "new", "up", "down"
    commands,     \* filter commands a client has sent
    got,          \* history: tasks whose message a client was sent, in order
    owed          \* history: the clients a broadcast began with

busVars  == <<published, topic>>
taskVars == <<task, todo, dead, owed>>
drainVars == <<cancelled, drain, awaited>>
clientVars == <<connections, filter, serving, link, commands>>
vars == <<busVars, taskVars, drainVars, clientVars, got>>

TaskStates == {"none", "ready", "sending", "sent", "failed", "cancelled"}
Inflight == {k \in Tasks : task[k] \in {"ready", "sending"}}

Init ==
    /\ published = 0
    /\ topic = [n \in Events |-> ""]
    /\ task = [k \in Tasks |-> "none"]
    /\ todo = [k \in Tasks |-> {}]
    /\ dead = [k \in Tasks |-> {}]
    /\ cancelled = {}
    /\ drain = "no"
    /\ awaited = {}
    /\ connections = {}
    /\ filter = [w \in Clients |-> {}]
    /\ serving = {}
    /\ link = [w \in Clients |-> "new"]
    /\ commands = [w \in Clients |-> 0]
    /\ got = [w \in Clients |-> <<>>]
    /\ owed = [k \in Tasks |-> {}]

-----------------------------------------------------------------------------
(* The bus                                                                 *)

\* _resolve_handlers(): an exact match and a wildcard match of the same handler
\* both count.
Matching(t) == {m \in {"exact", "glob"} : \/ m = "exact" /\ t \in Bridged
                                          \/ m = "glob"  /\ t \in Globbed}

\* A task per match.  Tier 3 and loops that outlive shutdown publish during drain().
Publish(t) ==
    LET n == published + 1
    IN  /\ published < MaxEvents
        /\ published' = n
        /\ topic' = [topic EXCEPT ![n] = t]
        /\ task' = [k \in Tasks |-> IF k[1] = n /\ k[2] \in Matching(t)
                                    THEN "ready" ELSE task[k]]
        /\ UNCHANGED <<todo, dead, owed, drainVars, clientVars, got>>

\* drain() takes the tasks in flight and waits for them, five seconds at most.
DrainBegins ==
    /\ drain = "no"
    /\ serving = {}
    /\ awaited' = Inflight
    /\ drain' = IF Inflight = {} THEN "done" ELSE "waiting"
    /\ UNCHANGED <<busVars, taskVars, cancelled, clientVars, got>>

DrainEnds ==
    /\ drain = "waiting"
    /\ awaited \cap Inflight = {}
    /\ drain' = "done"
    /\ UNCHANGED <<busVars, taskVars, cancelled, awaited, clientVars, got>>

\* Those it waited for are cancelled with the gather, the others by the loop.
DrainTimesOut ==
    /\ drain = "waiting"
    /\ drain' = "timed out"
    /\ cancelled' = Inflight
    /\ UNCHANGED <<busVars, taskVars, awaited, clientVars, got>>

TaskCancelled(k) ==
    /\ k \in cancelled /\ k \in Inflight
    /\ task' = [task EXCEPT ![k] = "cancelled"]
    /\ UNCHANGED <<busVars, todo, dead, owed, drainVars, clientVars, got>>

-----------------------------------------------------------------------------
(* ws_bridge_handler() and broadcast()                                     *)

\* Nobody is connected, or the broadcast starts on a snapshot.
BroadcastBegins(k) ==
    /\ task[k] = "ready" /\ k \notin cancelled
    /\ task' = [task EXCEPT ![k] = IF connections = {} THEN "sent" ELSE "sending"]
    /\ todo' = [todo EXCEPT ![k] = connections]
    /\ owed' = [owed EXCEPT ![k] = connections]
    /\ UNCHANGED <<busVars, dead, drainVars, clientVars, got>>

\* The payload cannot be encoded; _safe_invoke() swallows the exception.
HandlerFails(k) ==
    /\ task[k] = "ready" /\ k \notin cancelled
    /\ connections # {}
    /\ task' = [task EXCEPT ![k] = "failed"]
    /\ UNCHANGED <<busVars, todo, dead, owed, drainVars, clientVars, got>>

Passes(k, w) == filter[w] = {} \/ topic[k[1]] \in filter[w] \/ Star \in filter[w]

\* A broadcast that stops at the first client it cannot reach.
SendFailsForAll(k, w) ==
    /\ link[w] = "down"
    /\ dead' = [dead EXCEPT ![k] = @ \cup {w}]
    /\ todo' = [todo EXCEPT ![k] = {}]
    /\ UNCHANGED got

SendFails(k, w) ==
    /\ link[w] = "down"
    /\ dead' = [dead EXCEPT ![k] = @ \cup {w}]
    /\ todo' = [todo EXCEPT ![k] = @ \ {w}]
    /\ UNCHANGED got

\* The filter is read when the client's turn comes: the snapshot shares the set.
SendTo(k, w) ==
    /\ task[k] = "sending" /\ k \notin cancelled
    /\ w \in todo[k]
    /\ \/ /\ ~Passes(k, w)
          /\ todo' = [todo EXCEPT ![k] = @ \ {w}]
          /\ UNCHANGED <<dead, got>>
       \/ /\ Passes(k, w)
          /\ link[w] = "up"
          /\ got' = [got EXCEPT ![w] = Append(@, k)]
          /\ todo' = [todo EXCEPT ![k] = @ \ {w}]
          /\ UNCHANGED dead
       \/ /\ Passes(k, w)
          /\ SendFails(k, w)
    /\ UNCHANGED <<busVars, task, owed, drainVars, clientVars>>

\* The clients that could not be reached are disconnected at the end.
BroadcastEnds(k) ==
    /\ task[k] = "sending" /\ k \notin cancelled
    /\ todo[k] = {}
    /\ task' = [task EXCEPT ![k] = "sent"]
    /\ connections' = connections \ dead[k]
    /\ UNCHANGED <<busVars, todo, dead, owed, drainVars, filter, serving, link,
                   commands, got>>

-----------------------------------------------------------------------------
(* websocket_endpoint()                                                    *)

Connect(w) ==
    /\ drain = "no"
    /\ link[w] = "new"
    /\ link' = [link EXCEPT ![w] = "up"]
    /\ connections' = connections \cup {w}
    /\ filter' = [filter EXCEPT ![w] = {}]
    /\ serving' = serving \cup {w}
    /\ UNCHANGED <<busVars, taskVars, drainVars, commands, got>>

\* The reply to a command; when it cannot be sent the endpoint ends.
Reply(w) ==
    \/ /\ link[w] = "up"
       /\ UNCHANGED <<connections, serving>>
    \/ /\ link[w] = "down"
       /\ connections' = connections \ {w}
       /\ serving' = serving \ {w}

\* A filter that is set without asking whether the client is registered.
SetFilterAlways(w, topics) ==
    /\ filter' = [filter EXCEPT ![w] = topics]
    /\ connections' = connections \cup {w}
    /\ UNCHANGED serving

\* A command changes the filter of a client that is still registered.
SetFilter(w, topics) ==
    /\ filter' = IF w \in connections THEN [filter EXCEPT ![w] = topics] ELSE filter
    /\ Reply(w)

Command(w) == /\ w \in serving
              /\ commands[w] < MaxCommands
              /\ commands' = [commands EXCEPT ![w] = @ + 1]
              /\ UNCHANGED <<busVars, taskVars, drainVars, link, got>>

Subscribe(w, t) ==
    /\ Command(w)
    /\ SetFilter(w, filter[w] \cup {t})

Unsubscribe(w, t) ==
    /\ Command(w)
    /\ SetFilter(w, filter[w] \ {t})

\* The peer goes away.
LinkDown(w) ==
    /\ link[w] = "up"
    /\ link' = [link EXCEPT ![w] = "down"]
    /\ UNCHANGED <<busVars, taskVars, drainVars, connections, filter, serving,
                   commands, got>>

\* An endpoint that forgets to disconnect.
EndpointEndsSilently(w) ==
    /\ w \in serving /\ link[w] = "down"
    /\ serving' = serving \ {w}
    /\ UNCHANGED <<busVars, taskVars, drainVars, connections, filter, link,
                   commands, got>>

\* receive_text() raises; both handlers disconnect the client.
EndpointEnds(w) ==
    /\ w \in serving /\ link[w] = "down"
    /\ serving' = serving \ {w}
    /\ connections' = connections \ {w}
    /\ UNCHANGED <<busVars, taskVars, drainVars, filter, link, commands, got>>

-----------------------------------------------------------------------------
TaskStep(k) == \/ BroadcastBegins(k)
               \/ HandlerFails(k)
               \/ \E w \in Clients : SendTo(k, w)
               \/ BroadcastEnds(k)
               \/ TaskCancelled(k)

ClientStep(w) == \/ Connect(w)
                 \/ \E t \in Filterable : Subscribe(w, t) \/ Unsubscribe(w, t)
                 \/ LinkDown(w)
                 \/ EndpointEnds(w)

Next == \/ \E t \in Topics : Publish(t)
        \/ \E k \in Tasks : TaskStep(k)
        \/ \E w \in Clients : ClientStep(w)
        \/ DrainBegins \/ DrainEnds \/ DrainTimesOut

Spec == Init /\ [][Next]_vars

\* Ready tasks run; a send to a stalled peer ends when the server's keepalive
\* closes the socket; receive_text() raises once the peer is gone.
FairSpec == /\ Spec
            /\ \A k \in Tasks : WF_vars(TaskStep(k))
            /\ \A w \in Clients : WF_vars(EndpointEnds(w))
            /\ WF_vars(DrainEnds)

-----------------------------------------------------------------------------
(* Properties                                                              *)

\* Every variable keeps its type; a registered client is one whose endpoint runs,
\* and a broadcast only ever deals with clients of its snapshot.
TypeOK ==
    /\ published \in 0..MaxEvents
    /\ topic \in [Events -> Topics \cup {""}]
    /\ task \in [Tasks -> TaskStates]
    /\ todo \in [Tasks -> SUBSET Clients]
    /\ dead \in [Tasks -> SUBSET Clients]
    /\ owed \in [Tasks -> SUBSET Clients]
    /\ cancelled \subseteq Tasks /\ awaited \subseteq Tasks
    /\ drain \in {"no", "waiting", "timed out", "done"}
    /\ connections \subseteq serving /\ serving \subseteq Clients
    /\ \A k \in Tasks : todo[k] \cup dead[k] \subseteq owed[k]
    /\ filter \in [Clients -> SUBSET Filterable]
    /\ link \in [Clients -> {"new", "up", "down"}]
    /\ commands \in [Clients -> 0..MaxCommands]
    /\ got \in [Clients -> Seq(Tasks)]

\* A broadcast that ended reached every client it began with, once, unless that
\* client set a filter or went away: one dead client costs the others nothing.
BroadcastReachesAll ==
    \A k \in Tasks : task[k] = "sent" =>
        \A w \in owed[k] : link[w] = "up" /\ commands[w] = 0 =>
            Cardinality({i \in DOMAIN got[w] : got[w][i] = k}) = 1

\* A client that was disconnected is never registered again, although commands
\* it sent before are still handled and broadcasts hold old snapshots.
GoneStaysGone ==
    [][\A w \in Clients : w \in connections' \ connections => link[w] = "new"]_vars

\* A client whose peer is gone leaves the registry, without a broadcast.
DeadClientsLeave == \A w \in Clients : link[w] = "down" ~> w \notin connections

=============================================================================
