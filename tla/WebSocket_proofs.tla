--------------------------- MODULE WebSocket_proofs ---------------------------
(***************************************************************************)
(* Theorems about the two ends of /ws: first the server's (EventPush), for *)
(* any topics, events and clients, then the browser's (WsClient), for any  *)
(* number of sockets and of start() calls.                                 *)
(***************************************************************************)
EXTENDS EventPush, WsClient, FiniteSetTheorems, TLAPS

-----------------------------------------------------------------------------
(* The server.  A client that stays and sets no filter has, of every       *)
(* broadcast that began with it, either a turn to come or exactly one      *)
(* message.                                                                *)


\* What a broadcast or a client that has not begun yet has not got.
Fresh ==
    /\ \A k \in Tasks : k[1] > published => task[k] = "none"
    /\ \A k \in Tasks : task[k] \in {"none", "ready"} => dead[k] = {}
    /\ \A w \in Clients : link[w] = "new" => w \notin serving /\ \A k \in Tasks : w \notin owed[k]
    /\ \A w \in Clients : commands[w] = 0 => filter[w] = {}

\* The places of broadcast k in what client w was sent.
Hits(w, k) == {i \in DOMAIN got[w] : got[w][i] = k}

Stays(w) == link[w] = "up" /\ commands[w] = 0

Delivered(k, w) ==
    /\ task[k] \in {"none", "ready"} => Hits(w, k) = {}
    /\ task[k] = "sending" /\ w \in todo[k] => Hits(w, k) = {}
    /\ task[k] = "sending" /\ w \in owed[k] \ todo[k] /\ Stays(w) => \E i : Hits(w, k) = {i}
    /\ task[k] = "sent" /\ w \in owed[k] /\ Stays(w) => \E i : Hits(w, k) = {i}

AllDelivered == \A k \in Tasks, w \in Clients : Delivered(k, w)

IInv == TypeOK /\ Fresh /\ AllDelivered

-----------------------------------------------------------------------------
(* Types                                                                   *)

\* Each handler, send, command and departure keeps the types; that a broadcast
\* deals only with its snapshot needs that it starts with nobody given up.
LEMMA TypeNext ==
    ASSUME TypeOK, Fresh, [Next]_vars
    PROVE  TypeOK'
<1>1. published \in 0..MaxEvents /\ MaxEvents \in Nat
    BY PushAssumption DEF TypeOK
<1>2. topic \in [Events -> Topics \cup {""}] /\ task \in [Tasks -> TaskStates]
    BY DEF TypeOK
<1>3. /\ todo \in [Tasks -> SUBSET Clients] /\ dead \in [Tasks -> SUBSET Clients]
      /\ owed \in [Tasks -> SUBSET Clients] /\ connections \subseteq Clients
    BY DEF TypeOK
<1>4. /\ MaxCommands \in Nat /\ commands \in [Clients -> 0..MaxCommands]
      /\ filter \in [Clients -> SUBSET Filterable]
    BY PushAssumption DEF TypeOK
<1>5. got \in [Clients -> Seq(Tasks)]
    BY DEF TypeOK
<1>6. {"none", "ready", "sending", "sent", "failed", "cancelled"} \subseteq TaskStates
    BY DEF TaskStates
<1>7. \A k \in Tasks : todo[k] \subseteq owed[k] /\ dead[k] \subseteq owed[k]
    BY DEF TypeOK
<1> USE DEF busVars, taskVars, drainVars, clientVars
<1>8. ASSUME NEW t \in Topics, Publish(t) PROVE TypeOK'
    <2>1. /\ published' = published + 1 /\ published < MaxEvents
          /\ topic' = [topic EXCEPT ![published + 1] = t]
          /\ task' = [k \in Tasks |-> IF k[1] = published + 1 /\ k[2] \in Matching(t)
                                       THEN "ready" ELSE task[k]]
          /\ UNCHANGED <<todo, dead, owed, drainVars, clientVars, got>>
        BY <1>8 DEF Publish
    <2>2. published' \in 0..MaxEvents
        BY <1>1, <2>1
    <2>3. topic' \in [Events -> Topics \cup {""}]
        BY <1>2, <2>1
    <2>4. task' \in [Tasks -> TaskStates]
        BY <1>2, <1>6, <2>1
    <2>5. QED
        BY <2>1, <2>2, <2>3, <2>4 DEF TypeOK
<1>9. ASSUME NEW k \in Tasks, BroadcastBegins(k) PROVE TypeOK'
    <2>1. dead[k] = {}
        BY <1>9 DEF BroadcastBegins, Fresh
    <2>2. /\ \/ task' = [task EXCEPT ![k] = "sent"]
             \/ task' = [task EXCEPT ![k] = "sending"]
          /\ todo' = [todo EXCEPT ![k] = connections]
          /\ owed' = [owed EXCEPT ![k] = connections]
          /\ UNCHANGED <<busVars, dead, drainVars, clientVars, got>>
        BY <1>9 DEF BroadcastBegins
    <2>3. task' \in [Tasks -> TaskStates]
        BY <1>2, <1>6, <2>2
    <2>4. todo' \in [Tasks -> SUBSET Clients] /\ owed' \in [Tasks -> SUBSET Clients]
        BY <1>3, <2>2
    <2>5. \A j \in Tasks : todo'[j] \cup dead'[j] \subseteq owed'[j]
        BY <1>3, <1>7, <2>1, <2>2
    <2>6. QED
        BY <2>2, <2>3, <2>4, <2>5 DEF TypeOK
<1>10. ASSUME NEW k \in Tasks, HandlerFails(k) \/ TaskCancelled(k) PROVE TypeOK'
    <2>1. /\ \/ task' = [task EXCEPT ![k] = "failed"]
             \/ task' = [task EXCEPT ![k] = "cancelled"]
          /\ UNCHANGED <<busVars, todo, dead, owed, drainVars, clientVars, got>>
        BY <1>10 DEF HandlerFails, TaskCancelled
    <2>2. task' \in [Tasks -> TaskStates]
        BY <1>2, <1>6, <2>1
    <2>3. QED
        BY <2>1, <2>2 DEF TypeOK
<1>11. ASSUME NEW k \in Tasks, NEW w \in Clients, SendTo(k, w) PROVE TypeOK'
    <2>1. /\ todo' = [todo EXCEPT ![k] = todo[k] \ {w}]
          /\ dead' = dead \/ dead' = [dead EXCEPT ![k] = dead[k] \cup {w}]
          /\ got' = got \/ got' = [got EXCEPT ![w] = Append(got[w], k)]
          /\ owed' = owed /\ w \in todo[k]
          /\ UNCHANGED <<busVars, task, drainVars, clientVars>>
        BY <1>11 DEF SendTo, SendFails
    <2>2. todo' \in [Tasks -> SUBSET Clients]
        BY <1>3, <2>1
    <2>3. /\ dead' \in [Tasks -> SUBSET Clients]
          /\ \A j \in Tasks : dead'[j] \subseteq owed'[j]
        <3>1. CASE dead' = dead
            BY <1>3, <1>7, <2>1, <3>1
        <3>2. CASE dead' = [dead EXCEPT ![k] = dead[k] \cup {w}]
            BY <1>3, <1>7, <2>1, <3>2
        <3>3. QED
            BY <2>1, <3>1, <3>2
    <2>4. \A j \in Tasks : todo'[j] \subseteq owed'[j]
        BY <1>3, <1>7, <2>1
    <2>5. got' \in [Clients -> Seq(Tasks)]
        <3>1. Append(got[w], k) \in Seq(Tasks)
            BY <1>5
        <3>2. CASE got' = got
            BY <1>5, <3>2
        <3>3. CASE got' = [got EXCEPT ![w] = Append(got[w], k)]
            BY <1>5, <3>1, <3>3
        <3>4. QED
            BY <2>1, <3>2, <3>3
    <2>6. QED
        BY <2>1, <2>2, <2>3, <2>4, <2>5 DEF TypeOK
<1>12. ASSUME NEW k \in Tasks, BroadcastEnds(k) PROVE TypeOK'
    <2>1. task' = [task EXCEPT ![k] = "sent"]
        BY <1>12 DEF BroadcastEnds
    <2>2. task' \in [Tasks -> TaskStates]
        BY <1>2, <1>6, <2>1
    <2>3. QED
        BY <1>12, <2>2 DEF BroadcastEnds, TypeOK
<1>13. ASSUME NEW w \in Clients, Connect(w) PROVE TypeOK'
    BY <1>13 DEF Connect, TypeOK
<1>14. ASSUME NEW w \in Clients, NEW t \in Filterable, Subscribe(w, t) \/ Unsubscribe(w, t)
      PROVE  TypeOK'
    <2>1. /\ commands[w] < MaxCommands
          /\ commands' = [commands EXCEPT ![w] = commands[w] + 1]
          /\ UNCHANGED <<busVars, taskVars, drainVars, link, got>>
        BY <1>14 DEF Subscribe, Unsubscribe, Command
    <2>2. commands' \in [Clients -> 0..MaxCommands]
        <3>1. commands[w] + 1 \in 0..MaxCommands
            BY <1>4, <2>1
        <3>2. QED
            BY <1>4, <2>1, <3>1
    <2>3. filter' = filter \/ \E ts \in SUBSET Filterable : filter' = [filter EXCEPT ![w] = ts]
        <3>1. filter[w] \cup {t} \in SUBSET Filterable /\ filter[w] \ {t} \in SUBSET Filterable
            BY <1>4
        <3>2. QED
            BY <1>14, <3>1 DEF Subscribe, Unsubscribe, SetFilter
    <2>4. filter' \in [Clients -> SUBSET Filterable]
        BY <1>4, <2>3
    <2>5. connections' \subseteq serving' /\ serving' \subseteq Clients
        BY <1>14 DEF Subscribe, Unsubscribe, SetFilter, Reply, TypeOK
    <2>6. QED
        BY <2>1, <2>2, <2>4, <2>5 DEF TypeOK
<1>15. ASSUME NEW w \in Clients, LinkDown(w) \/ EndpointEnds(w) PROVE TypeOK'
    BY <1>15 DEF LinkDown, EndpointEnds, TypeOK
<1>16. CASE DrainBegins \/ DrainEnds \/ DrainTimesOut
    BY <1>16 DEF DrainBegins, DrainEnds, DrainTimesOut, Inflight, TypeOK
<1>17. CASE UNCHANGED vars
    BY <1>17 DEF vars, TypeOK
<1>18. QED
    BY <1>8, <1>9, <1>10, <1>11, <1>12, <1>13, <1>14, <1>15, <1>16, <1>17
       DEF Next, TaskStep, ClientStep

\* Numbers of events are fresh, links are opened once, filters begin empty.
LEMMA FreshNext ==
    ASSUME TypeOK, Fresh, [Next]_vars
    PROVE  Fresh'
<1> USE DEF Fresh
<1>0. published \in Nat
    <2>1. published \in 0..MaxEvents /\ MaxEvents \in Nat
        BY PushAssumption DEF TypeOK
    <2>2. QED
        BY <2>1
<1>1. /\ published \in Nat /\ task \in [Tasks -> TaskStates]
      /\ dead \in [Tasks -> SUBSET Clients] /\ owed \in [Tasks -> SUBSET Clients]
      /\ connections \subseteq serving /\ serving \subseteq Clients
      /\ filter \in [Clients -> SUBSET Filterable] /\ commands \in [Clients -> 0..MaxCommands]
      /\ link \in [Clients -> {"new", "up", "down"}]
    BY <1>0 DEF TypeOK
<1>2. \A k \in Tasks : k[1] \in Nat
    BY DEF Tasks, Events
<1>3. ASSUME NEW t \in Topics, Publish(t) PROVE Fresh'
    BY <1>1, <1>2, <1>3 DEF Publish, taskVars, clientVars
<1>4. ASSUME NEW k \in Tasks, BroadcastBegins(k) PROVE Fresh'
    BY <1>1, <1>4 DEF BroadcastBegins, busVars, clientVars
<1>5. ASSUME NEW k \in Tasks, HandlerFails(k) \/ TaskCancelled(k) PROVE Fresh'
    BY <1>1, <1>5 DEF HandlerFails, TaskCancelled, Inflight, busVars, clientVars
<1>6. ASSUME NEW k \in Tasks, NEW w \in Clients, SendTo(k, w) PROVE Fresh'
    BY <1>1, <1>6 DEF SendTo, SendFails, busVars, clientVars
<1>7. ASSUME NEW k \in Tasks, BroadcastEnds(k) PROVE Fresh'
    BY <1>1, <1>7 DEF BroadcastEnds, busVars
<1>8. ASSUME NEW w \in Clients, Connect(w) PROVE Fresh'
    BY <1>1, <1>8 DEF Connect, busVars, taskVars
<1>9. ASSUME NEW w \in Clients, NEW t \in Filterable, Subscribe(w, t) \/ Unsubscribe(w, t)
      PROVE  Fresh'
    <2>1. commands' = [commands EXCEPT ![w] = @ + 1]
        BY <1>9 DEF Subscribe, Unsubscribe, Command
    <2>2. UNCHANGED <<busVars, taskVars, link>>
        BY <1>9 DEF Subscribe, Unsubscribe, Command
    <2>3. serving' \subseteq serving
        BY <1>9 DEF Subscribe, Unsubscribe, SetFilter, Reply
    <2>4. \A v \in Clients \ {w} : filter'[v] = filter[v]
        BY <1>1, <1>9 DEF Subscribe, Unsubscribe, SetFilter
    <2>5. commands'[w] # 0 /\ \A v \in Clients \ {w} : commands'[v] = commands[v]
        BY <1>1, <2>1
    <2>6. QED
        BY <1>1, <2>2, <2>3, <2>4, <2>5 DEF busVars, taskVars
<1>10. ASSUME NEW w \in Clients, LinkDown(w) \/ EndpointEnds(w) PROVE Fresh'
    BY <1>1, <1>10 DEF LinkDown, EndpointEnds, busVars, taskVars
<1>11. CASE DrainBegins \/ DrainEnds \/ DrainTimesOut
    BY <1>11 DEF DrainBegins, DrainEnds, DrainTimesOut, busVars, taskVars, clientVars
<1>12. CASE UNCHANGED vars
    BY <1>12 DEF vars, busVars, taskVars, clientVars
<1>13. QED
    BY <1>3, <1>4, <1>5, <1>6, <1>7, <1>8, <1>9, <1>10, <1>11, <1>12
       DEF Next, TaskStep, ClientStep

-----------------------------------------------------------------------------
(* Delivery                                                                *)

\* Nothing sent, nothing got.
LEMMA HitsStay ==
    ASSUME got' = got
    PROVE  \A w \in Clients, k \in Tasks : Hits(w, k)' = Hits(w, k)
BY DEF Hits

\* A step that sends nothing, moves no broadcast and calls nobody back keeps
\* what was delivered.
LEMMA QuietStep ==
    ASSUME AllDelivered, UNCHANGED <<task, todo, owed, got>>,
           \A w \in Clients : \A k \in Tasks : w \in owed[k] /\ Stays(w)' => Stays(w)
    PROVE  AllDelivered'
BY DEF AllDelivered, Delivered, Hits

\* Every step keeps what was delivered.
LEMMA DeliveredNext ==
    ASSUME IInv, [Next]_vars
    PROVE  AllDelivered'
<1>1. TypeOK /\ Fresh /\ AllDelivered
    BY DEF IInv
<1>0. published \in Nat
    <2>1. published \in 0..MaxEvents /\ MaxEvents \in Nat
        BY <1>1, PushAssumption DEF TypeOK
    <2>2. QED
        BY <2>1
<1>2. /\ published \in Nat /\ task \in [Tasks -> TaskStates]
      /\ todo \in [Tasks -> SUBSET Clients] /\ owed \in [Tasks -> SUBSET Clients]
      /\ commands \in [Clients -> 0..MaxCommands]
      /\ link \in [Clients -> {"new", "up", "down"}]
      /\ got \in [Clients -> Seq(Tasks)]
    BY <1>0, <1>1 DEF TypeOK
<1>3. \A k \in Tasks : k[1] \in Nat
    BY DEF Tasks, Events
<1>4. ASSUME NEW t \in Topics, Publish(t) PROVE AllDelivered'
    <2>1. UNCHANGED <<todo, owed, link, commands, got>>
        BY <1>4 DEF Publish, taskVars, clientVars
    <2>2. \A k \in Tasks : task'[k] = task[k] \/ (task[k] = "none" /\ task'[k] = "ready")
        BY <1>1, <1>2, <1>3, <1>4 DEF Publish, Fresh
    <2>3. QED
        BY <1>1, <2>1, <2>2, HitsStay DEF AllDelivered, Delivered, Stays
<1>5. ASSUME NEW k \in Tasks, BroadcastBegins(k) PROVE AllDelivered'
    <2>1. UNCHANGED <<link, commands, got>>
        BY <1>5 DEF BroadcastBegins, clientVars
    <2>2. task[k] = "ready" /\ task'[k] \in {"sent", "sending"}
        BY <1>2, <1>5 DEF BroadcastBegins
    <2>3. task'[k] = "sent" => owed'[k] = {}
        BY <1>2, <1>5 DEF BroadcastBegins
    <2>4. todo'[k] = owed'[k]
        BY <1>2, <1>5 DEF BroadcastBegins
    <2>5. \A j \in Tasks \ {k} : task'[j] = task[j] /\ todo'[j] = todo[j] /\ owed'[j] = owed[j]
        BY <1>2, <1>5 DEF BroadcastBegins
    <2>6. \A v \in Clients, j \in Tasks : Hits(v, j)' = Hits(v, j)
        BY <2>1, HitsStay
    <2>7. ASSUME NEW j \in Tasks, NEW v \in Clients PROVE Delivered(j, v)'
        <3>1. Delivered(j, v)
            BY <1>1 DEF AllDelivered
        <3>2. CASE j = k
            BY <2>1, <2>2, <2>3, <2>4, <2>6, <3>1, <3>2 DEF Delivered, Stays
        <3>3. CASE j # k
            BY <2>1, <2>5, <2>6, <3>1, <3>3 DEF Delivered, Stays
        <3>4. QED
            BY <3>2, <3>3
    <2>8. QED
        BY <2>7 DEF AllDelivered
<1>6. ASSUME NEW k \in Tasks, HandlerFails(k) \/ TaskCancelled(k) PROVE AllDelivered'
    <2>1. UNCHANGED <<todo, owed, link, commands, got>>
        BY <1>6 DEF HandlerFails, TaskCancelled, clientVars
    <2>2. task'[k] \in {"failed", "cancelled"} /\ \A j \in Tasks \ {k} : task'[j] = task[j]
        BY <1>2, <1>6 DEF HandlerFails, TaskCancelled
    <2>3. \A v \in Clients, j \in Tasks : Hits(v, j)' = Hits(v, j)
        BY <2>1, HitsStay
    <2>4. ASSUME NEW j \in Tasks, NEW v \in Clients PROVE Delivered(j, v)'
        <3>1. Delivered(j, v)
            BY <1>1 DEF AllDelivered
        <3>2. CASE j = k
            BY <2>1, <2>2, <2>3, <3>1, <3>2 DEF Delivered, Stays
        <3>3. CASE j # k
            BY <2>1, <2>2, <2>3, <3>1, <3>3 DEF Delivered, Stays
        <3>4. QED
            BY <3>2, <3>3
    <2>5. QED
        BY <2>4 DEF AllDelivered
<1>7. ASSUME NEW k \in Tasks, NEW w \in Clients, SendTo(k, w) PROVE AllDelivered'
    <2>1. /\ UNCHANGED <<task, owed, link, commands, filter>>
          /\ task[k] = "sending" /\ w \in todo[k]
          /\ todo' = [todo EXCEPT ![k] = @ \ {w}]
        BY <1>7 DEF SendTo, SendFails, clientVars
    <2>2. Hits(w, k) = {}
        BY <1>1, <2>1 DEF AllDelivered, Delivered
    <2>3. CASE got' = got /\ ~Stays(w)
        <3>1. ~Stays(w)'
            BY <2>1, <2>3 DEF Stays
        <3>2. \A j \in Tasks, v \in Clients : j # k \/ v # w =>
                  (v \in todo'[j] <=> v \in todo[j])
            BY <1>2, <2>1
        <3>3. \A j \in Tasks, v \in Clients : Hits(v, j)' = Hits(v, j)
            BY <2>3 DEF Hits
        <3>4. ASSUME NEW j \in Tasks, NEW v \in Clients PROVE Delivered(j, v)'
            <4>1. CASE j = k /\ v = w
                BY <1>2, <2>1, <3>1, <4>1 DEF Delivered
            <4>2. CASE j # k \/ v # w
                BY <1>1, <2>1, <3>2, <3>3, <4>2 DEF AllDelivered, Delivered, Stays
            <4>3. QED
                BY <4>1, <4>2
        <3>5. QED
            BY <3>4 DEF AllDelivered
    <2>4. CASE got' = [got EXCEPT ![w] = Append(@, k)]
        <3>1. \A j \in Tasks, v \in Clients : j # k \/ v # w =>
                  (v \in todo'[j] <=> v \in todo[j])
            BY <1>2, <2>1
        <3>2. got'[w] = Append(got[w], k) /\ got[w] \in Seq(Tasks)
            BY <1>2, <2>4
        <3>3. Hits(w, k)' = {Len(got[w]) + 1}
            BY <2>2, <3>2 DEF Hits
        <3>4. \A j \in Tasks : j # k => Hits(w, j)' = Hits(w, j)
            BY <3>2 DEF Hits
        <3>5. \A j \in Tasks, v \in Clients : v # w => Hits(v, j)' = Hits(v, j)
            BY <1>2, <2>4 DEF Hits
        <3>6. ASSUME NEW j \in Tasks, NEW v \in Clients PROVE Delivered(j, v)'
            <4>1. CASE j = k /\ v = w
                BY <1>2, <2>1, <3>3, <4>1 DEF Delivered
            <4>2. CASE j # k \/ v # w
                BY <1>1, <2>1, <3>1, <3>4, <3>5, <4>2 DEF AllDelivered, Delivered, Stays
            <4>3. QED
                BY <4>1, <4>2
        <3>7. QED
            BY <3>6 DEF AllDelivered
    <2>5. Stays(w) => Passes(k, w)
        BY <1>1 DEF Fresh, Stays, Passes
    <2>6. QED
        BY <1>7, <2>3, <2>4, <2>5 DEF SendTo, SendFails, Stays
<1>8. ASSUME NEW k \in Tasks, BroadcastEnds(k) PROVE AllDelivered'
    <2>1. UNCHANGED <<todo, owed, link, commands, got>>
        BY <1>8 DEF BroadcastEnds
    <2>2. task[k] = "sending" /\ todo[k] = {} /\ task'[k] = "sent"
        BY <1>2, <1>8 DEF BroadcastEnds
    <2>3. \A j \in Tasks \ {k} : task'[j] = task[j]
        BY <1>2, <1>8 DEF BroadcastEnds
    <2>4. \A v \in Clients, j \in Tasks : Hits(v, j)' = Hits(v, j)
        BY <2>1, HitsStay
    <2>5. ASSUME NEW j \in Tasks, NEW v \in Clients PROVE Delivered(j, v)'
        <3>1. Delivered(j, v)
            BY <1>1 DEF AllDelivered
        <3>2. CASE j = k
            BY <2>1, <2>2, <2>4, <3>1, <3>2 DEF Delivered, Stays
        <3>3. CASE j # k
            BY <2>1, <2>3, <2>4, <3>1, <3>3 DEF Delivered, Stays
        <3>4. QED
            BY <3>2, <3>3
    <2>6. QED
        BY <2>5 DEF AllDelivered
<1>9. ASSUME NEW w \in Clients, Connect(w) PROVE AllDelivered'
    <2>1. UNCHANGED <<task, todo, owed, got, commands>>
        BY <1>9 DEF Connect, taskVars
    <2>2. \A v \in Clients : v # w => link'[v] = link[v]
        BY <1>2, <1>9 DEF Connect
    <2>3. \A k \in Tasks : w \notin owed[k]
        BY <1>1, <1>9 DEF Connect, Fresh
    <2>4. QED
        BY <1>1, <2>1, <2>2, <2>3, QuietStep DEF Stays
<1>10. ASSUME NEW w \in Clients, NEW t \in Filterable, Subscribe(w, t) \/ Unsubscribe(w, t)
       PROVE  AllDelivered'
    <2>1. UNCHANGED <<task, todo, owed, got, link>> /\ commands' = [commands EXCEPT ![w] = @ + 1]
        BY <1>10 DEF Subscribe, Unsubscribe, Command, taskVars
    <2>2. \A v \in Clients : commands'[v] = 0 => commands[v] = 0
        BY <1>2, <2>1
    <2>3. QED
        BY <1>1, <2>1, <2>2, QuietStep DEF Stays
<1>11. ASSUME NEW w \in Clients, LinkDown(w) \/ EndpointEnds(w) PROVE AllDelivered'
    <2>1. UNCHANGED <<task, todo, owed, got, commands>>
        BY <1>11 DEF LinkDown, EndpointEnds, taskVars
    <2>2. \A v \in Clients : link'[v] = "up" => link[v] = "up"
        BY <1>2, <1>11 DEF LinkDown, EndpointEnds
    <2>3. QED
        BY <1>1, <2>1, <2>2, QuietStep DEF Stays
<1>12. CASE DrainBegins \/ DrainEnds \/ DrainTimesOut \/ UNCHANGED vars
    <2>1. UNCHANGED <<task, todo, owed, got, link, commands>>
        BY <1>12 DEF DrainBegins, DrainEnds, DrainTimesOut, vars, taskVars, clientVars
    <2>2. QED
        BY <1>1, <2>1, QuietStep DEF Stays
<1>13. QED
    BY <1>4, <1>5, <1>6, <1>7, <1>8, <1>9, <1>10, <1>11, <1>12 DEF Next, TaskStep, ClientStep

-----------------------------------------------------------------------------
(* The theorems                                                            *)

\* The invariant holds of a server that starts and after each of its steps.
THEOREM PushInductive == Spec => []IInv
<1>1. Init => IInv
    <2> SUFFICES ASSUME Init PROVE IInv
        OBVIOUS
    <2>1. TypeOK
        <3>1. got \in [Clients -> Seq(Tasks)]
            <4>1. got = [w \in Clients |-> <<>>]
                BY DEF Init
            <4>2. <<>> \in Seq(Tasks)
                OBVIOUS
            <4>3. QED
                BY <4>1, <4>2
        <3>2. published \in 0..MaxEvents /\ commands \in [Clients -> 0..MaxCommands]
            <4>1. published = 0 /\ commands = [w \in Clients |-> 0]
                BY DEF Init
            <4>2. 0 \in 0..MaxEvents /\ 0 \in 0..MaxCommands
                BY PushAssumption
            <4>3. QED
                BY <4>1, <4>2
        <3>3. task \in [Tasks -> TaskStates]
            BY DEF Init, TaskStates
        <3>4. QED
            BY <3>1, <3>2, <3>3 DEF Init, TypeOK
    <2>2. Fresh
        BY DEF Init, Fresh
    <2>3. \A w \in Clients, k \in Tasks : Hits(w, k) = {}
        <3>1. \A w \in Clients : got[w] = <<>>
            BY DEF Init
        <3>2. DOMAIN <<>> = {}
            OBVIOUS
        <3>3. QED
            BY <3>1, <3>2 DEF Hits
    <2>4. AllDelivered
        BY <2>3 DEF Init, AllDelivered, Delivered
    <2>5. QED
        BY <2>1, <2>2, <2>4 DEF IInv
<1>2. IInv /\ [Next]_vars => IInv'
    <2> SUFFICES ASSUME IInv, [Next]_vars PROVE IInv'
        OBVIOUS
    <2>1. TypeOK /\ Fresh
        BY DEF IInv
    <2>2. QED
        BY <2>1, TypeNext, FreshNext, DeliveredNext DEF IInv
<1>3. QED
    BY <1>1, <1>2, PTL DEF Spec

\* Types, and that registered clients are served ones.
THEOREM PushTypeCorrect == Spec => []TypeOK
<1>1. IInv => TypeOK
    BY DEF IInv
<1>2. QED
    BY <1>1, PushInductive, PTL

\* A broadcast reaches everyone it began with who stays, exactly once, however
\* broadcasts, arrivals and departures interleave (WebSocketManager.broadcast()).
THEOREM PushReachesAll == Spec => []BroadcastReachesAll
<1>1. IInv => BroadcastReachesAll
    <2> SUFFICES ASSUME IInv, NEW k \in Tasks, task[k] = "sent",
                        NEW w \in owed[k], link[w] = "up", commands[w] = 0
                 PROVE  Cardinality(Hits(w, k)) = 1
        BY DEF BroadcastReachesAll, Hits
    <2>1. w \in Clients
        BY DEF IInv, TypeOK
    <2>2. PICK i : Hits(w, k) = {i}
        BY <2>1 DEF IInv, AllDelivered, Delivered, Stays
    <2>3. QED
        BY <2>2, FS_Singleton
<1>2. QED
    BY <1>1, PushInductive, PTL

\* Only an endpoint that begins registers its client: commands that are still
\* handled and broadcasts with old snapshots register nobody.
THEOREM PushGoneStaysGone == Spec => GoneStaysGone
<1>1. TypeOK /\ [Next]_vars
          => [\A w \in Clients : w \in connections' \ connections => link[w] = "new"]_vars
    <2> SUFFICES ASSUME TypeOK, [Next]_vars, NEW w \in Clients, w \in connections' \ connections
                 PROVE  link[w] = "new"
        OBVIOUS
    <2>1. PICK v \in Clients : Connect(v)
        BY DEF Next, TaskStep, ClientStep, Publish, BroadcastBegins, HandlerFails, SendTo,
               BroadcastEnds, TaskCancelled, Subscribe, Unsubscribe, SetFilter, Reply,
               LinkDown, EndpointEnds, DrainBegins, DrainEnds, DrainTimesOut,
               vars, clientVars
    <2>2. v = w
        BY <2>1 DEF Connect
    <2>3. QED
        BY <2>1, <2>2 DEF Connect
<1>2. QED
    BY <1>1, PushTypeCorrect, PTL DEF Spec, GoneStaysGone

-----------------------------------------------------------------------------
(* The browser.  Every socket and every pending timer stands for one call  *)
(* of start(): a socket that closes hands its place to a timer, a timer to *)
(* a socket.                                                               *)


ClientInv == ClientTypeOK /\ OneConnectionPerStart

\* Only finitely many sockets have been used.
LEMMA UsedFinite == IsFiniteSet(Used) /\ Cardinality(Used) \in Nat
  <1>1. Used \subseteq Sockets
    BY DEF Used
  <1> QED
    BY <1>1, ClientAssumption, FS_Subset, FS_CardinalityType

\* The types hold at first.
LEMMA ClientTypeInit == ClientInit => ClientTypeOK
  <1> SUFFICES ASSUME ClientInit PROVE ClientTypeOK
    OBVIOUS
  <1>1. mounts \in 0..MaxMounts /\ attempts \in 0..MaxAttempts /\ timer \in {0, 1} /\ lost \in Nat
    BY ClientAssumption DEF ClientInit, MaxAttempts
  <1>2. socket \in [Sockets -> {"unused", "connecting", "open", "closing"}]
    BY DEF ClientInit
  <1> QED
    BY <1>1, <1>2 DEF ClientInit, ClientTypeOK

\* No step breaks the types.
LEMMA ClientTypeStep == ASSUME ClientTypeOK, [ClientNext]_pageVars PROVE ClientTypeOK'
  <1> USE ClientAssumption DEF ClientTypeOK, MaxAttempts, Live, Used
  <1>1. CASE Mount
    <2>1. mounts' \in 0..MaxMounts
      BY <1>1 DEF Mount
    <2>2. /\ ws' \in Sockets
          /\ socket' \in [Sockets -> {"unused", "connecting", "open", "closing"}]
          /\ state' \in {"connecting", "reconnecting"}
      BY <1>1 DEF Mount, ConnectSocket
    <2> QED  BY <1>1, <2>1, <2>2 DEF Mount
  <1>2. CASE Unmount
    BY <1>2 DEF Unmount, Stop
  <1>3. ASSUME NEW s \in Sockets, OnOpen(s) PROVE ClientTypeOK'
    BY <1>3 DEF OnOpen
  <1>4. ASSUME NEW s \in Sockets, OnClose(s) PROVE ClientTypeOK'
    <2>1. attempts' \in 0..MaxAttempts /\ timer' \in {0, 1} /\ lost' \in Nat
      BY <1>4 DEF OnClose, ScheduleReconnect, NextAttempts
    <2> QED  BY <1>4, <2>1 DEF OnClose, HeartbeatAfterClose
  <1>5. ASSUME NEW s \in Sockets, ConnectionLost(s) PROVE ClientTypeOK'
    BY <1>5 DEF ConnectionLost
  <1>6. CASE TimerFires
    BY <1>6 DEF TimerFires, ConnectSocket
  <1>7. CASE LostTimerFires
    BY <1>7 DEF LostTimerFires, ConnectSocket
  <1>8. CASE UNCHANGED pageVars
    BY <1>8 DEF pageVars
  <1> QED
    BY <1>1, <1>2, <1>3, <1>4, <1>5, <1>6, <1>7, <1>8 DEF ClientNext, SocketStep

\* connect() uses one more socket.
LEMMA ConnectAdds ==
  ASSUME ClientTypeOK, ConnectSocket
  PROVE  Cardinality(Used') = Cardinality(Used) + 1
  <1>1. PICK s \in Sockets \ Used : socket' = [socket EXCEPT ![s] = "connecting"]
    BY DEF ConnectSocket
  <1>2. Used' = Used \cup {s}
    BY <1>1 DEF ClientTypeOK, Used
  <1> QED
    BY <1>1, <1>2, UsedFinite, FS_AddElement

\* onclose frees one.
LEMMA CloseRemoves ==
  ASSUME ClientTypeOK, NEW s \in Used, socket' = [socket EXCEPT ![s] = "unused"]
  PROVE  Cardinality(Used') = Cardinality(Used) - 1
  <1>1. Used' = Used \ {s}
    BY DEF ClientTypeOK, Used
  <1> QED
    BY <1>1, UsedFinite, FS_RemoveElement

\* No step makes sockets and timers outnumber the calls of start().
LEMMA CountStep == ASSUME ClientInv, [ClientNext]_pageVars PROVE OneConnectionPerStart'
  <1> USE DEF ClientInv, OneConnectionPerStart
  <1>1. /\ Cardinality(Used) \in Nat /\ timer \in Nat /\ lost \in Nat /\ mounts \in Nat
        /\ ClientTypeOK
    BY UsedFinite, ClientAssumption DEF ClientTypeOK
  <1>2. CASE Mount
    BY <1>1, <1>2, ConnectAdds DEF Mount
  <1>3. CASE Unmount
    <2>1. Used' = Used
      BY <1>1, <1>3 DEF Unmount, Stop, Used, Live, ClientTypeOK
    <2>2. timer' = 0 /\ lost' = lost /\ mounts' = mounts
      BY <1>3 DEF Unmount, Stop
    <2>3. Cardinality(Used') = Cardinality(Used)
      BY <2>1
    <2> QED  BY <1>1, <2>2, <2>3
  <1>4. ASSUME NEW s \in Sockets, OnOpen(s) \/ ConnectionLost(s)
        PROVE  OneConnectionPerStart'
    <2>1. Used' = Used
      BY <1>1, <1>4 DEF OnOpen, ConnectionLost, Used, Live, ClientTypeOK
    <2>2. UNCHANGED <<timer, lost, mounts>>
      BY <1>4 DEF OnOpen, ConnectionLost
    <2> QED  BY <1>1, <2>1, <2>2
  <1>5. ASSUME NEW s \in Sockets, OnClose(s) PROVE OneConnectionPerStart'
    <2>1. Cardinality(Used') = Cardinality(Used) - 1
      BY <1>1, <1>5, CloseRemoves DEF OnClose, Used
    <2>2. Cardinality(Used) + timer + lost <= mounts /\ mounts' = mounts
      BY <1>5 DEF OnClose
    <2>3. CASE explicitClose
      <3>1. timer' = timer /\ lost' = lost
        BY <1>5, <2>3 DEF OnClose, ScheduleReconnect
      <3> QED  BY <1>1, <2>1, <2>2, <3>1
    <2>4. CASE ~explicitClose
      <3>1. timer' = 1 /\ lost' = lost + timer
        BY <1>5, <2>4 DEF OnClose, ScheduleReconnect
      <3> QED  BY <1>1, <2>1, <2>2, <3>1
    <2> QED  BY <2>3, <2>4
  <1>6. CASE TimerFires
    BY <1>1, <1>6, ConnectAdds DEF TimerFires
  <1>7. CASE LostTimerFires
    BY <1>1, <1>7, ConnectAdds DEF LostTimerFires
  <1>8. CASE UNCHANGED pageVars
    BY <1>8 DEF pageVars, Used
  <1> QED
    BY <1>2, <1>3, <1>4, <1>5, <1>6, <1>7, <1>8 DEF ClientNext, SocketStep

\* Both hold throughout.
LEMMA ClientInvHolds == ClientSpec => []ClientInv
  <1>1. ClientInit => ClientInv
    <2>1. ClientInit => Used = {}
      BY DEF ClientInit, Used
    <2> QED
      BY <2>1, ClientTypeInit, FS_EmptySet DEF ClientInit, ClientInv, OneConnectionPerStart
  <1>2. ClientInv /\ [ClientNext]_pageVars => ClientInv'
    BY ClientTypeStep, CountStep DEF ClientInv
  <1> QED
    BY <1>1, <1>2, PTL DEF ClientSpec

\* The client's variables keep their types.
THEOREM ClientTypeCorrect == ClientSpec => []ClientTypeOK
  <1>1. ClientInv => ClientTypeOK  BY DEF ClientInv
  <1> QED  BY ClientInvHolds, <1>1, PTL

\* Reconnecting never adds a connection: one per call of start().
THEOREM ReconnectReplaces == ClientSpec => []OneConnectionPerStart
  <1>1. ClientInv => OneConnectionPerStart  BY DEF ClientInv
  <1> QED  BY ClientInvHolds, <1>1, PTL

\* Hence a provider that is mounted once has a single connection, as the file's
\* header says; it takes a remount to break that.
THEOREM MountedOnceSingle == ASSUME MaxMounts = 1 PROVE ClientSpec => []SingleConnection
  <1>1. ClientInv => SingleConnection
    <2> SUFFICES ASSUME ClientInv PROVE SingleConnection
      OBVIOUS
    <2>1. Live \subseteq Used
      BY DEF Live, Used
    <2>2. Cardinality(Live) \in Nat /\ Cardinality(Live) <= Cardinality(Used)
      BY <2>1, UsedFinite, FS_Subset, FS_CardinalityType
    <2>3. /\ Cardinality(Used) \in Nat /\ timer \in Nat /\ lost \in Nat
          /\ mounts \in 0..1
      BY UsedFinite DEF ClientInv, ClientTypeOK
    <2> QED
      BY <2>2, <2>3 DEF ClientInv, OneConnectionPerStart, SingleConnection
  <1> QED
    BY <1>1, ClientInvHolds, PTL

-----------------------------------------------------------------------------
\* A client started once has one socket or one timer, never both, and the
\* socket is the one it names; once stopped it has neither.
OneThread ==
    /\ lost = 0
    /\ Used \subseteq {ws}
    /\ timer = 1 => Used = {}
    /\ explicitClose => mounts = 1 /\ ~mounted /\ Live = {} /\ timer = 0
    /\ mounts = 0 => Used = {} /\ timer = 0 /\ ~mounted
    /\ state = "open" \/ heartbeat => ws # None /\ socket[ws] \in {"open", "closing"}

Once == mounts <= 1 => OneThread

\* connect() of a client without sockets uses the one it then names.
LEMMA ConnectUses ==
  ASSUME ClientTypeOK, Used = {}, ConnectSocket
  PROVE  Used' = {ws'}
  <1>1. PICK s \in Sockets : ws' = s /\ socket' = [socket EXCEPT ![s] = "connecting"]
    BY DEF ConnectSocket
  <1> QED
    BY <1>1 DEF ClientTypeOK, Used

\* Each callback of a client started once keeps it on that one thread.
LEMMA OnceStep == ASSUME ClientTypeOK, Once, [ClientNext]_pageVars PROVE Once'
  <1> USE ClientAssumption
  <1> SUFFICES ASSUME mounts' <= 1 PROVE OneThread'
    BY DEF Once
  <1>1. ClientTypeOK /\ ClientTypeOK'
    BY ClientTypeStep
  <1>2. mounts \in Nat /\ (mounts' = mounts \/ mounts' = mounts + 1)
    <2>1. mounts \in Nat
      BY <1>1 DEF ClientTypeOK
    <2>2. mounts' = mounts \/ mounts' = mounts + 1
      BY DEF ClientNext, SocketStep, Mount, Unmount, OnOpen, OnClose, ConnectionLost,
             TimerFires, LostTimerFires, pageVars
    <2> QED  BY <2>1, <2>2
  <1>3. OneThread
    BY <1>2 DEF Once
  <1> USE DEF OneThread
  <1>4. CASE Mount
    <2>1. mounts = 0 /\ mounts' = 1
      BY <1>2, <1>4 DEF Mount
    <2>2. Used = {} /\ timer = 0 /\ lost = 0 /\ ~heartbeat
      BY <1>1, <1>3, <2>1 DEF Used, ClientTypeOK
    <2>3. /\ UNCHANGED <<timer, lost, heartbeat>> /\ explicitClose' = FALSE
          /\ state' \in {"connecting", "reconnecting"}
      BY <1>4 DEF Mount, ConnectSocket
    <2>4. Used' = {ws'}
      BY <1>1, <1>4, <2>2, ConnectUses DEF Mount
    <2> QED  BY <2>1, <2>2, <2>3, <2>4
  <1>5. CASE Unmount
    <2>1. /\ explicitClose' = TRUE /\ heartbeat' = FALSE /\ timer' = 0 /\ mounted' = FALSE
          /\ UNCHANGED <<mounts, ws, lost, state>> /\ mounted
          /\ socket' = IF ws \in Live THEN [socket EXCEPT ![ws] = "closing"] ELSE socket
      BY <1>5 DEF Unmount, Stop
    <2>2. mounts' = 1
      BY <1>2, <1>3, <2>1
    <2>3. Used' = Used /\ Live' = {}
      BY <1>1, <1>3, <2>1 DEF ClientTypeOK, Used, Live
    <2>4. state' = "open" => ws' # None /\ socket'[ws'] \in {"open", "closing"}
      BY <1>1, <1>3, <2>1 DEF ClientTypeOK, Live
    <2> QED  BY <1>3, <2>1, <2>2, <2>3, <2>4
  <1>6. ASSUME NEW s \in Sockets, OnOpen(s) PROVE OneThread'
    <2>1. s \in Used /\ s \in Live
      BY <1>6 DEF OnOpen, Used, Live
    <2>2. s = ws /\ ~explicitClose /\ timer = 0
      BY <1>1, <1>3, <2>1 DEF ClientTypeOK
    <2>3. Used' = Used /\ ws' = ws /\ socket'[ws] = "open"
      BY <1>1, <1>6, <2>2 DEF OnOpen, ClientTypeOK, Used
    <2>4. UNCHANGED <<mounts, mounted, explicitClose, timer, lost>>
      BY <1>6 DEF OnOpen
    <2> QED  BY <1>3, <2>1, <2>2, <2>3, <2>4
  <1>7. ASSUME NEW s \in Sockets, ConnectionLost(s) PROVE OneThread'
    <2>1. s \in Used /\ s \in Live
      BY <1>7 DEF ConnectionLost, Used, Live
    <2>2. s = ws /\ ~explicitClose
      BY <1>3, <2>1
    <2>3. Used' = Used /\ ws' = ws /\ socket'[ws] = "closing"
      BY <1>1, <1>7, <2>1, <2>2 DEF ConnectionLost, ClientTypeOK, Used
    <2>4. UNCHANGED <<mounts, mounted, explicitClose, timer, lost, heartbeat, state>>
      BY <1>7 DEF ConnectionLost
    <2> QED  BY <1>3, <2>1, <2>2, <2>3, <2>4
  <1>8. ASSUME NEW s \in Sockets, OnClose(s) PROVE OneThread'
    <2>1. s \in Used
      BY <1>8 DEF OnClose, Used
    <2>2. s = ws /\ timer = 0 /\ mounts = 1
      BY <1>1, <1>2, <1>3, <2>1, <1>8 DEF OnClose, ClientTypeOK
    <2>3. Used' = {}
      BY <1>1, <1>3, <1>8, <2>2 DEF OnClose, Used, ClientTypeOK
    <2>4. Live' = {}
      BY <2>3 DEF Used, Live
    <2>5. /\ heartbeat' = FALSE /\ state' = "closed"
          /\ UNCHANGED <<mounts, mounted, explicitClose, ws>>
      BY <1>8 DEF OnClose, HeartbeatAfterClose
    <2>6. lost' = 0
      BY <1>1, <1>3, <1>8, <2>2 DEF OnClose, ScheduleReconnect
    <2>7. explicitClose => timer' = 0
      BY <1>8, <2>2 DEF OnClose, ScheduleReconnect
    <2> QED  BY <1>3, <2>2, <2>3, <2>4, <2>5, <2>6, <2>7
  <1>9. CASE TimerFires
    <2>1. /\ timer = 1 /\ timer' = 0
          /\ UNCHANGED <<mounts, mounted, explicitClose, lost, heartbeat>>
          /\ state' \in {"connecting", "reconnecting"}
      BY <1>9 DEF TimerFires, ConnectSocket
    <2>2. Used = {} /\ ~explicitClose /\ mounts = 1
      BY <1>2, <1>3, <2>1
    <2>3. ~heartbeat
      BY <1>1, <1>3, <2>2 DEF Used, ClientTypeOK
    <2>4. Used' = {ws'}
      BY <1>1, <1>9, <2>2, ConnectUses DEF TimerFires
    <2> QED  BY <1>3, <2>1, <2>2, <2>3, <2>4
  <1>10. CASE LostTimerFires
    BY <1>3, <1>10 DEF LostTimerFires
  <1>11. CASE UNCHANGED pageVars
    BY <1>3, <1>11 DEF pageVars, Used, Live
  <1> QED
    BY <1>4, <1>5, <1>6, <1>7, <1>8, <1>9, <1>10, <1>11 DEF ClientNext, SocketStep

\* What holds of a client that has started once holds throughout.
LEMMA SpecOnce == ClientSpec => []Once
  <1>1. ClientInit => Once
    BY DEF ClientInit, Once, OneThread, Used, Live
  <1>2. ClientTypeOK /\ Once /\ [ClientNext]_pageVars => Once'
    BY OnceStep
  <1> QED
    BY <1>1, <1>2, ClientTypeCorrect, PTL DEF ClientSpec

\* A client started once shows "open" and pings only for a socket that is open
\* or whose onclose is about to say otherwise.
THEOREM ClientStatusHonest == ClientSpec => []StatusIsHonest
  <1>1. Once => StatusIsHonest
    BY DEF Once, OneThread, StatusIsHonest, StartedOnce
  <1> QED  BY SpecOnce, <1>1, PTL

\* stop() of a client started once leaves no live socket and no timer.
THEOREM ClientStopFinal == ClientSpec => []StopIsFinal
  <1>1. Once => StopIsFinal
    BY DEF Once, OneThread, StopIsFinal, StartedOnce
  <1> QED  BY SpecOnce, <1>1, PTL
=============================================================================
