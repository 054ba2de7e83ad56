---------------------------- MODULE SocketRegistry ----------------------------
(***************************************************************************)
(* The two socket gateways of every API process: NotificationGateway and   *)
(* ChatGatewayService, the maps and rooms they keep for the sockets of     *)
(* their users, and the Redis adapter that carries what is emitted to the  *)
(* other processes.                                                        *)
(*                                                                         *)
(* A socket is one connection to one of the two namespaces: a client that  *)
(* comes back comes with another one.  Both gateways install an adapter,   *)
(* each on all namespaces: a process counts them, and a socket belongs for *)
(* ever to the adapter that it was born under.                             *)
(***************************************************************************)
EXTENDS Naturals, FiniteSets

CONSTANTS
    Processes,
    Sockets,
    Users,
    Messages,     \* what is emitted: notices of the API, messages of the chat
    Everyone, Nobody, NoSocket, NoProcess

ASSUME SocketsAssumption ==
    /\ {Everyone, Nobody} \cap Users = {} /\ Everyone # Nobody
    /\ NoSocket \notin Sockets /\ NoProcess \notin Processes
    /\ Users \cap Sockets = {} /\ {Everyone, Nobody} \cap Sockets = {}

Adapters == 0 .. 2      \* 0: the one in memory; then one by each gateway
Spaces == {"notifications", "chat"}

VARIABLES
    adapter,       \* adapter[p]: the adapter the servers of p emit through
    space,         \* space[s]: the namespace s is connected to
    home,          \* home[s]: the process s is connected to
    link,          \* link[s]: "none", "open", or "closed" once the server knows that it is
    born,          \* born[s]: the adapter of home[s] when s connected
    userId,        \* userId[s]: socket.data.userId
    rooms,         \* rooms[s]: the users whose room s has joined
    userSockets,   \* userSockets[p][u]: NotificationGateway's map
    users,         \* users[p][u]: ChatGatewayService's map
    latest,        \* latest[p][u]: the socket that last registered u there for the chat
    network,       \* network[m]: the adapters that m has still to reach through Redis
    target,        \* target[m]: the room m is emitted to, or everyone
    kind,          \* kind[m]: the namespace m is emitted in
    received,      \* received[m][s]: how often s got m
    due            \* due[m]: the sockets that m has still to reach

sockets == <<space, home, link, born>>
registry == <<userId, rooms, userSockets, users, latest>>
messages == <<network, target, kind, received, due>>
vars == <<adapter, sockets, registry, messages>>

TypeOK ==
    /\ adapter \in [Processes -> Adapters]
    /\ space \in [Sockets -> Spaces]
    /\ home \in [Sockets -> Processes \cup {NoProcess}]
    /\ link \in [Sockets -> {"none", "open", "closed"}]
    /\ born \in [Sockets -> Adapters]
    /\ userId \in [Sockets -> Users \cup {Nobody}]
    /\ rooms \in [Sockets -> SUBSET Users]
    /\ userSockets \in [Processes -> [Users -> SUBSET Sockets]]
    /\ users \in [Processes -> [Users -> Sockets \cup {NoSocket}]]
    /\ latest \in [Processes -> [Users -> Sockets \cup {NoSocket}]]
    /\ network \in [Messages -> SUBSET (Processes \X Adapters)]
    /\ target \in [Messages -> Users \cup Sockets \cup {Everyone, Nobody}]
    /\ kind \in [Messages -> Spaces]
    /\ received \in [Messages -> [Sockets -> Nat]]
    /\ due \in [Messages -> SUBSET Sockets]

Init ==
    /\ adapter = [p \in Processes |-> 0]
    /\ space = [s \in Sockets |-> "notifications"]
    /\ home = [s \in Sockets |-> NoProcess]
    /\ link = [s \in Sockets |-> "none"]
    /\ born = [s \in Sockets |-> 0]
    /\ userId = [s \in Sockets |-> Nobody]
    /\ rooms = [s \in Sockets |-> {}]
    /\ userSockets = [p \in Processes |-> [u \in Users |-> {}]]
    /\ users = [p \in Processes |-> [u \in Users |-> NoSocket]]
    /\ latest = [p \in Processes |-> [u \in Users |-> NoSocket]]
    /\ network = [m \in Messages |-> {}]
    /\ target = [m \in Messages |-> Nobody]
    /\ kind = [m \in Messages |-> "notifications"]
    /\ received = [m \in Messages |-> [s \in Sockets |-> 0]]
    /\ due = [m \in Messages |-> {}]

-----------------------------------------------------------------------------
Open(s) == link[s] = "open"
Sent(m) == target[m] # Nobody

(* Both clients of Redis are connected, and all namespaces change to an    *)
(* adapter of their own on them.  Nobody waits for this: sockets may be    *)
(* connected already.                                                      *)
InstallAdapter(p) ==
    /\ adapter[p] < 2
    /\ adapter' = [adapter EXCEPT ![p] = @ + 1]
    /\ UNCHANGED <<sockets, registry, messages>>

(* Slip: the socket is counted for its user and joins no room. *)
RegisterWithoutRoom(p, s, u) ==
    /\ userId' = [userId EXCEPT ![s] = u]
    /\ userSockets' = [userSockets EXCEPT ![p][u] = @ \cup {s}]
    /\ UNCHANGED <<rooms, users, latest>>

(* registerSocketForUser: a socket that had another user stays in the room *)
(* and in the entry of that user.                                          *)
RegisterSocketForUser(p, s, u) ==
    /\ userId' = [userId EXCEPT ![s] = u]
    /\ rooms' = [rooms EXCEPT ![s] = @ \cup {u}]
    /\ userSockets' = [userSockets EXCEPT ![p][u] = @ \cup {s}]
    /\ UNCHANGED <<users, latest>>

(* handleConnection of both gateways; only notifications look for the user *)
(* in the handshake.                                                       *)
HandleConnection(p, s) ==
    /\ link[s] = "none"
    /\ link' = [link EXCEPT ![s] = "open"]
    /\ home' = [home EXCEPT ![s] = p]
    /\ born' = [born EXCEPT ![s] = adapter[p]]
    /\ \E n \in Spaces :
          /\ space' = [space EXCEPT ![s] = n]
          /\ \/ n = "notifications" /\ \E u \in Users : RegisterSocketForUser(p, s, u)
             \/ UNCHANGED registry
    /\ UNCHANGED <<adapter, messages>>

OnRegister(s) ==
    /\ Open(s) /\ space[s] = "notifications"
    /\ \E u \in Users : RegisterSocketForUser(home[s], s, u)
    /\ UNCHANGED <<adapter, sockets, messages>>

RegisterUser(s) ==
    /\ Open(s) /\ space[s] = "chat"
    /\ \E u \in Users :
          /\ users' = [users EXCEPT ![home[s]][u] = s]
          /\ latest' = [latest EXCEPT ![home[s]][u] = s]
    /\ UNCHANGED <<adapter, sockets, userId, rooms, userSockets, messages>>

(* Slip: the sockets of the user are forgotten with the one that closes. *)
ForgetSocketsOfUser(s) ==
    /\ userSockets' = [userSockets EXCEPT ![home[s]] =
          [u \in Users |-> IF u = userId[s] THEN {} ELSE @[u]]]
    /\ users' = [users EXCEPT ![home[s]] =
          [u \in Users |-> IF @[u] = s THEN NoSocket ELSE @[u]]]

(* Slip: the search for the entries of the chat ends at the first one. *)
ForgetFirstEntry(s) ==
    /\ userSockets' = [userSockets EXCEPT ![home[s]] =
          [u \in Users |-> IF u = userId[s] THEN @[u] \ {s} ELSE @[u]]]
    /\ \/ \E u \in Users :
             /\ users[home[s]][u] = s
             /\ users' = [users EXCEPT ![home[s]][u] = NoSocket]
       \/ (\A u \in Users : users[home[s]][u] # s) /\ UNCHANGED users

ForgetSocket(s) ==
    /\ userSockets' = [userSockets EXCEPT ![home[s]] =
          [u \in Users |-> IF u = userId[s] THEN @[u] \ {s} ELSE @[u]]]
    /\ users' = [users EXCEPT ![home[s]] =
          [u \in Users |-> IF @[u] = s THEN NoSocket ELSE @[u]]]

(* Nothing but data.userId matters of a socket that is closed. *)
Close(some) ==
    /\ link' = [s \in Sockets |-> IF s \in some THEN "closed" ELSE link[s]]
    /\ home' = [s \in Sockets |-> IF s \in some THEN NoProcess ELSE home[s]]
    /\ space' = [s \in Sockets |-> IF s \in some THEN "notifications" ELSE space[s]]
    /\ born' = [s \in Sockets |-> IF s \in some THEN 0 ELSE born[s]]
    /\ rooms' = [s \in Sockets |-> IF s \in some THEN {} ELSE rooms[s]]
    /\ due' = [m \in Messages |-> due[m] \ some]

(* handleDisconnect of both gateways.  The socket has left its rooms. *)
HandleDisconnect(s) ==
    /\ Open(s)
    /\ Close({s})
    /\ ForgetSocket(s)
    /\ UNCHANGED <<adapter, userId, latest, network, target, kind, received>>

(* The process ends with its sockets, and another takes its place. *)
Restart(p) ==
    /\ adapter' = [adapter EXCEPT ![p] = 0]
    /\ Close({s \in Sockets : home[s] = p})
    /\ userSockets' = [userSockets EXCEPT ![p] = [u \in Users |-> {}]]
    /\ users' = [users EXCEPT ![p] = [u \in Users |-> NoSocket]]
    /\ latest' = [latest EXCEPT ![p] = [u \in Users |-> NoSocket]]
    /\ network' = [m \in Messages |-> {d \in network[m] : d[1] # p}]
    /\ UNCHANGED <<userId, target, kind, received>>

-----------------------------------------------------------------------------
(* The open sockets that adapter g of process q finds in the room.  Every  *)
(* socket is in a room of its own.                                         *)
InRoom(q, g, n, room) ==
    {s \in Sockets :
        /\ home[s] = q /\ born[s] = g /\ space[s] = n /\ Open(s)
        /\ room \in rooms[s] \cup {s, Everyone}}

Reaches(m, some) ==
    [received EXCEPT ![m] = [s \in Sockets |->
        IF s \in some THEN @[s] + 1 ELSE @[s]]]

(* Sockets that Redis can carry a message to: those connected once their   *)
(* process had an adapter for it.                                          *)
Connectable(p) ==
    {s \in Sockets :
        /\ Open(s)
        /\ \/ adapter[p] > 0 /\ born[s] > 0
           \/ home[s] = p /\ born[s] = adapter[p]}

(* server.to(room).emit: to the sockets of the adapter in use, and through *)
(* Redis to all others, an older one of the same process included.         *)
Emit(p, m, n, room, wanted) ==
    LET here == InRoom(p, adapter[p], n, room) IN
    /\ target' = [target EXCEPT ![m] = room]
    /\ kind' = [kind EXCEPT ![m] = n]
    /\ received' = Reaches(m, here)
    /\ network' = [network EXCEPT ![m] =
          IF adapter[p] = 0 THEN {}
          ELSE {d \in Processes \X Adapters :
                   0 < d[2] /\ d[2] <= adapter[d[1]] /\ d # <<p, adapter[p]>>}]
    /\ due' = [due EXCEPT ![m] = (wanted \cap Connectable(p)) \ here]

(* Slip: one process's own sockets are addressed by the map as well as by  *)
(* their room.                                                             *)
EmitToRoomAndSockets(p, m) ==
    /\ ~Sent(m)
    /\ \E u \in Users :
          /\ target' = [target EXCEPT ![m] = u]
          /\ received' = [received EXCEPT ![m] = [s \in Sockets |->
                (IF s \in userSockets[p][u] THEN 1 ELSE 0)
                    + IF s \in InRoom(p, adapter[p], "notifications", u) THEN 1 ELSE 0]]
    /\ UNCHANGED <<adapter, sockets, registry, network, kind, due>>

EmitToUser(p, m) ==
    /\ ~Sent(m)
    /\ \E u \in Users :
          Emit(p, m, "notifications", u,
               {s \in Sockets : space[s] = "notifications" /\ userId[s] = u})
    /\ UNCHANGED <<adapter, sockets, registry>>

Broadcast(p, m) ==
    /\ ~Sent(m)
    /\ Emit(p, m, "notifications", Everyone, {s \in Sockets : space[s] = "notifications"})
    /\ UNCHANGED <<adapter, sockets, registry>>

(* A message whose recipient has no entry in this process goes nowhere. *)
HandleMessage(p, m) ==
    /\ ~Sent(m)
    /\ \E u \in Users :
          /\ users[p][u] # NoSocket
          /\ Emit(p, m, "chat", users[p][u], {latest[p][u]})
    /\ UNCHANGED <<adapter, sockets, registry>>

Deliver(m) ==
    /\ \E d \in network[m] :
          /\ network' = [network EXCEPT ![m] = @ \ {d}]
          /\ received' = Reaches(m, InRoom(d[1], d[2], kind[m], target[m]))
          /\ due' = [due EXCEPT ![m] = @ \ InRoom(d[1], d[2], kind[m], target[m])]
    /\ UNCHANGED <<adapter, sockets, registry, target, kind>>

(* Redis forgets a message when a subscriber is away. *)
Lose(m) ==
    /\ \E d \in network[m] :
          /\ network' = [network EXCEPT ![m] = @ \ {d}]
          /\ due' = [due EXCEPT ![m] = {s \in @ : <<home[s], born[s]>> # d}]
    /\ UNCHANGED <<adapter, sockets, registry, target, kind, received>>

Next ==
    \/ \E p \in Processes : InstallAdapter(p) \/ Restart(p)
    \/ \E p \in Processes, s \in Sockets : HandleConnection(p, s)
    \/ \E s \in Sockets :
          OnRegister(s) \/ RegisterUser(s) \/ HandleDisconnect(s)
    \/ \E p \in Processes, m \in Messages :
          EmitToUser(p, m) \/ Broadcast(p, m) \/ HandleMessage(p, m)
    \/ \E m \in Messages : Deliver(m) \/ Lose(m)

(* Redis hands on, or loses, what it was given; nothing else has to happen. *)
Spec == Init /\ [][Next]_vars
FairSpec == Spec /\ \A m \in Messages : WF_vars(Deliver(m))

-----------------------------------------------------------------------------
(* The process's map and the rooms say the same of every open socket; a    *)
(* closed one is only left in the map of a user it had before its last.    *)
RegistriesAgree ==
    \A p \in Processes, u \in Users, s \in Sockets :
        /\ Open(s) /\ home[s] = p => (s \in userSockets[p][u] <=> u \in rooms[s])
        /\ s \in userSockets[p][u] => IF Open(s) THEN home[s] = p ELSE userId[s] # u
        /\ userId[s] = u /\ Open(s) => u \in rooms[s]

(* The chat finds the socket that registered last for the user in this     *)
(* process as long as it is open, whatever older sockets do; after that it *)
(* finds none.                                                             *)
ChatFindsTheLatest ==
    \A p \in Processes, u \in Users :
        users[p][u] = IF latest[p][u] # NoSocket /\ Open(latest[p][u])
                      THEN latest[p][u] ELSE NoSocket

(* No socket gets a message twice, although two adapters of its process    *)
(* may be listening.                                                       *)
AtMostOnce == \A m \in Messages, s \in Sockets : received[m][s] <= 1

(* A socket that has not connected is nowhere. *)
NewIsNowhere ==
    \A s \in Sockets : link[s] = "none" =>
        /\ userId[s] = Nobody /\ rooms[s] = {}
        /\ \A p \in Processes, u \in Users : s \notin userSockets[p][u] /\ latest[p][u] # s
        /\ \A m \in Messages : received[m][s] = 0

OpenAtHome ==
    \A s \in Sockets :
        /\ Open(s) => home[s] \in Processes /\ born[s] <= adapter[home[s]]
        /\ ~Open(s) => home[s] = NoProcess /\ rooms[s] = {}

LatestAtHome ==
    \A p \in Processes, u \in Users :
        latest[p][u] # NoSocket /\ Open(latest[p][u]) =>
            home[latest[p][u]] = p /\ space[latest[p][u]] = "chat"

(* A socket has not got what is still on its way to its adapter. *)
OnItsWayOnce ==
    \A m \in Messages :
        /\ ~Sent(m) => network[m] = {} /\ (\A s \in Sockets : received[m][s] = 0)
        /\ \A s \in Sockets :
              Open(s) /\ <<home[s], born[s]>> \in network[m] => received[m][s] = 0

(* What is due to a socket is on its way to the adapter and the room that  *)
(* the socket is in.                                                       *)
DueIsOnItsWay ==
    \A m \in Messages : \A s \in due[m] :
        <<home[s], born[s]>> \in network[m]
            /\ s \in InRoom(home[s], born[s], kind[m], target[m])

(* The inductive invariant: the maps, the rooms and the messages agree. *)
SocketInvariant ==
    /\ TypeOK
    /\ NewIsNowhere /\ OpenAtHome /\ LatestAtHome
    /\ RegistriesAgree /\ ChatFindsTheLatest
    /\ AtMostOnce /\ OnItsWayOnce /\ DueIsOnItsWay

(* What is emitted reaches every connected socket registered for the user, *)
(* on any process and through any change of adapters, unless the socket    *)
(* goes or Redis loses it.  Two are not promised anything: sockets that    *)
(* came before their process had a Redis adapter, once it has one; and     *)
(* sockets of other processes, by a process that emits before it has a     *)
(* Redis adapter itself.                                                   *)
EverythingArrives == <>[](\A m \in Messages : due[m] = {})
=============================================================================
