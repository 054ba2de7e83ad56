------------------------ MODULE SocketRegistryProofs ------------------------
(***************************************************************************)
(* Proofs about SocketRegistry for every set of processes, of sockets, of  *)
(* users and of messages.                                                  *)
(***************************************************************************)
EXTENDS SocketRegistry, TLAPS

(* Registering a socket keeps the maps and the rooms well typed. *)
LEMMA RegisterType ==
    ASSUME TypeOK, NEW p \in Processes, NEW s \in Sockets, NEW u \in Users,
           RegisterSocketForUser(p, s, u)
    PROVE  /\ userId' \in [Sockets -> Users \cup {Nobody}]
           /\ rooms' \in [Sockets -> SUBSET Users]
           /\ userSockets' \in [Processes -> [Users -> SUBSET Sockets]]
           /\ users' = users /\ latest' = latest
  BY DEF TypeOK, RegisterSocketForUser

(* So does closing sockets, for what a closed socket loses. *)
LEMMA CloseType ==
    ASSUME TypeOK, NEW some \in SUBSET Sockets, Close(some)
    PROVE  /\ link' \in [Sockets -> {"none", "open", "closed"}]
           /\ home' \in [Sockets -> Processes \cup {NoProcess}]
           /\ space' \in [Sockets -> Spaces]
           /\ born' \in [Sockets -> Adapters]
           /\ rooms' \in [Sockets -> SUBSET Users]
           /\ due' \in [Messages -> SUBSET Sockets]
  BY DEF TypeOK, Close, Spaces, Adapters

(* So does emitting a message. *)
LEMMA EmitType ==
    ASSUME TypeOK, NEW p \in Processes, NEW m \in Messages, NEW n \in Spaces,
           NEW room \in Users \cup Sockets \cup {Everyone}, NEW wanted \in SUBSET Sockets,
           Emit(p, m, n, room, wanted)
    PROVE  /\ network' \in [Messages -> SUBSET (Processes \X Adapters)]
           /\ target' \in [Messages -> Users \cup Sockets \cup {Everyone, Nobody}]
           /\ kind' \in [Messages -> Spaces]
           /\ received' \in [Messages -> [Sockets -> Nat]]
           /\ due' \in [Messages -> SUBSET Sockets]
  <1>1. received' \in [Messages -> [Sockets -> Nat]]
    BY DEF TypeOK, Emit, Reaches
  <1>2. network' \in [Messages -> SUBSET (Processes \X Adapters)]
    BY DEF TypeOK, Emit
  <1>3. due' \in [Messages -> SUBSET Sockets]
    BY DEF TypeOK, Emit, Connectable
  <1> QED
    BY <1>1, <1>2, <1>3 DEF TypeOK, Emit

(* Every handler of the gateways and of the adapters keeps the maps, the   *)
(* rooms and the messages well typed.                                      *)
LEMMA TypeStep == SocketInvariant /\ [Next]_vars => TypeOK'
<1> SUFFICES ASSUME SocketInvariant, [Next]_vars PROVE TypeOK'
  OBVIOUS
<1> USE DEF SocketInvariant
<1>1. ASSUME NEW p \in Processes, InstallAdapter(p) PROVE TypeOK'
  <2>1. adapter[p] \in 0 .. 2 /\ adapter[p] < 2
    BY <1>1 DEF InstallAdapter, TypeOK, Adapters
  <2>2. adapter[p] + 1 \in Adapters
    BY <2>1 DEF Adapters
  <2> QED
    BY <1>1, <2>2 DEF InstallAdapter, TypeOK, sockets, registry, messages
<1>2. ASSUME NEW p \in Processes, Restart(p) PROVE TypeOK'
  <2> DEFINE here == {s \in Sockets : home[s] = p}
  <2>1. here \in SUBSET Sockets /\ Close(here)
    BY <1>2 DEF Restart
  <2>2. /\ adapter' \in [Processes -> Adapters]
        /\ userSockets' \in [Processes -> [Users -> SUBSET Sockets]]
        /\ users' \in [Processes -> [Users -> Sockets \cup {NoSocket}]]
        /\ latest' \in [Processes -> [Users -> Sockets \cup {NoSocket}]]
        /\ network' \in [Messages -> SUBSET (Processes \X Adapters)]
    BY <1>2 DEF Restart, TypeOK, Adapters
  <2> HIDE DEF here
  <2> QED
    BY <1>2, <2>1, <2>2, CloseType DEF Restart, TypeOK
<1>3. ASSUME NEW p \in Processes, NEW s \in Sockets, HandleConnection(p, s) PROVE TypeOK'
  <2>1. /\ link' \in [Sockets -> {"none", "open", "closed"}]
        /\ home' \in [Sockets -> Processes \cup {NoProcess}]
        /\ born' \in [Sockets -> Adapters]
        /\ space' \in [Sockets -> Spaces]
    BY <1>3 DEF HandleConnection, TypeOK
  <2>2. CASE \E u \in Users : RegisterSocketForUser(p, s, u)
    BY <1>3, <2>1, <2>2, RegisterType DEF HandleConnection, TypeOK, messages
  <2>3. CASE UNCHANGED registry
    BY <1>3, <2>1, <2>3 DEF HandleConnection, TypeOK, messages, registry
  <2> QED
    BY <1>3, <2>2, <2>3 DEF HandleConnection
<1>4. ASSUME NEW s \in Sockets, OnRegister(s) PROVE TypeOK'
  <2>1. PICK u \in Users : RegisterSocketForUser(home[s], s, u)
    BY <1>4 DEF OnRegister
  <2>2. home[s] \in Processes
    BY <1>4 DEF OnRegister, OpenAtHome
  <2> QED
    BY <1>4, <2>1, <2>2, RegisterType DEF OnRegister, TypeOK, messages, sockets
<1>5. ASSUME NEW s \in Sockets, RegisterUser(s) PROVE TypeOK'
  <2>1. home[s] \in Processes
    BY <1>5 DEF RegisterUser, OpenAtHome
  <2> QED
    BY <1>5, <2>1 DEF RegisterUser, TypeOK, messages, sockets
<1>6. ASSUME NEW s \in Sockets, HandleDisconnect(s) PROVE TypeOK'
  <2>1. {s} \in SUBSET Sockets /\ Close({s})
    BY <1>6 DEF HandleDisconnect
  <2>2. home[s] \in Processes
    BY <1>6 DEF HandleDisconnect, OpenAtHome
  <2>3. userSockets' \in [Processes -> [Users -> SUBSET Sockets]]
    BY <1>6, <2>2 DEF HandleDisconnect, ForgetSocket, TypeOK
  <2>4. [u \in Users |-> IF users[home[s]][u] = s THEN NoSocket ELSE users[home[s]][u]]
          \in [Users -> Sockets \cup {NoSocket}]
    BY <2>2 DEF TypeOK
  <2>5. users' \in [Processes -> [Users -> Sockets \cup {NoSocket}]]
    BY <1>6, <2>2, <2>4 DEF HandleDisconnect, ForgetSocket, TypeOK
  <2> QED
    BY <1>6, <2>1, <2>3, <2>5, CloseType DEF HandleDisconnect, TypeOK
<1>7. ASSUME NEW p \in Processes, NEW m \in Messages, EmitToUser(p, m) PROVE TypeOK'
  <2>1. PICK u \in Users :
          Emit(p, m, "notifications", u,
               {s \in Sockets : space[s] = "notifications" /\ userId[s] = u})
    BY <1>7 DEF EmitToUser
  <2> DEFINE wanted == {s \in Sockets : space[s] = "notifications" /\ userId[s] = u}
  <2>2. wanted \in SUBSET Sockets /\ Emit(p, m, "notifications", u, wanted)
    BY <2>1
  <2> HIDE DEF wanted
  <2> QED
    BY <1>7, <2>2, EmitType DEF EmitToUser, TypeOK, sockets, registry, Spaces
<1>8. ASSUME NEW p \in Processes, NEW m \in Messages, Broadcast(p, m) PROVE TypeOK'
  <2> DEFINE wanted == {s \in Sockets : space[s] = "notifications"}
  <2>1. wanted \in SUBSET Sockets /\ Emit(p, m, "notifications", Everyone, wanted)
    BY <1>8 DEF Broadcast
  <2> HIDE DEF wanted
  <2> QED
    BY <1>8, <2>1, EmitType DEF Broadcast, TypeOK, sockets, registry, Spaces
<1>9. ASSUME NEW p \in Processes, NEW m \in Messages, HandleMessage(p, m) PROVE TypeOK'
  <2>1. PICK u \in Users :
          users[p][u] # NoSocket /\ Emit(p, m, "chat", users[p][u], {latest[p][u]})
    BY <1>9 DEF HandleMessage
  <2>2. users[p][u] \in Sockets /\ {latest[p][u]} \in SUBSET Sockets
    BY <2>1 DEF TypeOK, ChatFindsTheLatest
  <2> QED
    BY <1>9, <2>1, <2>2, EmitType DEF HandleMessage, TypeOK, sockets, registry, Spaces
<1>10. ASSUME NEW m \in Messages, Deliver(m) PROVE TypeOK'
  <2>1. received' \in [Messages -> [Sockets -> Nat]]
    BY <1>10 DEF Deliver, Reaches, TypeOK
  <2> QED
    BY <1>10, <2>1 DEF Deliver, TypeOK, sockets, registry
<1>11. ASSUME NEW m \in Messages, Lose(m) PROVE TypeOK'
  BY <1>11 DEF Lose, TypeOK, sockets, registry
<1>12. CASE UNCHANGED vars
  BY <1>12 DEF vars, sockets, registry, messages, TypeOK
<1> QED
  BY <1>1, <1>2, <1>3, <1>4, <1>5, <1>6, <1>7, <1>8, <1>9, <1>10, <1>11, <1>12 DEF Next

(* What SocketInvariant says of sockets, maps and rooms. *)
Registries == OpenAtHome /\ LatestAtHome /\ RegistriesAgree /\ ChatFindsTheLatest

(* A socket that registers for a user of its process keeps the map and its *)
(* rooms in agreement.                                                     *)
LEMMA RegisterAgrees ==
    ASSUME SocketInvariant, NEW s \in Sockets, NEW u \in Users, NEW p \in Processes,
           RegisterSocketForUser(p, s, u), link'[s] = "open", home'[s] = p,
           \A t \in Sockets \ {s} : link'[t] = link[t] /\ home'[t] = home[t],
           (Open(s) /\ home[s] = p) \/ link[s] = "none"
    PROVE  RegistriesAgree'
  <1> /\ TypeOK /\ NewIsNowhere /\ OpenAtHome /\ LatestAtHome
      /\ RegistriesAgree /\ ChatFindsTheLatest
    BY DEF SocketInvariant
  <1>1. SUFFICES ASSUME NEW q \in Processes, NEW v \in Users, NEW t \in Sockets
                 PROVE  /\ Open(t)' /\ home'[t] = q =>
                              (t \in userSockets'[q][v] <=> v \in rooms'[t])
                        /\ t \in userSockets'[q][v] =>
                              IF Open(t)' THEN home'[t] = q ELSE userId'[t] # v
                        /\ userId'[t] = v /\ Open(t)' => v \in rooms'[t]
    BY DEF RegistriesAgree
  <1>2. /\ userSockets'[q][v] = IF q = p /\ v = u THEN userSockets[q][v] \cup {s}
                                ELSE userSockets[q][v]
        /\ rooms'[t] = IF t = s THEN rooms[t] \cup {u} ELSE rooms[t]
        /\ userId'[t] = IF t = s THEN u ELSE userId[t]
    BY DEF RegisterSocketForUser, TypeOK
  <1>3. CASE t = s
    <2>1. \/ \A x \in Users : s \in userSockets[p][x] <=> x \in rooms[s]
          \/ \A x \in Users : s \notin userSockets[p][x] /\ rooms[s] = {}
      BY DEF RegistriesAgree, NewIsNowhere
    <2>2. q # p => s \notin userSockets[q][v]
      BY DEF RegistriesAgree, NewIsNowhere
    <2> QED
      BY <1>2, <1>3, <2>1, <2>2 DEF Open
  <1>4. CASE t # s
    BY <1>2, <1>4 DEF RegistriesAgree, Open
  <1> QED
    BY <1>3, <1>4

(* Closing sockets leaves the maps in agreement when the process forgets   *)
(* them for their last user.                                               *)
LEMMA CloseAgrees ==
    ASSUME SocketInvariant, NEW p \in Processes, NEW some \in SUBSET Sockets, Close(some),
           \A s \in some : Open(s) /\ home[s] = p,
           userId' = userId,
           \A q \in Processes \ {p} : userSockets'[q] = userSockets[q],
           \A v \in Users, s \in Sockets :
              s \in userSockets'[p][v] =>
                 s \in userSockets[p][v] /\ (s \in some => userId[s] # v),
           \A v \in Users, s \in Sockets \ some :
              s \in userSockets[p][v] /\ (Open(s) /\ home[s] = p) => s \in userSockets'[p][v]
    PROVE  RegistriesAgree'
  <1> /\ TypeOK /\ NewIsNowhere /\ OpenAtHome /\ LatestAtHome
      /\ RegistriesAgree /\ ChatFindsTheLatest
    BY DEF SocketInvariant
  <1>1. SUFFICES ASSUME NEW q \in Processes, NEW v \in Users, NEW t \in Sockets
                 PROVE  /\ Open(t)' /\ home'[t] = q =>
                              (t \in userSockets'[q][v] <=> v \in rooms'[t])
                        /\ t \in userSockets'[q][v] =>
                              IF Open(t)' THEN home'[t] = q ELSE userId'[t] # v
                        /\ userId'[t] = v /\ Open(t)' => v \in rooms'[t]
    BY DEF RegistriesAgree
  <1>2. /\ link'[t] = IF t \in some THEN "closed" ELSE link[t]
        /\ home'[t] = IF t \in some THEN NoProcess ELSE home[t]
        /\ rooms'[t] = IF t \in some THEN {} ELSE rooms[t]
    BY DEF Close
  <1>3. CASE t \in some
    BY <1>2, <1>3 DEF RegistriesAgree, Open
  <1>4. CASE t \notin some
    BY <1>2, <1>4 DEF RegistriesAgree, Open
  <1> QED
    BY <1>3, <1>4

(* A connection, with a user in its handshake or without one, keeps the    *)
(* maps and the rooms in agreement.                                        *)
LEMMA ConnectionKeepsRegistries ==
    ASSUME SocketInvariant, NEW p \in Processes, NEW s \in Sockets, HandleConnection(p, s)
    PROVE  Registries'
<1> /\ TypeOK /\ NewIsNowhere /\ OpenAtHome /\ LatestAtHome
    /\ RegistriesAgree /\ ChatFindsTheLatest
  BY DEF SocketInvariant
<1>1. /\ link[s] = "none" /\ link'[s] = "open" /\ home'[s] = p /\ born'[s] = adapter[p]
      /\ \A t \in Sockets \ {s} :
            link'[t] = link[t] /\ home'[t] = home[t] /\ born'[t] = born[t] /\ space'[t] = space[t]
      /\ adapter' = adapter /\ users' = users /\ latest' = latest
  BY DEF HandleConnection, TypeOK, RegisterSocketForUser, registry
<1>2. \/ \E u \in Users : RegisterSocketForUser(p, s, u)
      \/ UNCHANGED registry
  BY DEF HandleConnection
<1>3. rooms' = rooms \/ \A t \in Sockets \ {s} : rooms'[t] = rooms[t]
  BY <1>2 DEF registry, RegisterSocketForUser, TypeOK
<1>4. OpenAtHome'
  <2>1. adapter[p] <= adapter[p]
    <3>1. adapter[p] \in Adapters
      BY DEF TypeOK
    <3> QED
      BY <3>1 DEF Adapters
  <2>2. \A t \in Sockets : t # s => rooms'[t] = rooms[t]
    BY <1>3
  <2> QED
    BY <1>1, <2>1, <2>2 DEF OpenAtHome, Open
<1>5. LatestAtHome'
  BY <1>1 DEF LatestAtHome, Open, NewIsNowhere, TypeOK
<1>6. RegistriesAgree'
  <2>1. CASE \E u \in Users : RegisterSocketForUser(p, s, u)
    <3>1. PICK u \in Users : RegisterSocketForUser(p, s, u)
      BY <2>1
    <3> QED
      BY <1>1, <3>1, RegisterAgrees
  <2>2. CASE UNCHANGED registry
    <3>1. \A q \in Processes, v \in Users : s \notin userSockets[q][v] /\ userId[s] # v
      BY <1>1, SocketsAssumption DEF NewIsNowhere
    <3>2. userSockets' = userSockets /\ rooms' = rooms /\ userId' = userId
      BY <2>2 DEF registry
    <3>3. rooms[s] = {}
      BY <1>1 DEF NewIsNowhere
    <3> QED
      BY <1>1, <3>1, <3>2, <3>3 DEF RegistriesAgree, Open
  <2> QED
    BY <1>2, <2>1, <2>2
<1>7. ChatFindsTheLatest'
  BY <1>1 DEF ChatFindsTheLatest, NewIsNowhere, Open, TypeOK
<1> QED
  BY <1>4, <1>5, <1>6, <1>7 DEF Registries

(* So does a 'register' event, of the notifications or of the chat. *)
LEMMA RegistrationKeepsRegistries ==
    ASSUME SocketInvariant, NEW s \in Sockets, OnRegister(s) \/ RegisterUser(s)
    PROVE  Registries'
<1> /\ TypeOK /\ NewIsNowhere /\ OpenAtHome /\ LatestAtHome
    /\ RegistriesAgree /\ ChatFindsTheLatest
  BY DEF SocketInvariant
<1>1. /\ UNCHANGED <<adapter, sockets>>
      /\ Open(s) /\ home[s] \in Processes
  BY DEF OnRegister, RegisterUser, OpenAtHome
<1>2. CASE OnRegister(s)
  <2>1. PICK u \in Users : RegisterSocketForUser(home[s], s, u)
    BY <1>2 DEF OnRegister
  <2>2. RegistriesAgree'
    BY <1>1, <2>1, RegisterAgrees DEF sockets, Open
  <2>3. OpenAtHome'
    BY <1>1, <2>1 DEF OpenAtHome, sockets, Open, RegisterSocketForUser, TypeOK
  <2>4. LatestAtHome' /\ ChatFindsTheLatest'
    BY <1>1, <2>1 DEF LatestAtHome, ChatFindsTheLatest, sockets, Open, RegisterSocketForUser
  <2> QED
    BY <2>2, <2>3, <2>4 DEF Registries
<1>3. CASE RegisterUser(s)
  <2>1. PICK u \in Users : users' = [users EXCEPT ![home[s]][u] = s]
                           /\ latest' = [latest EXCEPT ![home[s]][u] = s]
    BY <1>3 DEF RegisterUser
  <2>2. \A p \in Processes, v \in Users :
          /\ users'[p][v] = IF p = home[s] /\ v = u THEN s ELSE users[p][v]
          /\ latest'[p][v] = IF p = home[s] /\ v = u THEN s ELSE latest[p][v]
    BY <1>1, <2>1 DEF TypeOK
  <2>3. LatestAtHome' /\ ChatFindsTheLatest'
    BY <1>1, <1>3, <2>2, SocketsAssumption
       DEF LatestAtHome, ChatFindsTheLatest, sockets, Open, RegisterUser
  <2>4. OpenAtHome' /\ RegistriesAgree'
    BY <1>1, <1>3 DEF OpenAtHome, RegistriesAgree, RegisterUser, sockets, Open
  <2> QED
    BY <2>3, <2>4 DEF Registries
<1> QED
  BY <1>2, <1>3

(* What is true of the sockets that stay when some of one process close. *)
LEMMA ClosingKeepsSockets ==
    ASSUME SocketInvariant, NEW p \in Processes, NEW some \in SUBSET Sockets, Close(some),
           \A s \in some : home[s] = p,
           \A q \in Processes \ {p} : adapter'[q] = adapter[q],
           adapter'[p] = adapter[p] \/ \A s \in Sockets : home[s] = p => s \in some
    PROVE  OpenAtHome'
  BY DEF SocketInvariant, TypeOK, Close, OpenAtHome, Open

(* So does the disconnection of a socket, whose process forgets it. *)
LEMMA DisconnectKeepsRegistries ==
    ASSUME SocketInvariant, NEW s \in Sockets, HandleDisconnect(s)
    PROVE  Registries'
<1> /\ TypeOK /\ NewIsNowhere /\ OpenAtHome /\ LatestAtHome
    /\ RegistriesAgree /\ ChatFindsTheLatest
  BY DEF SocketInvariant
<1>1. Open(s) /\ home[s] \in Processes /\ Close({s}) /\ ForgetSocket(s)
  BY DEF HandleDisconnect, OpenAtHome
<1>2. \A q \in Processes, v \in Users :
        /\ userSockets'[q][v] = IF q = home[s] /\ v = userId[s] THEN userSockets[q][v] \ {s}
                                ELSE userSockets[q][v]
        /\ users'[q][v] = IF q = home[s] /\ users[q][v] = s THEN NoSocket ELSE users[q][v]
  BY <1>1 DEF ForgetSocket, TypeOK
<1>3. \A q \in Processes \ {home[s]} : userSockets'[q] = userSockets[q]
  BY <1>1 DEF ForgetSocket, TypeOK
<1>4. adapter' = adapter /\ userId' = userId /\ latest' = latest
  BY DEF HandleDisconnect
<1>5. OpenAtHome'
  <2> DEFINE some == {s}
  <2>1. some \in SUBSET Sockets /\ Close(some) /\ \A t \in some : home[t] = home[s]
    BY <1>1
  <2> HIDE DEF some
  <2> QED
    BY <1>1, <1>4, <2>1, ClosingKeepsSockets
<1>6. RegistriesAgree'
  <2> DEFINE some == {s}
  <2>1. /\ some \in SUBSET Sockets /\ Close(some)
        /\ \A t \in some : Open(t) /\ home[t] = home[s]
    BY <1>1
  <2>2. \A v \in Users, t \in Sockets :
          t \in userSockets'[home[s]][v] =>
             t \in userSockets[home[s]][v] /\ (t \in some => userId[t] # v)
    BY <1>1, <1>2
  <2>3. \A v \in Users, t \in Sockets \ some :
          t \in userSockets[home[s]][v] /\ (Open(t) /\ home[t] = home[s]) =>
             t \in userSockets'[home[s]][v]
    BY <1>1, <1>2
  <2> HIDE DEF some
  <2> QED
    BY <1>1, <1>3, <1>4, <2>1, <2>2, <2>3, CloseAgrees
<1>7. \A t \in Sockets :
        /\ Open(t)' <=> Open(t) /\ t # s
        /\ t # s => home'[t] = home[t] /\ space'[t] = space[t]
  BY <1>1 DEF Close, Open
<1>8. LatestAtHome'
  BY <1>4, <1>7 DEF LatestAtHome, TypeOK
<1>9. ChatFindsTheLatest'
  <2> SUFFICES ASSUME NEW q \in Processes, NEW v \in Users
               PROVE  users'[q][v] = IF latest[q][v] # NoSocket /\ Open(latest[q][v])'
                                     THEN latest[q][v] ELSE NoSocket
    BY <1>4 DEF ChatFindsTheLatest
  <2>1. users[q][v] = s => q = home[s]
    BY <1>1, SocketsAssumption DEF ChatFindsTheLatest, LatestAtHome
  <2>2. latest[q][v] = NoSocket \/ latest[q][v] \in Sockets
    BY DEF TypeOK
  <2>3. users[q][v] = IF latest[q][v] # NoSocket /\ Open(latest[q][v])
                      THEN latest[q][v] ELSE NoSocket
    BY DEF ChatFindsTheLatest
  <2>4. users'[q][v] = IF users[q][v] = s THEN NoSocket ELSE users[q][v]
    BY <1>2, <2>1
  <2>5. CASE latest[q][v] = s
    BY <1>1, <1>4, <1>7, <2>3, <2>4, <2>5, SocketsAssumption
  <2>6. CASE latest[q][v] # s
    BY <1>4, <1>7, <2>2, <2>3, <2>4, <2>6, SocketsAssumption
  <2> QED
    BY <2>5, <2>6
<1> QED
  BY <1>5, <1>6, <1>8, <1>9 DEF Registries

(* So does the end of a process, which takes its maps and all of its       *)
(* sockets with it.                                                        *)
LEMMA RestartKeepsRegistries ==
    ASSUME SocketInvariant, NEW p \in Processes, Restart(p)
    PROVE  Registries'
<1> /\ TypeOK /\ NewIsNowhere /\ OpenAtHome /\ LatestAtHome
    /\ RegistriesAgree /\ ChatFindsTheLatest
  BY DEF SocketInvariant
<1> DEFINE some == {s \in Sockets : home[s] = p}
<1>1. /\ Close(some) /\ some \in SUBSET Sockets
      /\ \A s \in some : Open(s) /\ home[s] = p
  BY SocketsAssumption DEF Restart, OpenAtHome
<1>2. \A q \in Processes, v \in Users :
        /\ userSockets'[q][v] = IF q = p THEN {} ELSE userSockets[q][v]
        /\ users'[q][v] = IF q = p THEN NoSocket ELSE users[q][v]
        /\ latest'[q][v] = IF q = p THEN NoSocket ELSE latest[q][v]
  BY DEF Restart, TypeOK
<1>3. /\ \A q \in Processes \ {p} : userSockets'[q] = userSockets[q] /\ adapter'[q] = adapter[q]
      /\ userId' = userId
  BY DEF Restart, TypeOK
<1>4. OpenAtHome'
  BY <1>1, <1>3, ClosingKeepsSockets
<1>5. RegistriesAgree'
  BY <1>1, <1>2, <1>3, CloseAgrees
<1>6. \A t \in Sockets :
        /\ Open(t)' <=> Open(t) /\ home[t] # p
        /\ home[t] # p => home'[t] = home[t] /\ space'[t] = space[t]
  BY <1>1 DEF Close, Open
<1>7. LatestAtHome' /\ ChatFindsTheLatest'
  BY <1>2, <1>6, SocketsAssumption DEF LatestAtHome, ChatFindsTheLatest, TypeOK, Open
<1> QED
  BY <1>4, <1>5, <1>7 DEF Registries

(* What the theorems say of messages. *)
Delivery == NewIsNowhere /\ AtMostOnce /\ OnItsWayOnce /\ DueIsOnItsWay

(* What is emitted anew is on its way to whoever it is due to, and arrives *)
(* at once at the sockets of the adapter it is emitted through.            *)
LEMMA EmitDelivers ==
    ASSUME SocketInvariant, NEW p \in Processes, NEW m \in Messages, NEW n \in Spaces,
           NEW room \in Users \cup Sockets \cup {Everyone}, NEW wanted \in SUBSET Sockets,
           \A s \in wanted : Open(s) => space[s] = n /\ room \in rooms[s] \cup {s, Everyone},
           ~Sent(m), Emit(p, m, n, room, wanted), UNCHANGED <<adapter, sockets, registry>>
    PROVE  Delivery'
<1> DEFINE here == InRoom(p, adapter[p], n, room)
<1> /\ TypeOK /\ NewIsNowhere /\ OpenAtHome /\ OnItsWayOnce /\ DueIsOnItsWay /\ AtMostOnce
  BY DEF SocketInvariant
<1>1. /\ home' = home /\ born' = born /\ link' = link /\ space' = space /\ rooms' = rooms
      /\ userId' = userId /\ userSockets' = userSockets /\ latest' = latest
  BY DEF sockets, registry
<1>2. /\ \A s \in Sockets : received'[m][s] = IF s \in here THEN received[m][s] + 1
                                              ELSE received[m][s]
      /\ \A l \in Messages \ {m} : received'[l] = received[l]
  BY DEF Emit, Reaches, TypeOK
<1>3. /\ target'[m] = room /\ kind'[m] = n /\ room # Nobody
      /\ \A l \in Messages \ {m} : target'[l] = target[l] /\ kind'[l] = kind[l]
  BY SocketsAssumption DEF Emit, TypeOK
<1>4. /\ network'[m] = IF adapter[p] = 0 THEN {}
                       ELSE {d \in Processes \X Adapters :
                                0 < d[2] /\ d[2] <= adapter[d[1]] /\ d # <<p, adapter[p]>>}
      /\ \A l \in Messages \ {m} : network'[l] = network[l]
  BY DEF Emit, TypeOK
<1>5. /\ due'[m] = (wanted \cap Connectable(p)) \ here
      /\ \A l \in Messages \ {m} : due'[l] = due[l]
  BY DEF Emit, TypeOK
<1>6. \A s \in Sockets : s \in here <=>
        /\ home[s] = p /\ born[s] = adapter[p] /\ space[s] = n /\ Open(s)
        /\ room \in rooms[s] \cup {s, Everyone}
  BY DEF InRoom
<1>7. \A s \in Sockets : received[m][s] = 0
  BY DEF OnItsWayOnce
<1> HIDE DEF here
<1>8. NewIsNowhere'
  BY <1>1, <1>2, <1>6 DEF NewIsNowhere, Open
<1>9. AtMostOnce'
  BY <1>2, <1>7 DEF AtMostOnce
<1>10. OnItsWayOnce'
  <2>1. ASSUME NEW s \in Sockets, Open(s), <<home[s], born[s]>> \in network'[m]
        PROVE  received'[m][s] = 0
    <3>1. <<home[s], born[s]>> # <<p, adapter[p]>>
      BY <1>4, <2>1
    <3> QED
      BY <1>2, <1>6, <1>7, <3>1
  <2>2. ASSUME NEW l \in Messages \ {m}
        PROVE  /\ ~Sent(l)' => network'[l] = {} /\ (\A s \in Sockets : received'[l][s] = 0)
               /\ \A s \in Sockets :
                     Open(s)' /\ <<home'[s], born'[s]>> \in network'[l] => received'[l][s] = 0
    BY <1>1, <1>2, <1>3, <1>4 DEF OnItsWayOnce, Sent, Open
  <2> QED
    BY <1>1, <1>3, <2>1, <2>2 DEF OnItsWayOnce, Sent, Open
<1>11. DueIsOnItsWay'
  <2>1. ASSUME NEW s \in Sockets, s \in due'[m]
        PROVE  /\ <<home[s], born[s]>> \in network'[m]
               /\ s \in InRoom(home[s], born[s], n, room)
    <3>1. s \in wanted /\ s \in Connectable(p) /\ s \notin here /\ Open(s)
      BY <1>5, <2>1 DEF Connectable
    <3>2. space[s] = n /\ room \in rooms[s] \cup {s, Everyone}
      BY <3>1
    <3>3. ~(home[s] = p /\ born[s] = adapter[p])
      BY <1>6, <3>1, <3>2
    <3>4. adapter[p] > 0 /\ born[s] > 0
      BY <3>1, <3>3 DEF Connectable
    <3>5. /\ home[s] \in Processes /\ born[s] <= adapter[home[s]]
          /\ born[s] \in Adapters /\ adapter[p] \in Adapters
      BY <3>1 DEF OpenAtHome, TypeOK
    <3>6. <<home[s], born[s]>> \in network'[m]
      BY <1>4, <3>3, <3>4, <3>5 DEF Adapters
    <3> QED
      BY <3>1, <3>2, <3>6 DEF InRoom
  <2>2. ASSUME NEW l \in Messages \ {m}, NEW s \in due[l]
        PROVE  /\ <<home[s], born[s]>> \in network'[l]
               /\ s \in InRoom(home[s], born[s], kind'[l], target'[l])
    BY <1>3, <1>4 DEF DueIsOnItsWay
  <2>3. \A q, g, k, x : InRoom(q, g, k, x)' = InRoom(q, g, k, x)
    BY <1>1 DEF InRoom, Open
  <2>4. \A l \in Messages : due'[l] \subseteq Sockets
    BY <1>5 DEF TypeOK, Connectable
  <2> QED
    BY <1>1, <1>3, <1>5, <2>1, <2>2, <2>3, <2>4 DEF DueIsOnItsWay
<1> QED
  BY <1>8, <1>9, <1>10, <1>11 DEF Delivery

(* The three ways to emit a message. *)
LEMMA EmissionsDeliver ==
    ASSUME SocketInvariant, NEW p \in Processes, NEW m \in Messages,
           EmitToUser(p, m) \/ Broadcast(p, m) \/ HandleMessage(p, m)
    PROVE  Delivery'
<1> /\ TypeOK /\ LatestAtHome /\ RegistriesAgree /\ ChatFindsTheLatest
  BY DEF SocketInvariant
<1> USE DEF Spaces
<1>1. CASE EmitToUser(p, m)
  <2>1. PICK u \in Users :
          Emit(p, m, "notifications", u,
               {s \in Sockets : space[s] = "notifications" /\ userId[s] = u})
    BY <1>1 DEF EmitToUser
  <2> DEFINE wanted == {s \in Sockets : space[s] = "notifications" /\ userId[s] = u}
  <2>2. /\ wanted \in SUBSET Sockets /\ Emit(p, m, "notifications", u, wanted)
        /\ \A s \in wanted :
              Open(s) => space[s] = "notifications" /\ u \in rooms[s] \cup {s, Everyone}
    BY <2>1 DEF RegistriesAgree
  <2> HIDE DEF wanted
  <2> QED
    BY <1>1, <2>2, EmitDelivers DEF EmitToUser
<1>2. CASE Broadcast(p, m)
  <2> DEFINE wanted == {s \in Sockets : space[s] = "notifications"}
  <2>1. /\ wanted \in SUBSET Sockets /\ Emit(p, m, "notifications", Everyone, wanted)
        /\ \A s \in wanted :
              Open(s) => space[s] = "notifications" /\ Everyone \in rooms[s] \cup {s, Everyone}
    BY <1>2 DEF Broadcast
  <2> HIDE DEF wanted
  <2> QED
    BY <1>2, <2>1, EmitDelivers DEF Broadcast
<1>3. CASE HandleMessage(p, m)
  <2>1. PICK u \in Users :
          users[p][u] # NoSocket /\ Emit(p, m, "chat", users[p][u], {latest[p][u]})
    BY <1>3 DEF HandleMessage
  <2> DEFINE wanted == {latest[p][u]}
  <2>2. users[p][u] = latest[p][u] /\ users[p][u] \in Sockets
    BY <2>1 DEF TypeOK, ChatFindsTheLatest
  <2>3. /\ wanted \in SUBSET Sockets /\ Emit(p, m, "chat", users[p][u], wanted)
        /\ \A s \in wanted :
              Open(s) => space[s] = "chat" /\ users[p][u] \in rooms[s] \cup {s, Everyone}
    BY <2>1, <2>2, SocketsAssumption DEF LatestAtHome
  <2> HIDE DEF wanted
  <2> QED
    BY <1>3, <2>2, <2>3, EmitDelivers DEF HandleMessage
<1> QED
  BY <1>1, <1>2, <1>3

(* Redis hands a message to an adapter, or loses it. *)
LEMMA DeliveryKeeps ==
    ASSUME SocketInvariant, NEW m \in Messages, Deliver(m) \/ Lose(m)
    PROVE  Delivery'
<1> /\ TypeOK /\ NewIsNowhere /\ OnItsWayOnce /\ DueIsOnItsWay /\ AtMostOnce
  BY DEF SocketInvariant
<1>1. PICK d \in network[m] :
        /\ network' = [network EXCEPT ![m] = @ \ {d}]
        /\ \/ /\ received' = Reaches(m, InRoom(d[1], d[2], kind[m], target[m]))
              /\ due' = [due EXCEPT ![m] = @ \ InRoom(d[1], d[2], kind[m], target[m])]
           \/ /\ received' = received
              /\ due' = [due EXCEPT ![m] = {s \in @ : <<home[s], born[s]>> # d}]
  BY DEF Deliver, Lose
<1> DEFINE some == InRoom(d[1], d[2], kind[m], target[m])
<1>2. UNCHANGED <<adapter, sockets, registry, target, kind>>
  BY DEF Deliver, Lose
<1>3. /\ home' = home /\ born' = born /\ link' = link /\ space' = space /\ rooms' = rooms
      /\ userId' = userId /\ userSockets' = userSockets /\ latest' = latest
  BY <1>2 DEF sockets, registry
<1>4. d = <<d[1], d[2]>>
  BY DEF TypeOK
<1>5. \A s \in some : s \in Sockets /\ Open(s) /\ <<home[s], born[s]>> = d
  BY <1>4 DEF InRoom
<1>6. \A l \in Messages, s \in Sockets :
        received'[l][s] = received[l][s] \/ (l = m /\ s \in some /\ received'[l][s] = received[l][s] + 1)
  BY <1>1 DEF Reaches, TypeOK
<1>7. \A l \in Messages : network'[l] = IF l = m THEN network[l] \ {d} ELSE network[l]
  BY <1>1 DEF TypeOK
<1>8. \A l \in Messages : \A s \in due'[l] :
        /\ s \in due[l]
        /\ l = m => s \notin some \/ <<home[s], born[s]>> # d
  BY <1>1 DEF TypeOK
<1>9. \A s \in some : received[m][s] = 0
  BY <1>5 DEF OnItsWayOnce
<1> HIDE DEF some
<1>10. NewIsNowhere'
  BY <1>3, <1>5, <1>6 DEF NewIsNowhere, Open
<1>11. AtMostOnce'
  BY <1>6, <1>9 DEF AtMostOnce
<1>12. OnItsWayOnce'
  <2>1. ASSUME NEW l \in Messages, NEW s \in Sockets,
               Open(s), <<home[s], born[s]>> \in network'[l]
        PROVE  received'[l][s] = 0
    <3>1. <<home[s], born[s]>> \in network[l] /\ (l = m => <<home[s], born[s]>> # d)
      BY <1>7, <2>1
    <3>2. received[l][s] = 0
      BY <2>1, <3>1 DEF OnItsWayOnce
    <3>3. l = m => s \notin some
      BY <1>5, <3>1
    <3> QED
      BY <1>6, <3>2, <3>3
  <2>2. ASSUME NEW l \in Messages, ~Sent(l)
        PROVE  network'[l] = {} /\ \A s \in Sockets : received'[l][s] = 0
    <3>1. network[l] = {} /\ \A s \in Sockets : received[l][s] = 0
      BY <2>2 DEF OnItsWayOnce
    <3>2. l # m
      BY <3>1
    <3> QED
      BY <1>6, <1>7, <3>1, <3>2
  <2> QED
    BY <1>2, <1>3, <2>1, <2>2 DEF OnItsWayOnce, Sent, Open
<1>13. DueIsOnItsWay'
  <2>1. ASSUME NEW l \in Messages, NEW s \in due'[l]
        PROVE  /\ <<home[s], born[s]>> \in network'[l]
               /\ s \in InRoom(home[s], born[s], kind[l], target[l])
    <3>1. /\ <<home[s], born[s]>> \in network[l]
          /\ s \in InRoom(home[s], born[s], kind[l], target[l])
      BY <1>8 DEF DueIsOnItsWay
    <3>2. ASSUME l = m, <<home[s], born[s]>> = d PROVE FALSE
      <4>1. home[s] = d[1] /\ born[s] = d[2]
        BY <3>2
      <4>2. s \in some
        BY <3>1, <3>2, <4>1 DEF some
      <4> QED
        BY <1>8, <3>2, <4>2
    <3> QED
      BY <1>7, <3>1, <3>2
  <2>2. \A q, g, k, x : InRoom(q, g, k, x)' = InRoom(q, g, k, x)
    BY <1>3 DEF InRoom, Open
  <2>3. target' = target /\ kind' = kind
    BY <1>2
  <2> QED
    BY <1>3, <2>1, <2>2, <2>3 DEF DueIsOnItsWay
<1> QED
  BY <1>10, <1>11, <1>12, <1>13 DEF Delivery

(* Nothing that happens to sockets that are not new changes what is known  *)
(* of new ones.                                                            *)
LEMMA SocketsKeepDelivery ==
    ASSUME SocketInvariant,
           \A m \in Messages : received'[m] = received[m] /\ network'[m] \subseteq network[m],
           target' = target /\ kind' = kind,
           \A m \in Messages : ~Sent(m) => network'[m] = {},
           \A m \in Messages : \A s \in due'[m] :
              /\ s \in due[m] /\ Open(s)' /\ home'[s] = home[s] /\ born'[s] = born[s]
              /\ space'[s] = space[s] /\ rooms[s] \subseteq rooms'[s]
              /\ <<home[s], born[s]>> \in network[m] => <<home[s], born[s]>> \in network'[m],
           \A s \in Sockets : Open(s)' =>
              \/ link[s] = "none"
              \/ Open(s) /\ home'[s] = home[s] /\ born'[s] = born[s]
    PROVE  AtMostOnce' /\ OnItsWayOnce' /\ DueIsOnItsWay'
<1> /\ TypeOK /\ NewIsNowhere /\ OnItsWayOnce /\ DueIsOnItsWay /\ AtMostOnce
  BY DEF SocketInvariant
<1>1. AtMostOnce'
  BY DEF AtMostOnce
<1>2. OnItsWayOnce'
  BY DEF OnItsWayOnce, NewIsNowhere, Sent
<1>3. DueIsOnItsWay'
  <2> SUFFICES ASSUME NEW m \in Messages, NEW s \in due'[m]
               PROVE  /\ <<home[s], born[s]>> \in network'[m]
                      /\ s \in InRoom(home[s], born[s], kind[m], target[m])'
    BY DEF DueIsOnItsWay
  <2>1. /\ <<home[s], born[s]>> \in network[m]
        /\ s \in InRoom(home[s], born[s], kind[m], target[m])
    BY DEF DueIsOnItsWay
  <2> QED
    BY <2>1 DEF InRoom
<1> QED
  BY <1>1, <1>2, <1>3

(* Registering one socket is nothing to another. *)
LEMMA RegisterRest ==
    ASSUME TypeOK, NEW p \in Processes, NEW s \in Sockets, NEW u \in Users,
           RegisterSocketForUser(p, s, u)
    PROVE  /\ \A t \in Sockets \ {s} : rooms'[t] = rooms[t] /\ userId'[t] = userId[t]
           /\ rooms[s] \subseteq rooms'[s]
           /\ \A t \in Sockets \ {s}, q \in Processes, v \in Users :
                 t \in userSockets'[q][v] => t \in userSockets[q][v]
           /\ latest' = latest
  BY DEF RegisterSocketForUser, TypeOK

(* A new socket is owed nothing, and takes nothing away from the others. *)
LEMMA ConnectionKeepsDelivery ==
    ASSUME SocketInvariant, NEW p \in Processes, NEW s \in Sockets, HandleConnection(p, s)
    PROVE  Delivery'
<1> /\ TypeOK /\ NewIsNowhere /\ OnItsWayOnce /\ DueIsOnItsWay /\ AtMostOnce
  BY DEF SocketInvariant
<1>1. /\ link[s] = "none"
      /\ \A t \in Sockets \ {s} :
            link'[t] = link[t] /\ home'[t] = home[t] /\ born'[t] = born[t] /\ space'[t] = space[t]
      /\ link'[s] = "open"
      /\ received' = received /\ network' = network /\ target' = target /\ kind' = kind
      /\ due' = due /\ latest' = latest
  BY DEF HandleConnection, TypeOK, RegisterSocketForUser, registry, messages
<1>2. /\ \A t \in Sockets \ {s} : rooms'[t] = rooms[t] /\ userId'[t] = userId[t]
      /\ \A t \in Sockets \ {s}, q \in Processes, v \in Users :
            t \in userSockets'[q][v] => t \in userSockets[q][v]
  <2>1. CASE \E u \in Users : RegisterSocketForUser(p, s, u)
    <3>1. PICK u \in Users : RegisterSocketForUser(p, s, u)
      BY <2>1
    <3> QED
      BY <3>1, RegisterRest
  <2>2. CASE UNCHANGED registry
    BY <2>2 DEF registry
  <2> QED
    BY <2>1, <2>2 DEF HandleConnection
<1>3. NewIsNowhere'
  BY <1>1, <1>2 DEF NewIsNowhere
<1>4. \A m \in Messages : \A t \in due[m] : t \in Sockets \ {s} /\ Open(t)
  BY <1>1 DEF DueIsOnItsWay, InRoom, Open, TypeOK
<1>5. AtMostOnce' /\ OnItsWayOnce' /\ DueIsOnItsWay'
  <2>1. \A m \in Messages : ~Sent(m) => network[m] = {}
    BY DEF OnItsWayOnce
  <2>2. \A m \in Messages : \A t \in due[m] :
          /\ Open(t)' /\ home'[t] = home[t] /\ born'[t] = born[t]
          /\ space'[t] = space[t] /\ rooms[t] \subseteq rooms'[t]
    <3> SUFFICES ASSUME NEW m \in Messages, NEW t \in due[m]
                 PROVE  /\ Open(t)' /\ home'[t] = home[t] /\ born'[t] = born[t]
                        /\ space'[t] = space[t] /\ rooms[t] \subseteq rooms'[t]
      OBVIOUS
    <3>1. t \in Sockets \ {s} /\ Open(t)
      BY <1>4
    <3>2. rooms'[t] = rooms[t]
      BY <1>2, <3>1
    <3> QED
      BY <1>1, <3>1, <3>2 DEF Open, TypeOK
  <2>3. \A t \in Sockets : Open(t)' =>
          link[t] = "none" \/ (Open(t) /\ home'[t] = home[t] /\ born'[t] = born[t])
    BY <1>1 DEF Open
  <2> QED
    BY <1>1, <2>1, <2>2, <2>3, SocketsKeepDelivery
<1> QED
  BY <1>3, <1>5 DEF Delivery

(* A registration adds a room to a socket and moves no message. *)
LEMMA RegistrationKeepsDelivery ==
    ASSUME SocketInvariant, NEW s \in Sockets, OnRegister(s) \/ RegisterUser(s)
    PROVE  Delivery'
<1> /\ TypeOK /\ NewIsNowhere /\ OpenAtHome /\ OnItsWayOnce /\ DueIsOnItsWay /\ AtMostOnce
  BY DEF SocketInvariant
<1>1. UNCHANGED <<sockets, messages>> /\ link[s] = "open" /\ home[s] \in Processes
  BY DEF OnRegister, RegisterUser, OpenAtHome, Open
<1>2. /\ link' = link /\ home' = home /\ born' = born /\ space' = space
      /\ received' = received /\ network' = network /\ target' = target /\ kind' = kind
      /\ due' = due
  BY <1>1 DEF sockets, messages
<1>3. /\ \A t \in Sockets \ {s} : rooms'[t] = rooms[t] /\ userId'[t] = userId[t]
      /\ rooms[s] \subseteq rooms'[s]
      /\ \A t \in Sockets \ {s}, q \in Processes, v \in Users :
            /\ t \in userSockets'[q][v] => t \in userSockets[q][v]
            /\ latest'[q][v] = t => latest[q][v] = t
  <2>1. CASE OnRegister(s)
    <3>1. PICK u \in Users : RegisterSocketForUser(home[s], s, u)
      BY <2>1 DEF OnRegister
    <3> QED
      BY <1>1, <3>1, RegisterRest
  <2>2. CASE RegisterUser(s)
    <3>1. PICK u \in Users : latest' = [latest EXCEPT ![home[s]][u] = s]
      BY <2>2 DEF RegisterUser
    <3>2. \A q \in Processes, v \in Users : latest'[q][v] = latest[q][v] \/ latest'[q][v] = s
      BY <1>1, <3>1 DEF TypeOK
    <3>3. rooms' = rooms /\ userId' = userId /\ userSockets' = userSockets
      BY <2>2 DEF RegisterUser
    <3> QED
      BY <3>2, <3>3
  <2> QED
    BY <2>1, <2>2
<1>4. \A t \in Sockets : rooms[t] \subseteq rooms'[t]
  BY <1>3
<1>5. NewIsNowhere'
  BY <1>1, <1>2, <1>3 DEF NewIsNowhere
<1>6. AtMostOnce' /\ OnItsWayOnce' /\ DueIsOnItsWay'
  <2>1. \A m \in Messages : ~Sent(m) => network[m] = {}
    BY DEF OnItsWayOnce
  <2>2. \A m \in Messages : \A t \in due[m] : t \in Sockets /\ Open(t)
    BY DEF DueIsOnItsWay, InRoom, Open, TypeOK
  <2>3. \A t \in Sockets : Open(t)' <=> Open(t)
    BY <1>2 DEF Open
  <2> QED
    BY <1>2, <1>4, <2>1, <2>2, <2>3, SocketsKeepDelivery
<1> QED
  BY <1>5, <1>6 DEF Delivery

(* Sockets that close take along what was due to them. *)
LEMMA ClosingKeepsDelivery ==
    ASSUME SocketInvariant, NEW some \in SUBSET Sockets, Close(some),
           \A s \in some : Open(s),
           received' = received /\ target' = target /\ kind' = kind,
           \A m \in Messages : network'[m] \subseteq network[m],
           \A m \in Messages, s \in Sockets \ some :
              Open(s) /\ <<home[s], born[s]>> \in network[m]
                 => <<home[s], born[s]>> \in network'[m],
           userId' = userId,
           \A s \in Sockets, p \in Processes, u \in Users :
              /\ s \in userSockets'[p][u] => s \in userSockets[p][u]
              /\ latest'[p][u] = s => latest[p][u] = s
    PROVE  Delivery'
<1> /\ TypeOK /\ NewIsNowhere /\ OpenAtHome /\ OnItsWayOnce /\ DueIsOnItsWay /\ AtMostOnce
  BY DEF SocketInvariant
<1>1. \A s \in Sockets :
        /\ link'[s] = IF s \in some THEN "closed" ELSE link[s]
        /\ rooms'[s] = IF s \in some THEN {} ELSE rooms[s]
        /\ s \notin some => home'[s] = home[s] /\ born'[s] = born[s] /\ space'[s] = space[s]
  BY DEF Close
<1>2. \A m \in Messages : due'[m] = due[m] \ some
  BY DEF Close
<1>3. NewIsNowhere'
  BY <1>1 DEF NewIsNowhere
<1>4. AtMostOnce' /\ OnItsWayOnce' /\ DueIsOnItsWay'
  <2>1. \A m \in Messages : ~Sent(m) => network'[m] = {}
    BY DEF OnItsWayOnce
  <2>2. \A m \in Messages : \A t \in due[m] : t \in Sockets /\ Open(t)
    BY DEF DueIsOnItsWay, InRoom, Open, TypeOK
  <2>3. \A m \in Messages : \A t \in due'[m] :
          /\ t \in due[m] /\ Open(t)' /\ home'[t] = home[t] /\ born'[t] = born[t]
          /\ space'[t] = space[t] /\ rooms[t] \subseteq rooms'[t]
          /\ <<home[t], born[t]>> \in network[m] => <<home[t], born[t]>> \in network'[m]
    BY <1>1, <1>2, <2>2 DEF Open
  <2>4. \A t \in Sockets : Open(t)' =>
          link[t] = "none" \/ (Open(t) /\ home'[t] = home[t] /\ born'[t] = born[t])
    BY <1>1 DEF Open
  <2> QED
    BY <2>1, <2>3, <2>4, SocketsKeepDelivery
<1> QED
  BY <1>3, <1>4 DEF Delivery

(* A socket that disconnects takes along what was due to it. *)
LEMMA DisconnectKeepsDelivery ==
    ASSUME SocketInvariant, NEW s \in Sockets, HandleDisconnect(s)
    PROVE  Delivery'
<1> /\ TypeOK /\ OpenAtHome
  BY DEF SocketInvariant
<1> DEFINE some == {s}
<1>1. /\ some \in SUBSET Sockets /\ Close(some) /\ \A t \in some : Open(t)
      /\ received' = received /\ target' = target /\ kind' = kind /\ network' = network
      /\ userId' = userId /\ latest' = latest
  BY DEF HandleDisconnect
<1>2. home[s] \in Processes /\ ForgetSocket(s)
  BY DEF HandleDisconnect, OpenAtHome
<1>3. \A t \in Sockets, p \in Processes, u \in Users :
        t \in userSockets'[p][u] => t \in userSockets[p][u]
  BY <1>2 DEF ForgetSocket, TypeOK
<1> HIDE DEF some
<1> QED
  BY <1>1, <1>3, ClosingKeepsDelivery

(* So do the sockets of a process that ends, and what was on its way to    *)
(* the process is lost.                                                    *)
LEMMA RestartKeepsDelivery ==
    ASSUME SocketInvariant, NEW p \in Processes, Restart(p)
    PROVE  Delivery'
<1> /\ TypeOK /\ OpenAtHome
  BY DEF SocketInvariant
<1> DEFINE some == {s \in Sockets : home[s] = p}
<1>1. /\ some \in SUBSET Sockets /\ Close(some) /\ \A t \in some : Open(t)
      /\ received' = received /\ target' = target /\ kind' = kind
      /\ userId' = userId
  BY SocketsAssumption DEF Restart, OpenAtHome
<1>2. \A m \in Messages : network'[m] = {d \in network[m] : d[1] # p}
  BY DEF Restart
<1>3. \A m \in Messages, s \in Sockets \ some :
        Open(s) /\ <<home[s], born[s]>> \in network[m] => <<home[s], born[s]>> \in network'[m]
  BY <1>2
<1>4. \A t \in Sockets, q \in Processes, u \in Users :
        /\ t \in userSockets'[q][u] => t \in userSockets[q][u]
        /\ latest'[q][u] = t => latest[q][u] = t
  BY SocketsAssumption DEF Restart, TypeOK
<1>5. \A m \in Messages : network'[m] \subseteq network[m]
  BY <1>2
<1> HIDE DEF some
<1> QED
  BY <1>1, <1>3, <1>4, <1>5, ClosingKeepsDelivery

(* A new adapter changes nothing for the sockets that are there. *)
LEMMA AdapterKeeps ==
    ASSUME SocketInvariant, NEW p \in Processes, InstallAdapter(p)
    PROVE  Registries' /\ Delivery'
<1> /\ TypeOK /\ NewIsNowhere /\ OpenAtHome /\ LatestAtHome
    /\ RegistriesAgree /\ ChatFindsTheLatest
    /\ OnItsWayOnce /\ DueIsOnItsWay /\ AtMostOnce
  BY DEF SocketInvariant
<1>1. /\ space' = space /\ home' = home /\ link' = link /\ born' = born
      /\ userId' = userId /\ rooms' = rooms /\ userSockets' = userSockets /\ users' = users
      /\ latest' = latest /\ network' = network /\ target' = target /\ kind' = kind
      /\ received' = received /\ due' = due
  BY DEF InstallAdapter, sockets, registry, messages
<1>2. OpenAtHome'
  <2>1. \A q \in Processes : adapter[q] \in Adapters /\ adapter'[q] \in {adapter[q], adapter[q] + 1}
    BY DEF InstallAdapter, TypeOK
  <2>2. \A s \in Sockets : born[s] \in Adapters
    BY DEF TypeOK
  <2> QED
    BY <1>1, <2>1, <2>2 DEF OpenAtHome, Open, Adapters
<1>3. LatestAtHome' /\ RegistriesAgree' /\ ChatFindsTheLatest' /\ NewIsNowhere'
  BY <1>1 DEF LatestAtHome, RegistriesAgree, ChatFindsTheLatest, NewIsNowhere, Open
<1>4. AtMostOnce' /\ OnItsWayOnce' /\ DueIsOnItsWay'
  BY <1>1 DEF AtMostOnce, OnItsWayOnce, DueIsOnItsWay, Sent, InRoom, Open
<1> QED
  BY <1>2, <1>3, <1>4 DEF Registries, Delivery

(* Messages leave the registries alone. *)
LEMMA MessagesKeepRegistries ==
    ASSUME SocketInvariant, UNCHANGED <<adapter, sockets, registry>>
    PROVE  Registries'
<1> OpenAtHome /\ LatestAtHome /\ RegistriesAgree /\ ChatFindsTheLatest
  BY DEF SocketInvariant
<1>1. /\ space' = space /\ home' = home /\ link' = link /\ born' = born /\ adapter' = adapter
      /\ userId' = userId /\ rooms' = rooms /\ userSockets' = userSockets /\ users' = users
      /\ latest' = latest
  BY DEF sockets, registry
<1> QED
  BY <1>1 DEF Registries, OpenAtHome, LatestAtHome, RegistriesAgree, ChatFindsTheLatest, Open

(* The invariant holds of processes that have just started. *)
LEMMA InvariantInitially == Init => SocketInvariant
<1> SUFFICES ASSUME Init PROVE SocketInvariant
  OBVIOUS
<1>1. TypeOK
  BY DEF Init, TypeOK, Spaces, Adapters
<1>2. NewIsNowhere /\ OpenAtHome /\ LatestAtHome
  BY SocketsAssumption DEF Init, NewIsNowhere, OpenAtHome, LatestAtHome, Open
<1>3. RegistriesAgree /\ ChatFindsTheLatest
  BY DEF Init, RegistriesAgree, ChatFindsTheLatest, Open
<1>4. AtMostOnce /\ OnItsWayOnce /\ DueIsOnItsWay
  BY DEF Init, AtMostOnce, OnItsWayOnce, DueIsOnItsWay
<1> QED
  BY <1>1, <1>2, <1>3, <1>4 DEF SocketInvariant

(* Every step of a gateway, an adapter or the network keeps it. *)
LEMMA InvariantStep == SocketInvariant /\ [Next]_vars => SocketInvariant'
<1> SUFFICES ASSUME SocketInvariant, [Next]_vars PROVE Registries' /\ Delivery'
  BY TypeStep DEF SocketInvariant, Registries, Delivery
<1>1. ASSUME NEW p \in Processes, InstallAdapter(p) PROVE Registries' /\ Delivery'
  BY <1>1, AdapterKeeps
<1>2. ASSUME NEW p \in Processes, Restart(p) PROVE Registries' /\ Delivery'
  BY <1>2, RestartKeepsRegistries, RestartKeepsDelivery
<1>3. ASSUME NEW p \in Processes, NEW s \in Sockets, HandleConnection(p, s)
      PROVE  Registries' /\ Delivery'
  BY <1>3, ConnectionKeepsRegistries, ConnectionKeepsDelivery
<1>4. ASSUME NEW s \in Sockets, OnRegister(s) \/ RegisterUser(s)
      PROVE  Registries' /\ Delivery'
  BY <1>4, RegistrationKeepsRegistries, RegistrationKeepsDelivery
<1>5. ASSUME NEW s \in Sockets, HandleDisconnect(s) PROVE Registries' /\ Delivery'
  BY <1>5, DisconnectKeepsRegistries, DisconnectKeepsDelivery
<1>6. ASSUME NEW p \in Processes, NEW m \in Messages,
             EmitToUser(p, m) \/ Broadcast(p, m) \/ HandleMessage(p, m)
      PROVE  Registries' /\ Delivery'
  <2>1. UNCHANGED <<adapter, sockets, registry>>
    BY <1>6 DEF EmitToUser, Broadcast, HandleMessage
  <2> QED
    BY <1>6, <2>1, MessagesKeepRegistries, EmissionsDeliver
<1>7. ASSUME NEW m \in Messages, Deliver(m) \/ Lose(m) PROVE Registries' /\ Delivery'
  <2>1. UNCHANGED <<adapter, sockets, registry>>
    BY <1>7 DEF Deliver, Lose
  <2> QED
    BY <1>7, <2>1, MessagesKeepRegistries, DeliveryKeeps
<1>8. CASE UNCHANGED vars
  <2>1. UNCHANGED <<adapter, sockets, registry>>
    BY <1>8 DEF vars
  <2>2. /\ link' = link /\ home' = home /\ born' = born /\ space' = space /\ rooms' = rooms
        /\ userId' = userId /\ userSockets' = userSockets /\ latest' = latest
        /\ received' = received /\ network' = network /\ target' = target /\ kind' = kind
        /\ due' = due
    BY <1>8 DEF vars, sockets, registry, messages
  <2>3. Delivery'
    BY <2>2 DEF SocketInvariant, Delivery, NewIsNowhere, AtMostOnce, OnItsWayOnce,
                DueIsOnItsWay, Sent, InRoom, Open
  <2> QED
    BY <2>1, <2>3, MessagesKeepRegistries
<1> QED
  BY <1>1, <1>2, <1>3, <1>4, <1>5, <1>6, <1>7, <1>8 DEF Next

(* The maps, the rooms, the adapters and the messages on their way agree,  *)
(* on any number of processes, whoever connects, registers again, leaves,  *)
(* restarts or installs an adapter.                                        *)
THEOREM SocketInvariantHolds == Spec => []SocketInvariant
  BY InvariantInitially, InvariantStep, PTL DEF Spec

(* NotificationGateway's map and the rooms of the adapter agree. *)
THEOREM RegistriesAlwaysAgree == Spec => []RegistriesAgree
<1>1. SocketInvariant => RegistriesAgree
  BY DEF SocketInvariant
<1> QED
  BY <1>1, SocketInvariantHolds, PTL

(* ChatGatewayService finds the socket that registered last, and no other. *)
THEOREM ChatAlwaysFindsTheLatest == Spec => []ChatFindsTheLatest
<1>1. SocketInvariant => ChatFindsTheLatest
  BY DEF SocketInvariant
<1> QED
  BY <1>1, SocketInvariantHolds, PTL

(* No socket gets a message twice, whichever adapters its process has. *)
THEOREM NothingArrivesTwice == Spec => []AtMostOnce
<1>1. SocketInvariant => AtMostOnce
  BY DEF SocketInvariant
<1> QED
  BY <1>1, SocketInvariantHolds, PTL
=============================================================================
