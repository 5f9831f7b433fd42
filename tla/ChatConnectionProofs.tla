------------------------ MODULE ChatConnectionProofs ------------------------
(* Theorems about ChatConnection, for every value of its constants.        *)
EXTENDS ChatConnection, TLAPS, WellFoundedInduction

\* The variables an action may leave alone, spelled out.
USE DEF pageVars, managerVars, socketVars, agentVars, vars

\* What the way to the bridge needs of the types; Rest, below, has the others.
Types ==
  /\ mounted \in BOOLEAN /\ current \in Managers \cup {0}
  /\ shown \in ConnectionStatus
  /\ status \in [Managers -> ConnectionStatus \cup {"unused"}]
  /\ intentional \in [Managers -> BOOLEAN]
  /\ ws \in [Managers -> Sockets \cup {0}]
  /\ timer \in [Managers -> BOOLEAN]
  /\ socket \in [Sockets -> ReadyState]
  /\ owner \in [Sockets -> Managers \cup {0}]
  /\ tokens \in SUBSET Sockets
  /\ inbox \in [Sockets -> Seq(Messages)]
  /\ stage \in [Sockets -> Stage]
  /\ missions \in 0 .. MaxMissions /\ turn \in 0 .. missions
  /\ working => turn \in Turns

\* Manager m is the one the page uses.
Held(m) == mounted /\ current = m

\* A manager is used once, and destroyed exactly when the page has dropped it.
ManagersOwned ==
  /\ current # 0 => status[current] # "unused"
  /\ \A m \in Managers : status[m] = "unused" => ~intentional[m] /\ ~timer[m] /\ ws[m] = 0
  /\ \A m \in Managers : status[m] # "unused" => (intentional[m] <=> ~Held(m))

\* A socket belongs to one manager, which holds it until it has closed, unless the
\* manager was destroyed.
SocketsOwned ==
  /\ \A s \in Sockets : socket[s] # "unused" => owner[s] \in Managers /\ status[owner[s]] # "unused"
  /\ \A s \in tokens : socket[s] # "unused"
  /\ \A m \in Managers : ws[m] # 0 => owner[ws[m]] = m /\ socket[ws[m]] \in {"connecting", "open", "closing"}
  /\ \A s \in Sockets : socket[s] = "closing" /\ Held(owner[s]) => ws[owner[s]] = s

\* Only a ready bridge has announced itself.
Announced ==
  \A s \in Sockets : \A i \in 1 .. Len(inbox[s]) : inbox[s][i].kind = "sprite_ready" => stage[s] = "ready"

Owned == ManagersOwned /\ SocketsOwned /\ OneLiveSocket /\ SocketOrTimer

-----------------------------------------------------------------------------
(* Lemmas about the data                                                   *)

\* Neither managers nor sockets are numbered 0, which stands for none.
LEMMA Numbers == 0 \notin Managers /\ 0 \notin Sockets
BY DEF Managers, Sockets

\* What a message that says the sprite is ready, or is of the system, can be.
LEMMA MessageKinds ==
  /\ \A e \in SystemEvent : System(e) \in Messages /\ System(e).kind = e
  /\ \A e \in AgentEventType, t \in Turns :
       Agent(e, t) \in Messages /\ Agent(e, t).kind # "sprite_ready"
  /\ \A k \in CanvasCommand, c \in Cards :
       Canvas(k, c) \in Messages /\ Canvas(k, c).kind # "sprite_ready"
  /\ \A msg \in Noise : msg \in Messages /\ msg.kind # "sprite_ready"
  /\ \A msg \in Messages : msg.type = "system" => msg.kind \in SystemEvent
<1>1. ASSUME NEW e \in SystemEvent PROVE System(e) \in Messages /\ System(e).kind = e
  <2>1. System(e) \in Messages
    BY DEF Messages
  <2>2. System(e).kind = e
    BY DEF System, Message
  <2>3. QED
    BY <2>1, <2>2
<1>2. ASSUME NEW e \in AgentEventType, NEW t \in Turns
      PROVE  Agent(e, t) \in Messages /\ Agent(e, t).kind # "sprite_ready" /\ Agent(e, t).type # "system"
  <2>1. Agent(e, t) \in Messages
    BY DEF Messages
  <2>2. Agent(e, t).kind # "sprite_ready" /\ Agent(e, t).type # "system"
    BY DEF Agent, Message, AgentEventType
  <2>3. QED
    BY <2>1, <2>2
<1>3. ASSUME NEW k \in CanvasCommand, NEW c \in Cards
      PROVE  Canvas(k, c) \in Messages /\ Canvas(k, c).kind # "sprite_ready" /\ Canvas(k, c).type # "system"
  <2>1. Canvas(k, c) \in Messages
    BY DEF Messages
  <2>2. Canvas(k, c).kind # "sprite_ready" /\ Canvas(k, c).type # "system"
    BY DEF Canvas, Message, CanvasCommand
  <2>3. QED
    BY <2>1, <2>2
<1>4. ASSUME NEW msg \in Noise
      PROVE  msg \in Messages /\ msg.kind # "sprite_ready" /\ msg.type # "system"
  <2>1. msg \in Messages
    BY DEF Messages
  <2>2. msg.kind # "sprite_ready" /\ msg.type # "system"
    BY DEF Noise, Canvas, Message
  <2>3. QED
    BY <2>1, <2>2
<1>5. ASSUME NEW msg \in Messages, msg.type = "system" PROVE msg.kind \in SystemEvent
  <2>1. \/ msg \in {System(e) : e \in SystemEvent}
        \/ msg \in {Agent(e, t) : e \in AgentEventType, t \in Turns}
        \/ msg \in {Canvas(k, c) : k \in CanvasCommand, c \in Cards}
        \/ msg \in Noise
    BY DEF Messages
  <2>2. QED
    BY <1>1, <1>2, <1>3, <1>4, <1>5, <2>1
<1>6. QED
  BY <1>1, <1>2, <1>3, <1>4, <1>5

\* The sockets of S end.
LEMMA SilenceType ==
  ASSUME Types, NEW S, NEW state \in ReadyState, Silence(S, state)
  PROVE  /\ socket' \in [Sockets -> ReadyState] /\ inbox' \in [Sockets -> Seq(Messages)]
         /\ \A s \in Sockets : socket'[s] = IF s \in S THEN state ELSE socket[s]
         /\ \A s \in Sockets : inbox'[s] = IF s \in S THEN <<>> ELSE inbox[s]
BY DEF Types, Silence

\* A message is put into, or taken from, an inbox.
LEMMA PostType ==
  ASSUME Types, NEW s \in Sockets, NEW msg \in Messages, Post(s, msg)
  PROVE  /\ inbox' \in [Sockets -> Seq(Messages)]
         /\ \A t \in Sockets \ {s} : inbox'[t] = inbox[t]
         /\ \A i \in 1 .. Len(inbox'[s]) : inbox'[s][i] = msg \/ (i \in 1 .. Len(inbox[s]) /\ inbox'[s][i] = inbox[s][i])
<1>1. inbox' = [inbox EXCEPT ![s] = Append(@, msg)]
  BY DEF Post
<1>2. inbox[s] \in Seq(Messages)
  BY DEF Types
<1>3. inbox'[s] = Append(inbox[s], msg) /\ \A t \in Sockets \ {s} : inbox'[t] = inbox[t]
  BY <1>1 DEF Types
<1>4. inbox' \in [Sockets -> Seq(Messages)]
  BY <1>1, <1>2 DEF Types
<1>5. QED
  BY <1>2, <1>3, <1>4

\* Taking the first message leaves an inbox of messages and no other inbox changed.
LEMMA TakeType ==
  ASSUME Types, NEW s \in Sockets, inbox[s] # <<>>, inbox' = [inbox EXCEPT ![s] = Tail(@)]
  PROVE  /\ inbox' \in [Sockets -> Seq(Messages)]
         /\ Head(inbox[s]) \in Messages /\ Head(inbox[s]) = inbox[s][1] /\ 1 \in 1 .. Len(inbox[s])
         /\ \A t \in Sockets \ {s} : inbox'[t] = inbox[t]
         /\ \A i \in 1 .. Len(inbox'[s]) : i + 1 \in 1 .. Len(inbox[s]) /\ inbox'[s][i] = inbox[s][i + 1]
<1>1. inbox[s] \in Seq(Messages)
  BY DEF Types
<1>2. inbox'[s] = Tail(inbox[s]) /\ \A t \in Sockets \ {s} : inbox'[t] = inbox[t]
  BY DEF Types
<1>3. inbox' \in [Sockets -> Seq(Messages)]
  BY <1>1 DEF Types
<1>4. QED
  BY <1>1, <1>2, <1>3

\* A message that does not say the sprite is ready changes nothing of Announced.
LEMMA PostAnnounced ==
  ASSUME Types, Announced, NEW s \in Sockets, NEW msg \in Messages, Post(s, msg), stage' \in [Sockets -> Stage],
         \A t \in Sockets \ {s} : stage'[t] = stage[t],
         stage[s] = "ready" => stage'[s] = "ready",
         msg.kind = "sprite_ready" => stage'[s] = "ready"
  PROVE  Announced'
<1>1. ASSUME NEW t \in Sockets, NEW i \in 1 .. Len(inbox'[t]), inbox'[t][i].kind = "sprite_ready"
      PROVE  stage'[t] = "ready"
  <2>1. CASE t = s
    <3>1. inbox'[s][i] = msg \/ (i \in 1 .. Len(inbox[s]) /\ inbox'[s][i] = inbox[s][i])
      BY <1>1, <2>1, PostType
    <3>2. QED
      BY <1>1, <2>1, <3>1 DEF Announced
  <2>2. CASE t # s
    <3>1. inbox'[t] = inbox[t] /\ stage'[t] = stage[t]
      BY <2>2, PostType
    <3>2. QED
      BY <1>1, <3>1 DEF Announced
  <2>3. QED
    BY <2>1, <2>2
<1>2. QED
  BY <1>1 DEF Announced

-----------------------------------------------------------------------------
(* One way to the bridge                                                   *)

\* The chat page before the first click satisfies the invariant of the connection.
LEMMA TypesInit == Init => Types /\ Owned /\ Announced /\ ConnectedIsReady
<1> SUFFICES ASSUME Init PROVE Types /\ Owned /\ Announced /\ ConnectedIsReady
  OBVIOUS
<1> USE Numbers
<1>1. Types
  <2>1. mounted \in BOOLEAN /\ intentional \in [Managers -> BOOLEAN] /\ timer \in [Managers -> BOOLEAN]
    BY DEF Init
  <2>2. missions \in 0 .. MaxMissions /\ turn \in 0 .. missions
    BY ChatAssumption DEF Init
  <2>3. working => turn \in Turns
    BY DEF Init
  <2>4. QED
    BY <2>1, <2>2, <2>3 DEF Init, Types, ConnectionStatus, ReadyState, Stage
<1>2. Owned
  BY DEF Init, Owned, ManagersOwned, SocketsOwned, OneLiveSocket, SocketOrTimer, Live, Held
<1>3. Announced
  BY DEF Init, Announced
<1>4. ConnectedIsReady
  BY DEF Init, ConnectedIsReady
<1>5. QED
  BY <1>1, <1>2, <1>3, <1>4

\* The page's manager is destroyed; ws, timer and status of the others stay.
LEMMA DestroyType ==
  ASSUME Types, Owned, Destroy
  PROVE  /\ intentional' \in [Managers -> BOOLEAN] /\ timer' \in [Managers -> BOOLEAN]
         /\ ws' \in [Managers -> Sockets \cup {0}]
         /\ status' \in [Managers -> ConnectionStatus \cup {"unused"}]
         /\ socket' \in [Sockets -> ReadyState] /\ inbox' \in [Sockets -> Seq(Messages)]
         /\ \A s \in Sockets : ~Live(s)'
         /\ \A s \in Sockets : socket'[s] = socket[s] \/ (socket'[s] = "closing" /\ owner[s] = current /\ Live(s))
         /\ \A s \in Sockets : inbox'[s] \in {inbox[s], <<>>}
         /\ \A m \in Managers \ {current} :
              /\ intentional'[m] = intentional[m] /\ timer'[m] = timer[m]
              /\ ws'[m] = ws[m] /\ status'[m] = status[m]
         /\ current # 0 => /\ intentional'[current] /\ ~timer'[current]
                           /\ ws'[current] = 0 /\ status'[current] = "disconnected"
<1> USE Numbers
<1>1. Silence(Hung(current), "closing") /\ "closing" \in ReadyState
  BY DEF Destroy, ReadyState
<1>2. /\ socket' \in [Sockets -> ReadyState] /\ inbox' \in [Sockets -> Seq(Messages)]
      /\ \A s \in Sockets : socket'[s] = IF s \in Hung(current) THEN "closing" ELSE socket[s]
      /\ \A s \in Sockets : inbox'[s] = IF s \in Hung(current) THEN <<>> ELSE inbox[s]
  BY <1>1, SilenceType
<1>3. \A s \in Sockets : Live(s) <=> s \in Hung(current)
  BY DEF Hung, Owned, OneLiveSocket
<1>4. \A s \in Sockets : Live(s) => owner[s] = current
  BY DEF Owned, OneLiveSocket
<1>5. "disconnected" \in ConnectionStatus
  BY DEF ConnectionStatus
<1>6. /\ intentional' \in [Managers -> BOOLEAN] /\ timer' \in [Managers -> BOOLEAN]
      /\ ws' \in [Managers -> Sockets \cup {0}]
      /\ status' \in [Managers -> ConnectionStatus \cup {"unused"}]
  BY <1>5 DEF Types, Destroy, OfCurrent, ClearsTimer
<1>7. /\ \A m \in Managers \ {current} :
           /\ intentional'[m] = intentional[m] /\ timer'[m] = timer[m]
           /\ ws'[m] = ws[m] /\ status'[m] = status[m]
      /\ current # 0 => /\ intentional'[current] /\ ~timer'[current]
                        /\ ws'[current] = 0 /\ status'[current] = "disconnected"
  BY DEF Types, Destroy, OfCurrent, ClearsTimer
<1>8. \A s \in Sockets : ~Live(s)'
  BY <1>2, <1>3 DEF Live
<1>9. QED
  BY <1>2, <1>3, <1>4, <1>6, <1>7, <1>8

\* A page that lets its manager go has no way to the bridge.
LEMMA DestroyOwned ==
  ASSUME Types, Owned, Destroy, UNCHANGED <<owner, tokens>>,
         (mounted' = FALSE /\ current' = current) \/ (mounted' = mounted /\ current' = 0)
  PROVE  Owned'
<1> USE Numbers
<1>1. \A m \in Managers : ~Held(m)'
  BY DEF Held
<1>0. ASSUME NEW m \in Managers
      PROVE  \/ status'[m] = "disconnected" /\ intentional'[m] /\ ~timer'[m] /\ ws'[m] = 0
             \/ /\ ~Held(m) /\ status'[m] = status[m] /\ intentional'[m] = intentional[m]
                /\ timer'[m] = timer[m] /\ ws'[m] = ws[m]
  <2>1. CASE m = current
    BY <2>1, DestroyType
  <2>2. CASE m # current
    BY <2>2, DestroyType DEF Held
  <2>3. QED
    BY <2>1, <2>2
<1>2. ManagersOwned'
  <2>1. current' # 0 => status'[current'] # "unused"
    BY <1>0 DEF Types, Owned, ManagersOwned
  <2>2. ASSUME NEW m \in Managers, status'[m] = "unused"
        PROVE  ~intentional'[m] /\ ~timer'[m] /\ ws'[m] = 0
    BY <1>0, <2>2 DEF Owned, ManagersOwned
  <2>3. ASSUME NEW m \in Managers, status'[m] # "unused" PROVE intentional'[m]
    BY <1>0, <2>3 DEF Owned, ManagersOwned
  <2>4. QED
    BY <1>1, <2>1, <2>2, <2>3 DEF ManagersOwned
<1>3. SocketsOwned'
  <2>1. \A s \in Sockets : socket'[s] # "unused" => socket[s] # "unused"
    BY DestroyType DEF Live
  <2>2. \A m \in Managers : status[m] # "unused" => status'[m] # "unused"
    BY DestroyType
  <2>3. \A s \in Sockets : socket'[s] # "unused" => owner'[s] \in Managers /\ status'[owner'[s]] # "unused"
    BY <2>1, <2>2 DEF Owned, SocketsOwned
  <2>4. \A s \in tokens' : socket'[s] # "unused"
    BY DestroyType DEF Types, Owned, SocketsOwned
  <2>5. ASSUME NEW m \in Managers, ws'[m] # 0
        PROVE  owner'[ws'[m]] = m /\ socket'[ws'[m]] \in {"connecting", "open", "closing"}
    <3>1. m # current /\ ws'[m] = ws[m]
      BY <2>5, DestroyType
    <3>2. ws[m] \in Sockets /\ owner[ws[m]] = m /\ socket[ws[m]] \in {"connecting", "open", "closing"}
      BY <2>5, <3>1 DEF Types, Owned, SocketsOwned
    <3>3. QED
      BY <3>1, <3>2, DestroyType
  <2>6. \A s \in Sockets : socket'[s] = "closing" /\ Held(owner[s])' => ws'[owner'[s]] = s
    BY <1>1, <2>3 DEF Types
  <2>7. QED
    BY <2>3, <2>4, <2>5, <2>6 DEF SocketsOwned
<1>4. OneLiveSocket'
  BY DestroyType DEF OneLiveSocket
<1>5. SocketOrTimer'
  <2>1. ASSUME NEW m \in Managers, status'[m] # "unused" PROVE ~timer'[m] /\ ws'[m] = 0
    BY <1>0, <2>1 DEF Owned, SocketOrTimer, Held
  <2>2. QED
    BY <1>1, <2>1 DEF SocketOrTimer, Held
<1>6. QED
  BY <1>2, <1>3, <1>4, <1>5 DEF Owned

\* Managers are told a status, sockets open or begin to close.
LEMMA KeepsOwned ==
  ASSUME Types, Owned, UNCHANGED <<mounted, current, intentional, ws, timer, owner>>,
         \A m \in Managers : status'[m] = "unused" <=> status[m] = "unused",
         \A s \in Sockets : \/ socket'[s] = socket[s]
                            \/ socket[s] = "connecting" /\ socket'[s] = "open"
                            \/ Live(s) /\ socket'[s] = "closing",
         \A s \in tokens' : s \in Sockets /\ socket[s] # "unused"
  PROVE  Owned'
<1> USE Numbers
<1>1. \A s \in Sockets : Live(s)' => Live(s)
  BY DEF Live
<1>2. ManagersOwned'
  BY DEF Types, Owned, ManagersOwned, Held
<1>3. \A s \in Sockets : socket'[s] # "unused" <=> socket[s] # "unused"
  BY DEF Live
<1>4. SocketsOwned'
  <2>1. \A s \in Sockets : socket'[s] # "unused" => owner'[s] \in Managers /\ status'[owner'[s]] # "unused"
    BY <1>3 DEF Owned, SocketsOwned
  <2>2. \A s \in tokens' : socket'[s] # "unused"
    BY <1>3
  <2>3. ASSUME NEW m \in Managers, ws'[m] # 0
        PROVE  owner'[ws'[m]] = m /\ socket'[ws'[m]] \in {"connecting", "open", "closing"}
    <3>1. ws[m] \in Sockets /\ owner[ws[m]] = m /\ socket[ws[m]] \in {"connecting", "open", "closing"}
      BY <2>3 DEF Types, Owned, SocketsOwned
    <3>2. QED
      BY <3>1
  <2>4. ASSUME NEW s \in Sockets, socket'[s] = "closing", Held(owner[s])' PROVE ws'[owner'[s]] = s
    <3>1. Held(owner[s])
      BY <2>4 DEF Held
    <3>2. CASE socket[s] = "closing"
      BY <3>1, <3>2 DEF Owned, SocketsOwned
    <3>3. CASE Live(s)
      BY <3>3 DEF Owned, OneLiveSocket
    <3>4. QED
      BY <2>4, <3>2, <3>3
  <2>5. QED
    BY <2>1, <2>2, <2>3, <2>4 DEF SocketsOwned
<1>5. OneLiveSocket'
  BY <1>1 DEF Owned, OneLiveSocket
<1>6. SocketOrTimer'
  BY DEF Owned, SocketOrTimer
<1>7. QED
  BY <1>2, <1>4, <1>5, <1>6 DEF Owned

\* What onclose does to manager m.
LEMMA OnCloseType ==
  ASSUME Types, NEW m \in Managers, OnClose(m)
  PROVE  /\ ws' \in [Managers -> Sockets \cup {0}] /\ timer' \in [Managers -> BOOLEAN]
         /\ status' \in [Managers -> ConnectionStatus \cup {"unused"}] /\ shown' \in ConnectionStatus
         /\ ws'[m] = 0 /\ (timer'[m] <=> ~intentional[m] \/ timer[m])
         /\ \A n \in Managers \ {m} : ws'[n] = ws[n] /\ timer'[n] = timer[n] /\ status'[n] = status[n]
         /\ status'[m] \in {status[m], "disconnected"}
         /\ shown' = shown \/ (shown' = "disconnected" /\ ~intentional[m])
         /\ intentional[m] => status'[m] = status[m] /\ shown' = shown
         /\ ~intentional[m] => shown' = "disconnected"
<1>1. ws' = [ws EXCEPT ![m] = 0]
  BY DEF OnClose
<1>2. "disconnected" \in ConnectionStatus
  BY DEF ConnectionStatus
<1>3. CASE intentional[m]
  <2>1. UNCHANGED <<status, shown, timer>>
    BY <1>3 DEF OnClose, GivesUp
  <2>2. QED
    BY <1>1, <1>3, <2>1 DEF Types
<1>4. CASE ~intentional[m]
  <2>1. /\ status' = [status EXCEPT ![m] = "disconnected"] /\ shown' = "disconnected"
        /\ timer' = [timer EXCEPT ![m] = TRUE]
    BY <1>4 DEF OnClose, GivesUp, setStatus
  <2>2. ws'[m] = 0 /\ timer'[m] /\ status'[m] = "disconnected"
    BY <1>1, <2>1 DEF Types
  <2>3. /\ ws' \in [Managers -> Sockets \cup {0}] /\ timer' \in [Managers -> BOOLEAN]
        /\ status' \in [Managers -> ConnectionStatus \cup {"unused"}] /\ shown' \in ConnectionStatus
    BY <1>1, <1>2, <2>1 DEF Types
  <2>4. \A n \in Managers \ {m} : ws'[n] = ws[n] /\ timer'[n] = timer[n] /\ status'[n] = status[n]
    BY <1>1, <2>1 DEF Types
  <2>5. QED
    BY <1>4, <2>1, <2>2, <2>3, <2>4
<1>5. QED
  BY <1>3, <1>4

\* A socket closes, the held one or one of a manager that was destroyed.
LEMMA ClosedOwned ==
  ASSUME Types, Owned, NEW s \in Sockets, Live(s) \/ socket[s] = "closing", OnClose(owner[s]),
         socket'[s] = "closed", \A t \in Sockets \ {s} : socket'[t] = socket[t],
         UNCHANGED <<mounted, current, intentional, owner, tokens>>
  PROVE  Owned'
<1> USE Numbers
<1> DEFINE m == owner[s]
<1>1. socket[s] # "unused" /\ m \in Managers /\ status[m] # "unused"
  BY DEF Live, Owned, SocketsOwned
<1> HIDE DEF m
<1>2. /\ ws'[m] = 0 /\ (timer'[m] <=> ~intentional[m] \/ timer[m])
      /\ \A n \in Managers \ {m} : ws'[n] = ws[n] /\ timer'[n] = timer[n] /\ status'[n] = status[n]
      /\ status'[m] \in {status[m], "disconnected"}
  BY <1>1, OnCloseType DEF m
<1>3. Held(m) => ws[m] = s
  BY DEF m, Owned, SocketsOwned, OneLiveSocket, Held
<1>4. intentional[m] <=> ~Held(m)
  BY <1>1 DEF Owned, ManagersOwned
<1>5. \A n \in Managers : status'[n] = "unused" <=> status[n] = "unused"
  BY <1>1, <1>2
<1>6. ManagersOwned'
  <2>1. \A n \in Managers : status'[n] = "unused" => ~intentional'[n] /\ ~timer'[n] /\ ws'[n] = 0
    BY <1>1, <1>2, <1>5 DEF Owned, ManagersOwned
  <2>2. QED
    BY <1>5, <2>1 DEF Types, Owned, ManagersOwned, Held
<1>7. SocketsOwned'
  <2>1. \A t \in Sockets : socket'[t] # "unused" => owner'[t] \in Managers /\ status'[owner'[t]] # "unused"
    BY <1>1, <1>5 DEF Owned, SocketsOwned
  <2>2. \A t \in tokens' : socket'[t] # "unused"
    BY DEF Types, Owned, SocketsOwned
  <2>3. ASSUME NEW n \in Managers, ws'[n] # 0
        PROVE  owner'[ws'[n]] = n /\ socket'[ws'[n]] \in {"connecting", "open", "closing"}
    <3>1. n # m /\ ws'[n] = ws[n]
      BY <1>2, <2>3
    <3>2. ws[n] \in Sockets /\ owner[ws[n]] = n /\ socket[ws[n]] \in {"connecting", "open", "closing"}
      BY <2>3, <3>1 DEF Types, Owned, SocketsOwned
    <3>3. ws[n] # s
      BY <3>1, <3>2 DEF m
    <3>4. QED
      BY <3>1, <3>2, <3>3
  <2>4. ASSUME NEW t \in Sockets, socket'[t] = "closing", Held(owner[t])' PROVE ws'[owner'[t]] = t
    <3>1. t # s /\ socket[t] = "closing" /\ Held(owner[t]) /\ owner[t] \in Managers
      BY <2>4 DEF Held, Owned, SocketsOwned
    <3>2. ws[owner[t]] = t
      BY <3>1 DEF Owned, SocketsOwned
    <3>3. owner[t] # m
      BY <1>3, <3>1, <3>2
    <3>4. QED
      BY <1>2, <3>1, <3>2, <3>3
  <2>5. QED
    BY <2>1, <2>2, <2>3, <2>4 DEF SocketsOwned
<1>8. OneLiveSocket'
  <2>1. ASSUME NEW t \in Sockets, Live(t)'
        PROVE  mounted' /\ current' # 0 /\ owner'[t] = current' /\ ws'[current'] = t
    <3>1. t # s /\ Live(t)
      BY <2>1 DEF Live
    <3>2. mounted /\ current # 0 /\ owner[t] = current /\ ws[current] = t
      BY <3>1 DEF Owned, OneLiveSocket
    <3>3. current # m /\ current \in Managers
      BY <1>3, <3>1, <3>2 DEF Held, Types
    <3>4. QED
      BY <1>2, <3>2, <3>3
  <2>2. QED
    BY <2>1 DEF OneLiveSocket
<1>9. SocketOrTimer'
  <2>1. ASSUME NEW n \in Managers, status'[n] # "unused"
        PROVE  IF mounted' /\ current' = n THEN timer'[n] <=> ws'[n] = 0 ELSE ~timer'[n] /\ ws'[n] = 0
    <3>1. CASE n = m
      BY <1>1, <1>2, <1>4, <3>1 DEF Held, Owned, SocketOrTimer
    <3>2. CASE n # m
      BY <1>2, <1>5, <2>1, <3>2 DEF Owned, SocketOrTimer
    <3>3. QED
      BY <3>1, <3>2
  <2>2. QED
    BY <2>1 DEF SocketOrTimer
<1>10. QED
  BY <1>6, <1>7, <1>8, <1>9 DEF Owned

\* A timer opens the next socket of the page's manager, which has none.
LEMMA TimerOwned ==
  ASSUME Types, Owned, NEW m \in Managers, NEW s \in Sockets, TimerFires(m, s)
  PROVE  /\ Types' /\ Owned'
         /\ shown' = "connecting" /\ socket[s] = "unused"
<1> USE Numbers
<1>1. timer[m] /\ socket[s] = "unused"
  BY DEF TimerFires, IsNext
<1>2. status[m] # "unused" /\ mounted /\ current = m /\ ws[m] = 0
  BY <1>1 DEF Owned, ManagersOwned, SocketOrTimer
<1>3. /\ timer' = [timer EXCEPT ![m] = FALSE]
      /\ intentional' = [intentional EXCEPT ![m] = FALSE]
      /\ status' = [status EXCEPT ![m] = "connecting"] /\ shown' = "connecting"
      /\ ws' = [ws EXCEPT ![m] = s]
      /\ socket' = [socket EXCEPT ![s] = "connecting"]
      /\ owner' = [owner EXCEPT ![s] = m]
      /\ UNCHANGED <<mounted, current, tokens, inbox, stage, missions, turn, working>>
  BY <1>2 DEF TimerFires, setStatus
<1>4. /\ timer' \in [Managers -> BOOLEAN] /\ intentional' \in [Managers -> BOOLEAN]
      /\ ws' \in [Managers -> Sockets \cup {0}] /\ owner' \in [Sockets -> Managers \cup {0}]
      /\ status' \in [Managers -> ConnectionStatus \cup {"unused"}] /\ shown' \in ConnectionStatus
      /\ socket' \in [Sockets -> ReadyState]
  BY <1>3 DEF Types, ConnectionStatus, ReadyState
<1>5. Types'
  BY <1>3, <1>4 DEF Types
<1>6. /\ ~timer'[m] /\ ~intentional'[m] /\ status'[m] = "connecting" /\ ws'[m] = s
      /\ socket'[s] = "connecting" /\ owner'[s] = m
      /\ \A n \in Managers \ {m} : /\ timer'[n] = timer[n] /\ intentional'[n] = intentional[n]
                                  /\ status'[n] = status[n] /\ ws'[n] = ws[n]
      /\ \A t \in Sockets \ {s} : socket'[t] = socket[t] /\ owner'[t] = owner[t]
  BY <1>3 DEF Types
<1>7. ManagersOwned'
  <2>1. ASSUME NEW n \in Managers
        PROVE  /\ status'[n] = "unused" => ~intentional'[n] /\ ~timer'[n] /\ ws'[n] = 0
               /\ status'[n] # "unused" => (intentional'[n] <=> ~(mounted' /\ current' = n))
    <3>1. CASE n = m
      BY <1>2, <1>3, <1>6, <3>1
    <3>2. CASE n # m
      BY <1>3, <1>6, <3>2 DEF Owned, ManagersOwned, Held
    <3>3. QED
      BY <3>1, <3>2
  <2>2. QED
    BY <1>2, <1>3, <1>6, <2>1 DEF ManagersOwned, Held
<1>8. SocketsOwned'
  <2>1. ASSUME NEW t \in Sockets, socket'[t] # "unused"
        PROVE  owner'[t] \in Managers /\ status'[owner'[t]] # "unused"
    BY <1>2, <1>6, <2>1 DEF Owned, SocketsOwned
  <2>2. \A t \in tokens' : socket'[t] # "unused"
    BY <1>3, <1>6 DEF Types, Owned, SocketsOwned
  <2>3. ASSUME NEW n \in Managers, ws'[n] # 0
        PROVE  owner'[ws'[n]] = n /\ socket'[ws'[n]] \in {"connecting", "open", "closing"}
    <3>1. CASE n = m
      BY <1>6, <3>1
    <3>2. CASE n # m
      <4>1. ws'[n] = ws[n] /\ ws[n] \in Sockets
        BY <1>6, <2>3, <3>2 DEF Types
      <4>2. owner[ws[n]] = n /\ socket[ws[n]] \in {"connecting", "open", "closing"}
        BY <2>3, <4>1 DEF Owned, SocketsOwned
      <4>3. QED
        BY <1>1, <1>6, <4>1, <4>2
    <3>3. QED
      BY <3>1, <3>2
  <2>4. ASSUME NEW t \in Sockets, socket'[t] = "closing", mounted' /\ current' = owner'[t]
        PROVE  ws'[owner'[t]] = t
    <3>1. t # s /\ socket[t] = "closing" /\ owner[t] = m /\ Held(owner[t])
      BY <1>2, <1>3, <1>6, <2>4 DEF Held
    <3>2. ws[m] = t
      BY <3>1 DEF Owned, SocketsOwned
    <3>3. QED
      BY <1>2, <3>2
  <2>5. QED
    BY <2>1, <2>2, <2>3, <2>4 DEF SocketsOwned, Held
<1>9. OneLiveSocket'
  <2>1. \A t \in Sockets : ~Live(t)
    BY <1>2 DEF Owned, OneLiveSocket
  <2>2. \A t \in Sockets : Live(t)' => t = s
    BY <1>6, <2>1 DEF Live
  <2>3. QED
    BY <1>2, <1>3, <1>6, <2>2 DEF OneLiveSocket
<1>10. SocketOrTimer'
  BY <1>2, <1>3, <1>6 DEF Owned, SocketOrTimer
<1>11. QED
  BY <1>1, <1>3, <1>5, <1>7, <1>8, <1>9, <1>10 DEF Owned

\* Connecting drops the manager the page had and makes another with a socket.
LEMMA ConnectOwned ==
  ASSUME Types, Owned, NEW m \in Managers, NEW s \in Sockets, HandleConnect(m, s)
  PROVE  /\ Types' /\ Owned' /\ shown' = "connecting"
         /\ \A t \in Sockets : inbox'[t] = inbox[t] \/ inbox'[t] = <<>>
<1> USE Numbers
<1>1. mounted /\ status[m] = "unused" /\ socket[s] = "unused"
  BY DEF HandleConnect, IsNext
<1>2. m # current /\ ~intentional[m] /\ ~timer[m] /\ ws[m] = 0
  BY <1>1 DEF Owned, ManagersOwned
<1>3. \A t \in Sockets : Live(t) <=> t \in Hung(current)
  BY DEF Hung, Owned, OneLiveSocket
<1>4. s \notin Hung(current)
  BY <1>1, <1>3 DEF Live
<1>5. /\ intentional' = OfCurrent(intentional, TRUE) /\ timer' = OfCurrent(timer, FALSE)
      /\ ws' = [OfCurrent(ws, 0) EXCEPT ![m] = s]
      /\ status' = [OfCurrent(status, "disconnected") EXCEPT ![m] = "connecting"]
      /\ shown' = "connecting" /\ current' = m
      /\ socket' = [t \in Sockets |-> IF t = s THEN "connecting"
                                     ELSE IF t \in Hung(current) THEN "closing" ELSE socket[t]]
      /\ inbox' = [t \in Sockets |-> IF t \in Hung(current) THEN <<>> ELSE inbox[t]]
      /\ owner' = [owner EXCEPT ![s] = m]
      /\ UNCHANGED <<mounted, tokens, stage, missions, turn, working>>
  BY DEF HandleConnect, ClearsTimer
<1>6. /\ intentional' \in [Managers -> BOOLEAN] /\ timer' \in [Managers -> BOOLEAN]
      /\ ws' \in [Managers -> Sockets \cup {0}] /\ owner' \in [Sockets -> Managers \cup {0}]
  BY <1>5 DEF Types, OfCurrent
<1>7. /\ status' \in [Managers -> ConnectionStatus \cup {"unused"}] /\ shown' \in ConnectionStatus
      /\ socket' \in [Sockets -> ReadyState] /\ inbox' \in [Sockets -> Seq(Messages)]
  BY <1>5 DEF Types, OfCurrent, ConnectionStatus, ReadyState
<1>8. Types'
  BY <1>5, <1>6, <1>7 DEF Types
<1>9. /\ ~intentional'[m] /\ ~timer'[m] /\ ws'[m] = s /\ status'[m] = "connecting"
      /\ socket'[s] = "connecting" /\ owner'[s] = m
  BY <1>2, <1>5 DEF Types, OfCurrent
<1>10. ASSUME NEW n \in Managers, n # m
       PROVE  \/ status'[n] = "disconnected" /\ intentional'[n] /\ ~timer'[n] /\ ws'[n] = 0
              \/ /\ ~Held(n) /\ status'[n] = status[n] /\ intentional'[n] = intentional[n]
                 /\ timer'[n] = timer[n] /\ ws'[n] = ws[n]
  <2>1. CASE n = current
    BY <1>5, <1>10, <2>1 DEF Types, OfCurrent
  <2>2. CASE n # current
    BY <1>5, <1>10, <2>2 DEF Types, OfCurrent, Held
  <2>3. QED
    BY <2>1, <2>2
<1>11. /\ \A t \in Sockets \ {s} : /\ owner'[t] = owner[t]
                                 /\ socket'[t] = IF Live(t) THEN "closing" ELSE socket[t]
       /\ \A t \in Sockets : inbox'[t] = inbox[t] \/ inbox'[t] = <<>>
  BY <1>3, <1>5 DEF Types
<1>12. ManagersOwned'
  <2>1. ASSUME NEW n \in Managers
        PROVE  /\ status'[n] = "unused" => ~intentional'[n] /\ ~timer'[n] /\ ws'[n] = 0
               /\ status'[n] # "unused" => (intentional'[n] <=> ~(mounted' /\ current' = n))
    <3>1. CASE n = m
      BY <1>1, <1>5, <1>9, <3>1
    <3>2. CASE n # m
      BY <1>5, <1>10, <3>2 DEF Owned, ManagersOwned
    <3>3. QED
      BY <3>1, <3>2
  <2>2. QED
    BY <1>5, <1>9, <2>1 DEF ManagersOwned, Held
<1>13. \A n \in Managers : status[n] # "unused" => status'[n] # "unused"
  BY <1>1, <1>10
<1>14. SocketsOwned'
  <2>1. ASSUME NEW t \in Sockets, socket'[t] # "unused"
        PROVE  owner'[t] \in Managers /\ status'[owner'[t]] # "unused"
    <3>1. CASE t = s
      BY <1>9, <3>1
    <3>2. CASE t # s
      <4>1. socket[t] # "unused" /\ owner'[t] = owner[t]
        BY <1>11, <2>1, <3>2 DEF Live
      <4>2. QED
        BY <1>13, <4>1 DEF Owned, SocketsOwned
    <3>3. QED
      BY <3>1, <3>2
  <2>2. ASSUME NEW t \in tokens' PROVE socket'[t] # "unused"
    <3>1. t \in Sockets /\ socket[t] # "unused"
      BY <1>5 DEF Types, Owned, SocketsOwned
    <3>2. QED
      BY <1>1, <1>11, <3>1
  <2>3. ASSUME NEW n \in Managers, ws'[n] # 0
        PROVE  owner'[ws'[n]] = n /\ socket'[ws'[n]] \in {"connecting", "open", "closing"}
    <3>1. CASE n = m
      BY <1>9, <3>1
    <3>2. CASE n # m
      <4>1. ws'[n] = ws[n] /\ ws[n] \in Sockets
        BY <1>10, <2>3, <3>2 DEF Types
      <4>2. owner[ws[n]] = n /\ socket[ws[n]] \in {"connecting", "open", "closing"}
        BY <2>3, <4>1 DEF Owned, SocketsOwned
      <4>3. QED
        BY <1>1, <1>11, <4>1, <4>2
    <3>3. QED
      BY <3>1, <3>2
  <2>4. ASSUME NEW t \in Sockets, socket'[t] = "closing", mounted' /\ current' = owner'[t]
        PROVE  ws'[owner'[t]] = t
    <3>1. t # s
      BY <1>9, <2>4
    <3>2. owner[t] = m /\ socket[t] # "unused"
      BY <1>5, <1>11, <2>4, <3>1 DEF Live
    <3>3. QED
      BY <1>1, <3>2 DEF Owned, SocketsOwned
  <2>5. QED
    BY <2>1, <2>2, <2>3, <2>4 DEF SocketsOwned, Held
<1>15. OneLiveSocket'
  <2>1. \A t \in Sockets : Live(t)' => t = s
    BY <1>11 DEF Live
  <2>2. QED
    BY <1>1, <1>5, <1>9, <2>1 DEF OneLiveSocket
<1>16. SocketOrTimer'
  <2>1. ASSUME NEW n \in Managers, n # m, status'[n] # "unused" PROVE ~timer'[n] /\ ws'[n] = 0
    BY <1>10, <2>1 DEF Owned, SocketOrTimer, Held
  <2>2. ASSUME NEW n \in Managers, status'[n] # "unused"
        PROVE  IF mounted' /\ current' = n THEN timer'[n] <=> ws'[n] = 0 ELSE ~timer'[n] /\ ws'[n] = 0
    <3>1. CASE n = m
      BY <1>1, <1>5, <1>9, <3>1
    <3>2. CASE n # m
      BY <1>5, <2>1, <2>2, <3>2
    <3>3. QED
      BY <3>1, <3>2
  <2>3. QED
    BY <2>2 DEF SocketOrTimer
<1>17. QED
  BY <1>5, <1>8, <1>11, <1>12, <1>14, <1>15, <1>16 DEF Owned

-----------------------------------------------------------------------------
(* What the bridge has announced                                           *)

ChatInv == Types /\ Owned /\ Announced /\ ConnectedIsReady

\* No inbox gets a message.
LEMMA ClearedAnnounced ==
  ASSUME Announced, \A s \in Sockets : inbox'[s] = inbox[s] \/ inbox'[s] = <<>>,
         \A s \in Sockets : (stage[s] = "ready" => stage'[s] = "ready") \/ inbox'[s] = <<>>
  PROVE  Announced'
<1>1. ASSUME NEW s \in Sockets, NEW i \in 1 .. Len(inbox'[s]), inbox'[s][i].kind = "sprite_ready"
      PROVE  stage'[s] = "ready"
  <2>1. inbox'[s] # <<>>
    OBVIOUS
  <2>2. QED
    BY <1>1, <2>1 DEF Announced
<1>2. QED
  BY <1>1 DEF Announced

\* Nothing of what the page shows of its connection changes.
LEMMA ReadyKept ==
  ASSUME Types, ConnectedIsReady, UNCHANGED <<mounted, current, shown>>,
         current # 0 => ws'[current] = ws[current] /\ status'[current] = status[current],
         \A s \in Sockets : stage[s] = "ready" => stage'[s] = "ready" \/ ws[current] # s
  PROVE  ConnectedIsReady'
BY Numbers DEF Types, ConnectedIsReady

\* Steps of the bridge, the agent and the user that leave the connection alone.
LEMMA QuietKeeps ==
  ASSUME ChatInv, UNCHANGED <<mounted, current, shown, status, intentional, ws, timer, socket, owner>>,
         tokens' \subseteq tokens,
         stage' \in [Sockets -> Stage], \A s \in Sockets : stage[s] = "ready" => stage'[s] = "ready",
         missions' \in 0 .. MaxMissions, turn' \in 0 .. missions', working' => turn' \in Turns,
         inbox' \in [Sockets -> Seq(Messages)], Announced'
  PROVE  ChatInv'
<1>1. Types'
  BY DEF ChatInv, Types
<1>2. Owned'
  <2>1. \A s \in tokens' : s \in Sockets /\ socket[s] # "unused"
    BY DEF ChatInv, Types, Owned, SocketsOwned
  <2>2. QED
    BY <2>1, KeepsOwned DEF ChatInv
<1>3. ConnectedIsReady'
  BY ReadyKept DEF ChatInv
<1>4. QED
  BY <1>1, <1>2, <1>3 DEF ChatInv

\* Message msg is put into one inbox, or lost.
LEMMA PostKeeps ==
  ASSUME ChatInv, NEW msg \in Messages, msg.kind # "sprite_ready",
         inbox' = inbox \/ \E s \in Sockets : Post(s, msg),
         UNCHANGED <<mounted, current, shown, status, intentional, ws, timer, socket, owner, tokens, stage>>,
         missions' \in 0 .. MaxMissions, turn' \in 0 .. missions', working' => turn' \in Turns
  PROVE  ChatInv'
<1>1. stage' \in [Sockets -> Stage]
  BY DEF ChatInv, Types
<1>2. CASE inbox' = inbox
  <2>1. Announced'
    BY <1>2 DEF ChatInv, Announced
  <2>2. QED
    BY <1>1, <1>2, <2>1, QuietKeeps DEF ChatInv, Types
<1>3. ASSUME NEW s \in Sockets, Post(s, msg) PROVE ChatInv'
  <2>1. Announced'
    BY <1>1, <1>3, PostAnnounced DEF ChatInv
  <2>2. inbox' \in [Sockets -> Seq(Messages)]
    BY <1>3, PostType DEF ChatInv
  <2>3. QED
    BY <1>1, <2>1, <2>2, QuietKeeps
<1>4. QED
  BY <1>2, <1>3

\* A message of the agent.
LEMMA EmitPosts ==
  ASSUME NEW msg, Emit(msg)
  PROVE  inbox' = inbox \/ \E s \in Sockets : Post(s, msg)
<1>1. CASE Ready = {}
  BY <1>1 DEF Emit
<1>2. CASE Ready # {}
  <2>1. (CHOOSE s \in Ready : TRUE) \in Ready
    BY <1>2
  <2>2. (CHOOSE s \in Ready : TRUE) \in Sockets
    BY <2>1 DEF Ready
  <2>3. QED
    BY <1>2, <2>2 DEF Emit
<1>3. QED
  BY <1>1, <1>2

-----------------------------------------------------------------------------
(* Every step                                                              *)

\* No click on the page breaks the invariant of the connection.
LEMMA PageInductive ==
  ASSUME ChatInv, Page
  PROVE  ChatInv'
<1> USE DEF ChatInv
<1>1. ASSUME NEW m \in Managers, NEW s \in Sockets, HandleConnect(m, s) PROVE ChatInv'
  <2>1. /\ Types' /\ Owned' /\ shown' = "connecting"
        /\ \A t \in Sockets : inbox'[t] = inbox[t] \/ inbox'[t] = <<>>
    BY <1>1, ConnectOwned
  <2>2. stage' = stage
    BY <1>1 DEF HandleConnect
  <2>3. Announced'
    BY <2>1, <2>2, ClearedAnnounced
  <2>4. QED
    BY <2>1, <2>3 DEF ConnectedIsReady
<1>2. CASE HandleDisconnect \/ Unmount
  <2>1. /\ Destroy /\ UNCHANGED <<owner, tokens, stage, missions, turn, working>>
        /\ shown' \in {shown, "disconnected"}
        /\ \/ mounted' = FALSE /\ current' = current
           \/ mounted' = mounted /\ current' = 0 /\ shown' = "disconnected"
    BY <1>2 DEF HandleDisconnect, Unmount
  <2>2. Owned'
    BY <2>1, DestroyOwned
  <2>3. mounted' \in BOOLEAN /\ current' \in Managers \cup {0} /\ shown' \in ConnectionStatus
    BY <2>1 DEF Types, ConnectionStatus
  <2>4. /\ intentional' \in [Managers -> BOOLEAN] /\ timer' \in [Managers -> BOOLEAN]
        /\ ws' \in [Managers -> Sockets \cup {0}]
        /\ status' \in [Managers -> ConnectionStatus \cup {"unused"}]
        /\ socket' \in [Sockets -> ReadyState] /\ inbox' \in [Sockets -> Seq(Messages)]
        /\ \A s \in Sockets : inbox'[s] \in {inbox[s], <<>>}
    BY <2>1, DestroyType
  <2>5. Types'
    BY <2>1, <2>3, <2>4 DEF Types
  <2>6. Announced'
    BY <2>1, <2>4, ClearedAnnounced
  <2>7. ConnectedIsReady'
    BY <2>1 DEF ConnectedIsReady
  <2>8. QED
    BY <2>2, <2>5, <2>6, <2>7
<1>3. CASE HandleSend
  <2>1. missions' \in 0 .. MaxMissions /\ turn' \in 0 .. missions'
    BY <1>3, ChatAssumption DEF HandleSend, Types
  <2>2. Announced'
    BY <1>3 DEF HandleSend, Announced
  <2>3. QED
    BY <1>3, <2>1, <2>2, QuietKeeps DEF HandleSend, Types
<1>4. ASSUME NEW c \in Cards, HandleCardClose(c) PROVE ChatInv'
  <2>1. Announced'
    BY <1>4 DEF HandleCardClose, Announced
  <2>2. QED
    BY <1>4, <2>1, QuietKeeps DEF HandleCardClose, Types
<1>5. QED
  BY <1>1, <1>2, <1>3, <1>4 DEF Page

\* Nor does anything the agent sends.
LEMMA AgentInductive ==
  ASSUME ChatInv, AgentSteps
  PROVE  ChatInv'
<1> USE DEF ChatInv
<1>1. ASSUME NEW k \in CanvasCommand, NEW c \in Cards, AgentDraws(k, c) PROVE ChatInv'
  <2> DEFINE msg == Canvas(k, c)
  <2>1. msg \in Messages /\ msg.kind # "sprite_ready"
    BY MessageKinds
  <2>2. /\ Emit(msg)
        /\ UNCHANGED <<mounted, current, shown, status, intentional, ws, timer, socket, owner, tokens,
                       stage, missions, turn, working>>
    BY <1>1 DEF AgentDraws
  <2> HIDE DEF msg
  <2>3. inbox' = inbox \/ \E s \in Sockets : Post(s, msg)
    BY <2>2, EmitPosts
  <2>4. missions' \in 0 .. MaxMissions /\ turn' \in 0 .. missions' /\ (working' => turn' \in Turns)
    BY <2>2 DEF Types
  <2>5. QED
    BY <2>1, <2>2, <2>3, <2>4, PostKeeps
<1>2. ASSUME NEW e \in AgentEventType, AgentTalks(e) PROVE ChatInv'
  <2>1. /\ Emit(Agent(e, turn'))
        /\ \/ turn < missions /\ turn' = turn + 1
           \/ working /\ turn' = turn
        /\ UNCHANGED <<mounted, current, shown, status, intentional, ws, timer, socket, owner, tokens,
                       stage, missions>>
    BY <1>2 DEF AgentTalks
  <2>2. turn \in 0 .. missions /\ missions \in 0 .. MaxMissions /\ MaxMissions \in Nat
    BY ChatAssumption DEF Types
  <2>3. missions' \in 0 .. MaxMissions /\ turn' \in 0 .. missions' /\ turn' \in Turns
    <3>1. CASE turn < missions /\ turn' = turn + 1
      BY <2>1, <2>2, <3>1 DEF Turns
    <3>2. CASE working /\ turn' = turn
      BY <2>1, <2>2, <3>2 DEF Types
    <3>3. QED
      BY <2>1, <3>1, <3>2
  <2>4. Agent(e, turn') \in Messages /\ Agent(e, turn').kind # "sprite_ready"
    BY <2>3, MessageKinds
  <2>5. inbox' = inbox \/ \E s \in Sockets : Post(s, Agent(e, turn'))
    BY <2>1, EmitPosts
  <2>6. QED
    BY <2>1, <2>3, <2>4, <2>5, PostKeeps
<1>3. QED
  BY <1>1, <1>2 DEF AgentSteps

\* A socket closes: the page is told if it is the one it uses.
LEMMA ClosedKeeps ==
  ASSUME ChatInv, NEW s \in Sockets, Live(s) \/ socket[s] = "closing", OnClose(owner[s]),
         Silence({s}, "closed"), stage' = [stage EXCEPT ![s] = "new"],
         UNCHANGED <<mounted, current, intentional, owner, tokens, missions, turn, working>>
  PROVE  ChatInv'
<1> USE Numbers DEF ChatInv
<1> DEFINE m == owner[s]
<1>1. m \in Managers /\ status[m] # "unused" /\ OnClose(m)
  BY DEF Live, Owned, SocketsOwned
<1>2. /\ socket' \in [Sockets -> ReadyState] /\ inbox' \in [Sockets -> Seq(Messages)]
      /\ \A t \in Sockets : socket'[t] = IF t \in {s} THEN "closed" ELSE socket[t]
      /\ \A t \in Sockets : inbox'[t] = IF t \in {s} THEN <<>> ELSE inbox[t]
  BY SilenceType DEF ReadyState
<1>3. /\ stage' \in [Sockets -> Stage]
      /\ \A t \in Sockets \ {s} : stage'[t] = stage[t]
  BY DEF Types, Stage
<1>4. /\ ws' \in [Managers -> Sockets \cup {0}] /\ timer' \in [Managers -> BOOLEAN]
      /\ status' \in [Managers -> ConnectionStatus \cup {"unused"}] /\ shown' \in ConnectionStatus
  BY <1>1, OnCloseType
<1>5. /\ \A n \in Managers \ {m} : ws'[n] = ws[n] /\ status'[n] = status[n]
      /\ intentional[m] => shown' = shown
      /\ ~intentional[m] => shown' = "disconnected"
  BY <1>1, OnCloseType
<1>6. Types'
  BY <1>2, <1>3, <1>4 DEF Types
<1>7. Owned'
  BY <1>2, ClosedOwned
<1>8. Announced'
  BY <1>2, <1>3, ClearedAnnounced
<1>9. ConnectedIsReady'
  <2>1. SUFFICES ASSUME mounted, shown' = "connected"
                 PROVE  /\ current # 0 /\ ws'[current] # 0
                        /\ stage'[ws'[current]] = "ready" /\ status'[current] = "connected"
    BY DEF ConnectedIsReady
  <2>2. shown = "connected" /\ intentional[m]
    BY <1>5, <2>1
  <2>3. m # current
    BY <1>1, <2>1, <2>2 DEF Owned, ManagersOwned, Held
  <2>4. /\ current # 0 /\ ws[current] # 0
        /\ stage[ws[current]] = "ready" /\ status[current] = "connected"
    BY <2>1, <2>2 DEF ConnectedIsReady
  <2>5. ws[current] \in Sockets /\ owner[ws[current]] = current /\ current \in Managers
    BY <2>4 DEF Types, Owned, SocketsOwned
  <2>6. ws[current] # s
    BY <2>3, <2>5
  <2>7. QED
    BY <1>3, <1>5, <2>3, <2>4, <2>5, <2>6
<1>10. QED
  BY <1>6, <1>7, <1>8, <1>9

\* A manager that is used tells the page it is not connected, and sockets may
\* open or begin to close.
LEMMA ToldKeeps ==
  ASSUME ChatInv, NEW m \in Managers, status[m] # "unused",
         NEW new \in ConnectionStatus \ {"connected"}, setStatus(m, new),
         UNCHANGED <<mounted, current, intentional, ws, timer, owner, stage, missions, turn, working>>,
         socket' \in [Sockets -> ReadyState],
         \A s \in Sockets : \/ socket'[s] = socket[s]
                            \/ socket[s] = "connecting" /\ socket'[s] = "open"
                            \/ Live(s) /\ socket'[s] = "closing",
         \A s \in tokens' : s \in Sockets /\ socket[s] # "unused",
         inbox' \in [Sockets -> Seq(Messages)],
         \A s \in Sockets : inbox'[s] = inbox[s] \/ inbox'[s] = <<>>
  PROVE  ChatInv'
<1> USE DEF ChatInv
<1>1. /\ status' \in [Managers -> ConnectionStatus \cup {"unused"}]
      /\ shown' \in ConnectionStatus /\ shown' # "connected"
      /\ \A n \in Managers : status'[n] = "unused" <=> status[n] = "unused"
  BY DEF setStatus, Types, ConnectionStatus
<1>2. Types'
  BY <1>1 DEF Types
<1>3. Owned'
  BY <1>1, KeepsOwned
<1>4. Announced'
  BY ClearedAnnounced
<1>5. ConnectedIsReady'
  BY <1>1 DEF ConnectedIsReady
<1>6. QED
  BY <1>2, <1>3, <1>4, <1>5

\* What a message makes of the status of manager m.
LEMMA SystemMessage ==
  ASSUME Types, NEW m \in Managers, NEW msg \in Messages, handleSystemMessage(m, msg)
  PROVE  \/ UNCHANGED <<status, shown>>
         \/ \E new \in {"sprite_waking", "connected", "error"} :
              setStatus(m, new) /\ (new = "connected" => msg.kind = "sprite_ready")
<1>1. CASE msg.type # "system" \/ StatusAfter(msg.kind, status[m]) = {}
  BY <1>1 DEF handleSystemMessage
<1>2. CASE msg.type = "system" /\ StatusAfter(msg.kind, status[m]) # {}
  <2>1. \E new \in StatusAfter(msg.kind, status[m]) : setStatus(m, new)
    BY <1>2 DEF handleSystemMessage
  <2>2. msg.kind \in SystemEvent
    BY <1>2, MessageKinds
  <2>3. /\ StatusAfter(msg.kind, status[m]) \subseteq {"sprite_waking", "connected", "error"}
        /\ "connected" \in StatusAfter(msg.kind, status[m]) => msg.kind = "sprite_ready"
    BY <2>2 DEF StatusAfter, SystemEvent
  <2>4. QED
    BY <2>1, <2>3
<1>3. QED
  BY <1>1, <1>2

\* Nor does a message that is read, of whatever kind it is.
LEMMA ReceiveKeeps ==
  ASSUME ChatInv, NEW s \in Sockets, Receive(s)
  PROVE  ChatInv'
<1> USE Numbers DEF ChatInv
<1> DEFINE m   == owner[s]
           msg == Head(inbox[s])
<1>1. /\ socket[s] = "open" /\ inbox[s] # <<>> /\ inbox' = [inbox EXCEPT ![s] = Tail(@)]
      /\ handleSystemMessage(m, msg) \/ UNCHANGED <<status, shown>>
      /\ UNCHANGED <<mounted, current, intentional, ws, timer, socket, owner, tokens, stage,
                     missions, turn, working>>
  BY DEF Receive
<1>2. mounted /\ m = current /\ m \in Managers /\ ws[m] = s /\ status[m] # "unused"
  BY <1>1 DEF Live, Owned, OneLiveSocket, SocketsOwned
<1>3. /\ inbox' \in [Sockets -> Seq(Messages)]
      /\ msg \in Messages /\ msg = inbox[s][1] /\ 1 \in 1 .. Len(inbox[s])
      /\ \A t \in Sockets \ {s} : inbox'[t] = inbox[t]
      /\ \A i \in 1 .. Len(inbox'[s]) : i + 1 \in 1 .. Len(inbox[s]) /\ inbox'[s][i] = inbox[s][i + 1]
  BY <1>1, TakeType
<1>4. msg.kind = "sprite_ready" => stage[s] = "ready"
  BY <1>3 DEF Announced
<1> HIDE DEF m, msg
<1>5. \/ UNCHANGED <<status, shown>>
      \/ \E new \in {"sprite_waking", "connected", "error"} :
           setStatus(m, new) /\ (new = "connected" => msg.kind = "sprite_ready")
  BY <1>1, <1>2, <1>3, SystemMessage
<1>6. Announced'
  <2>1. ASSUME NEW t \in Sockets, NEW i \in 1 .. Len(inbox'[t]), inbox'[t][i].kind = "sprite_ready"
        PROVE  stage[t] = "ready"
    <3>1. CASE t = s
      <4>1. i + 1 \in 1 .. Len(inbox[s]) /\ inbox[s][i + 1].kind = "sprite_ready"
        BY <1>3, <2>1, <3>1
      <4>2. QED
        BY <3>1, <4>1 DEF Announced
    <3>2. CASE t # s
      <4>1. i \in 1 .. Len(inbox[t]) /\ inbox[t][i].kind = "sprite_ready"
        BY <1>3, <2>1, <3>2
      <4>2. QED
        BY <4>1 DEF Announced
    <3>3. QED
      BY <3>1, <3>2
  <2>2. QED
    BY <1>1, <2>1 DEF Announced
<1>7. CASE UNCHANGED <<status, shown>>
  <2>1. missions' \in 0 .. MaxMissions /\ turn' \in 0 .. missions' /\ (working' => turn' \in Turns)
    BY <1>1 DEF Types
  <2>2. QED
    BY <1>1, <1>3, <1>6, <1>7, <2>1, QuietKeeps DEF Types
<1>8. ASSUME NEW new \in {"sprite_waking", "connected", "error"}, setStatus(m, new),
             new = "connected" => msg.kind = "sprite_ready"
      PROVE  ChatInv'
  <2>0. new \in ConnectionStatus /\ new # "unused"
    BY DEF ConnectionStatus
  <2>1. /\ status' \in [Managers -> ConnectionStatus \cup {"unused"}] /\ shown' \in ConnectionStatus
        /\ status'[m] = new /\ shown' = new
        /\ \A n \in Managers : status'[n] = "unused" <=> status[n] = "unused"
    BY <1>2, <1>8, <2>0 DEF setStatus, Types
  <2>2. Types'
    BY <1>1, <1>3, <2>1 DEF Types
  <2>3. Owned'
    <3>1. \A t \in tokens' : t \in Sockets /\ socket[t] # "unused"
      BY <1>1 DEF Types, Owned, SocketsOwned
    <3>2. QED
      BY <1>1, <2>1, <3>1, KeepsOwned
  <2>4. ConnectedIsReady'
    BY <1>1, <1>2, <1>4, <1>8, <2>1 DEF ConnectedIsReady
  <2>5. QED
    BY <1>6, <2>2, <2>3, <2>4
<1>9. QED
  BY <1>5, <1>7, <1>8

\* Nor does an event of a socket or of a timer.
LEMMA BrowserInductive ==
  ASSUME ChatInv, Browser
  PROVE  ChatInv'
<1> USE DEF ChatInv
<1>1. ASSUME NEW s \in Sockets, Opened(s) PROVE ChatInv'
  <2>1. /\ socket[s] = "connecting" /\ socket' = [socket EXCEPT ![s] = "open"]
        /\ tokens' = tokens \cup {s} /\ setStatus(owner[s], "authenticating")
        /\ UNCHANGED <<mounted, current, intentional, ws, timer, owner, inbox, stage,
                       missions, turn, working>>
    BY <1>1 DEF Opened
  <2>2. owner[s] \in Managers /\ status[owner[s]] # "unused"
    BY <2>1 DEF Owned, SocketsOwned
  <2>3. /\ socket' \in [Sockets -> ReadyState] /\ inbox' \in [Sockets -> Seq(Messages)]
        /\ \A t \in Sockets : socket'[t] = socket[t] \/ (socket[t] = "connecting" /\ socket'[t] = "open")
    BY <2>1 DEF Types, ReadyState
  <2>4. \A t \in tokens' : t \in Sockets /\ socket[t] # "unused"
    BY <2>1 DEF Types, Owned, SocketsOwned
  <2>5. "authenticating" \in ConnectionStatus \ {"connected"}
    BY DEF ConnectionStatus
  <2>6. QED
    BY <2>1, <2>2, <2>3, <2>4, <2>5, ToldKeeps
<1>2. ASSUME NEW s \in Sockets, TokenArrives(s) PROVE ChatInv'
  <2>1. /\ tokens' \subseteq tokens
        /\ \/ stage' = stage
           \/ \E t : stage[t] = "new" /\ stage' = [stage EXCEPT ![t] = "authed"]
        /\ UNCHANGED <<mounted, current, shown, status, intentional, ws, timer, socket, owner, inbox,
                       missions, turn, working>>
    BY <1>2 DEF TokenArrives
  <2>2. stage' \in [Sockets -> Stage] /\ \A t \in Sockets : stage[t] = "ready" => stage'[t] = "ready"
    BY <2>1 DEF Types, Stage
  <2>3. Announced'
    BY <2>1, <2>2, ClearedAnnounced
  <2>4. QED
    BY <2>1, <2>2, <2>3, QuietKeeps DEF Types
<1>3. ASSUME NEW s \in Sockets, Closed(s) PROVE ChatInv'
  BY <1>3, ClosedKeeps DEF Closed
<1>4. ASSUME NEW s \in Sockets, Receive(s) PROVE ChatInv'
  BY <1>4, ReceiveKeeps
<1>5. ASSUME NEW m \in Managers, NEW s \in Sockets, TimerFires(m, s) PROVE ChatInv'
  <2>1. Types' /\ Owned' /\ shown' = "connecting" /\ UNCHANGED <<inbox, stage>>
    BY <1>5, TimerOwned DEF TimerFires
  <2>2. Announced'
    BY <2>1, ClearedAnnounced
  <2>3. QED
    BY <2>1, <2>2 DEF ConnectedIsReady
<1>6. QED
  BY <1>1, <1>2, <1>3, <1>4, <1>5 DEF Browser

\* Nor does the bridge, its failures included.
LEMMA BridgeInductive ==
  ASSUME ChatInv, Bridge
  PROVE  ChatInv'
<1> USE DEF ChatInv
<1>1. ASSUME NEW s \in Sockets, NEW e \in SystemEvent, BridgeAnnounces(s, e) PROVE ChatInv'
  <2>1. /\ \/ stage[s] = "authed" /\ e = "connected" /\ stage' = [stage EXCEPT ![s] = "connected"]
           \/ stage[s] = "connected" /\ e = "sprite_waking" /\ stage' = [stage EXCEPT ![s] = "waking"]
           \/ stage[s] \in {"connected", "waking"} /\ e = "sprite_ready" /\ stage' = [stage EXCEPT ![s] = "ready"]
        /\ Post(s, System(e))
        /\ UNCHANGED <<mounted, current, shown, status, intentional, ws, timer, socket, owner, tokens,
                       missions, turn, working>>
    BY <1>1 DEF BridgeAnnounces
  <2>2. /\ stage' \in [Sockets -> Stage] /\ \A t \in Sockets \ {s} : stage'[t] = stage[t]
        /\ stage[s] # "ready" /\ (e = "sprite_ready" => stage'[s] = "ready")
    BY <2>1 DEF Types, Stage
  <2>3. System(e) \in Messages /\ System(e).kind = e
    BY MessageKinds
  <2>4. Announced'
    BY <2>1, <2>2, <2>3, PostAnnounced
  <2>5. inbox' \in [Sockets -> Seq(Messages)]
    BY <2>1, <2>3, PostType
  <2>6. missions' \in 0 .. MaxMissions /\ turn' \in 0 .. missions' /\ (working' => turn' \in Turns)
    BY <2>1 DEF Types
  <2>7. QED
    BY <2>1, <2>2, <2>4, <2>5, <2>6, QuietKeeps
<1>2. ASSUME NEW s \in Sockets, NEW msg \in Noise \cup {System("error")}, BridgeComplains(s, msg) PROVE ChatInv'
  <2>1. /\ Post(s, msg)
        /\ UNCHANGED <<mounted, current, shown, status, intentional, ws, timer, socket, owner, tokens,
                       stage, missions, turn, working>>
    BY <1>2 DEF BridgeComplains
  <2>2. msg \in Messages /\ msg.kind # "sprite_ready"
    BY MessageKinds DEF SystemEvent
  <2>3. missions' \in 0 .. MaxMissions /\ turn' \in 0 .. missions' /\ (working' => turn' \in Turns)
    BY <2>1 DEF Types
  <2>4. QED
    BY <2>1, <2>2, <2>3, PostKeeps
<1>3. ASSUME NEW s \in Sockets, BridgeCloses(s) PROVE ChatInv'
  <2>1. /\ socket[s] = "open" /\ Silence({s}, "closing")
        /\ UNCHANGED <<mounted, current, shown, status, intentional, ws, timer, owner, tokens,
                       stage, missions, turn, working>>
    BY <1>3 DEF BridgeCloses
  <2>2. /\ socket' \in [Sockets -> ReadyState] /\ inbox' \in [Sockets -> Seq(Messages)]
        /\ \A t \in Sockets : socket'[t] = IF t \in {s} THEN "closing" ELSE socket[t]
        /\ \A t \in Sockets : inbox'[t] = IF t \in {s} THEN <<>> ELSE inbox[t]
    BY <2>1, SilenceType DEF ReadyState
  <2>3. Types'
    BY <2>1, <2>2 DEF Types
  <2>4. Owned'
    <3>1. \A t \in Sockets : socket'[t] = socket[t] \/ (Live(t) /\ socket'[t] = "closing")
      BY <2>1, <2>2 DEF Live
    <3>2. \A t \in tokens' : t \in Sockets /\ socket[t] # "unused"
      BY <2>1 DEF Types, Owned, SocketsOwned
    <3>3. QED
      BY <2>1, <3>1, <3>2, KeepsOwned
  <2>5. Announced'
    BY <2>1, <2>2, ClearedAnnounced
  <2>6. ConnectedIsReady'
    BY <2>1, ReadyKept
  <2>7. QED
    BY <2>3, <2>4, <2>5, <2>6
<1>4. ASSUME NEW s \in Sockets, Drops(s) PROVE ChatInv'
  BY <1>4, ClosedKeeps DEF Drops
<1>5. ASSUME NEW s \in Sockets, NoToken(s) PROVE ChatInv'
  <2>1. /\ s \in tokens /\ tokens' \subseteq tokens /\ setStatus(owner[s], "error")
        /\ Silence(Hung(owner[s]), "closing")
        /\ UNCHANGED <<mounted, current, intentional, ws, timer, owner, stage, missions, turn, working>>
    BY <1>5 DEF NoToken, ClosedWithoutToken
  <2>2. owner[s] \in Managers /\ status[owner[s]] # "unused"
    BY <2>1 DEF Owned, SocketsOwned
  <2>3. /\ socket' \in [Sockets -> ReadyState] /\ inbox' \in [Sockets -> Seq(Messages)]
        /\ \A t \in Sockets : socket'[t] = IF t \in Hung(owner[s]) THEN "closing" ELSE socket[t]
        /\ \A t \in Sockets : inbox'[t] = IF t \in Hung(owner[s]) THEN <<>> ELSE inbox[t]
    BY <2>1, SilenceType DEF ReadyState
  <2>4. \A t \in Sockets : socket'[t] = socket[t] \/ (Live(t) /\ socket'[t] = "closing")
    BY <2>3 DEF Hung
  <2>5. \A t \in tokens' : t \in Sockets /\ socket[t] # "unused"
    BY <2>1 DEF Types, Owned, SocketsOwned
  <2>6. "error" \in ConnectionStatus \ {"connected"}
    BY DEF ConnectionStatus
  <2>7. QED
    BY <2>1, <2>2, <2>3, <2>4, <2>5, <2>6, ToldKeeps
<1>6. ASSUME NEW s \in Sockets, TokenRejects(s) PROVE ChatInv'
  <2>1. /\ tokens' \subseteq tokens
        /\ UNCHANGED <<mounted, current, shown, status, intentional, ws, timer, socket, owner, inbox,
                       stage, missions, turn, working>>
    BY <1>6 DEF TokenRejects
  <2>2. Announced'
    BY <2>1, ClearedAnnounced
  <2>3. QED
    BY <2>1, <2>2, QuietKeeps DEF Types
<1>7. QED
  BY <1>1, <1>2, <1>3, <1>4, <1>5, <1>6 DEF Bridge

\* The invariant the theorems rest on: every handler, timer, late answer and
\* failure keeps it.
THEOREM ChatInductive == Spec => []ChatInv
<1>1. Init => ChatInv
  BY TypesInit DEF ChatInv
<1>2. ChatInv /\ [Next]_vars => ChatInv'
  <2>1. ASSUME ChatInv, UNCHANGED vars PROVE ChatInv'
    <3>1. UNCHANGED <<mounted, current, shown, status, intentional, ws, timer, socket, owner, tokens,
                      inbox, stage, missions, turn, working>>
      BY <2>1
    <3>2. Announced'
      BY <2>1, <3>1, ClearedAnnounced DEF ChatInv
    <3>3. QED
      BY <2>1, <3>1, <3>2, QuietKeeps DEF ChatInv, Types
  <2>2. QED
    BY <2>1, PageInductive, BrowserInductive, BridgeInductive, AgentInductive DEF Next
<1>3. QED
  BY <1>1, <1>2, PTL DEF Spec

\* OneWayToBridge, for every number of managers, sockets and faults: whatever
\* connect, disconnect, a timer, a late token or a late onclose do
\* (websocket.ts), only the page's manager has a socket, and it has one or a
\* timer that opens one.
THEOREM OneWaySafe == Spec => []OneWayToBridge
<1>1. ChatInv => OneWayToBridge
  BY DEF ChatInv, Owned, OneWayToBridge
<1>2. QED
  BY <1>1, ChatInductive, PTL

\* ConnectedIsReady: a page that shows "connected" and so offers to send
\* (page.tsx) holds a socket on which the bridge has said sprite_ready.
THEOREM ReadySafe == Spec => []ConnectedIsReady
<1>1. ChatInv => ConnectedIsReady
  BY DEF ChatInv
<1>2. QED
  BY <1>1, ChatInductive, PTL

-----------------------------------------------------------------------------
(* What messages are                                                       *)

\* A message that goes into a bubble, and one that ends it.
Says(msg)  == msg.kind = "text"
Parts(msg) == isProtocolMessage(msg) /\ msg.type # "status" /\ msg.kind # "text"

\* A message that decides whether card c is there, and any message of the agent.
Decides(msg, c) == msg.card = c /\ msg.kind \in {"create_card", "close_card"}
OfAgent(msg)    == msg.type = "agent_event" \/ msg.card \in Cards

\* Each type a message has is one of the protocol's, with the fields it requires.
LEMMA Formed ==
  /\ {"system", "agent_event", "canvas_update", "status"} \subseteq DOMAIN Required
  /\ \A type \in DOMAIN Required : \A kind, card, t : isProtocolMessage(Message(type, kind, card, t))
<1>1. {"system", "agent_event", "canvas_update", "status"} \subseteq DOMAIN Required
  BY DEF Required
<1>2. ASSUME NEW type \in DOMAIN Required, NEW kind, NEW card, NEW t
      PROVE  isProtocolMessage(Message(type, kind, card, t))
  BY DEF isProtocolMessage, isWebSocketMessage, hasPayload, Message
<1>3. QED
  BY <1>1, <1>2

\* The shapes of messages: only the agent's have a card or text, and all but what
\* the page ignores part two bubbles or go into one.
LEMMA MessageShapes ==
  /\ \A e \in SystemEvent : Parts(System(e)) /\ ~Says(System(e)) /\ ~OfAgent(System(e))
  /\ \A msg \in Noise : ~Parts(msg) /\ ~Says(msg) /\ ~OfAgent(msg)
  /\ \A e \in AgentEventType, t \in Turns :
       /\ Says(Agent(e, t)) <=> e = "text"
       /\ Parts(Agent(e, t)) <=> e # "text"
       /\ Agent(e, t).turn = t /\ Agent(e, t).card \notin Cards
       /\ Agent(e, t).kind \notin {"create_card", "close_card"}
  /\ \A k \in CanvasCommand, c \in Cards :
       /\ Parts(Canvas(k, c)) /\ ~Says(Canvas(k, c))
       /\ Canvas(k, c).card = c /\ Canvas(k, c).kind = k
<1>1. ASSUME NEW e \in SystemEvent
      PROVE  Parts(System(e)) /\ ~Says(System(e)) /\ ~OfAgent(System(e))
  <2>1. isProtocolMessage(System(e))
    BY Formed DEF System
  <2>2. /\ System(e).type = "system" /\ System(e).kind = e /\ System(e).card = NoCard
        /\ e # "text" /\ NoCard \notin Cards
    BY ChatAssumption DEF System, Message, SystemEvent
  <2>3. QED
    BY <2>1, <2>2 DEF Parts, Says, OfAgent
<1>2. ASSUME NEW msg \in Noise
      PROVE  ~Parts(msg) /\ ~Says(msg) /\ ~OfAgent(msg)
  <2>1. CASE msg = Message("status", "processing", NoCard, 0)
    <3>1. msg.type = "status" /\ msg.kind = "processing" /\ msg.card = NoCard /\ NoCard \notin Cards
      BY <2>1, ChatAssumption DEF Message
    <3>2. QED
      BY <3>1 DEF Parts, Says, OfAgent
  <2>2. CASE msg = [Canvas("create_card", NoCard) EXCEPT !.fields = @ \ {"card_id"}]
    <3>1. /\ msg.type = "canvas_update" /\ msg.kind = "create_card" /\ msg.card = NoCard
          /\ "card_id" \notin msg.fields /\ NoCard \notin Cards
      BY <2>2, ChatAssumption DEF Canvas, Message
    <3>2. "card_id" \in Required["canvas_update"]
      BY DEF Required
    <3>3. ~isProtocolMessage(msg)
      BY <3>1, <3>2 DEF isProtocolMessage
    <3>4. QED
      BY <3>1, <3>3 DEF Parts, Says, OfAgent
  <2>3. QED
    BY <2>1, <2>2 DEF Noise
<1>3. ASSUME NEW e \in AgentEventType, NEW t \in Turns
      PROVE  /\ Says(Agent(e, t)) <=> e = "text"
             /\ Parts(Agent(e, t)) <=> e # "text"
             /\ Agent(e, t).turn = t /\ Agent(e, t).card \notin Cards
             /\ Agent(e, t).kind \notin {"create_card", "close_card"}
  <2>1. isProtocolMessage(Agent(e, t))
    BY Formed DEF Agent
  <2>2. /\ Agent(e, t).type = "agent_event" /\ Agent(e, t).kind = e /\ Agent(e, t).card = NoCard
        /\ Agent(e, t).turn = t /\ e \notin {"create_card", "close_card"} /\ NoCard \notin Cards
    BY ChatAssumption DEF Agent, Message, AgentEventType
  <2>3. QED
    BY <2>1, <2>2 DEF Parts, Says
<1>4. ASSUME NEW k \in CanvasCommand, NEW c \in Cards
      PROVE  /\ Parts(Canvas(k, c)) /\ ~Says(Canvas(k, c))
             /\ Canvas(k, c).card = c /\ Canvas(k, c).kind = k
  <2>1. isProtocolMessage(Canvas(k, c))
    BY Formed DEF Canvas
  <2>2. /\ Canvas(k, c).type = "canvas_update" /\ Canvas(k, c).kind = k /\ Canvas(k, c).card = c
        /\ k # "text"
    BY DEF Canvas, Message, CanvasCommand
  <2>3. QED
    BY <2>1, <2>2 DEF Parts, Says
<1>5. QED
  BY <1>1, <1>2, <1>3, <1>4

\* What the browser can tell of a message it receives.
LEMMA MessageFacts ==
  ASSUME NEW msg \in Messages
  PROVE  /\ ~(Says(msg) /\ Parts(msg))
         /\ Says(msg) => isProtocolMessage(msg) /\ msg.type = "agent_event" /\ msg.turn \in Turns
         /\ isProtocolMessage(msg) => Parts(msg) \/ Says(msg) \/ msg.type = "status"
         /\ isProtocolMessage(msg) /\ msg.type = "canvas_update" => msg.card \in Cards
         /\ msg.card \in Cards => isProtocolMessage(msg) /\ msg.type = "canvas_update"
                                  /\ msg.kind \in CanvasCommand
<1>1. CASE \E e \in SystemEvent : msg = System(e)
  <2>1. msg.type = "system" /\ msg.card = NoCard /\ NoCard \notin Cards /\ ~Says(msg)
    BY <1>1, MessageShapes, ChatAssumption DEF System, Message
  <2>2. QED
    BY <2>1 DEF Says, Parts
<1>2. CASE \E e \in AgentEventType, t \in Turns : msg = Agent(e, t)
  <2>1. PICK e \in AgentEventType, t \in Turns : msg = Agent(e, t)
    BY <1>2
  <2>2. msg.type = "agent_event" /\ msg.card \notin Cards /\ msg.turn \in Turns /\ isProtocolMessage(msg)
    BY <2>1, MessageShapes, Formed DEF Agent, Message
  <2>3. QED
    BY <2>2 DEF Says, Parts
<1>3. CASE \E k \in CanvasCommand, c \in Cards : msg = Canvas(k, c)
  <2>1. PICK k \in CanvasCommand, c \in Cards : msg = Canvas(k, c)
    BY <1>3
  <2>2. /\ msg.type = "canvas_update" /\ msg.card \in Cards /\ msg.kind \in CanvasCommand
        /\ isProtocolMessage(msg) /\ ~Says(msg)
    BY <2>1, MessageShapes, Formed DEF Canvas, Message
  <2>3. QED
    BY <2>2 DEF Says, Parts
<1>4. CASE msg \in Noise
  <2>1. ~Says(msg) /\ ~Parts(msg) /\ msg.card \notin Cards
    BY <1>4, MessageShapes DEF OfAgent
  <2>2. isProtocolMessage(msg) => msg.type = "status"
    BY <2>1 DEF Parts, Says
  <2>3. QED
    BY <2>1, <2>2
<1>5. QED
  BY <1>1, <1>2, <1>3, <1>4 DEF Messages

-----------------------------------------------------------------------------
(* Bubbles                                                                 *)

\* The messages q on their way to a page whose last entry is text of turn b, or
\* else b is 0, from an agent in turn t, at which it still is if w: between two
\* texts of different turns, the bubble's and the agent's next included, there is
\* a message that parts them.
Coherent(q, b, t, w) ==
  /\ \A j \in 1 .. Len(q) :
       Says(q[j]) /\ (\A i \in 1 .. j - 1 : ~Parts(q[i])) => b \in {0, q[j].turn}
  /\ \A i, j \in 1 .. Len(q) :
       i < j /\ Says(q[i]) /\ Says(q[j]) /\ (\A k \in i .. j : ~Parts(q[k])) => q[i].turn = q[j].turn
  /\ \A j \in 1 .. Len(q) :
       Says(q[j]) /\ (\A i \in j .. Len(q) : ~Parts(q[i])) => w /\ t = q[j].turn
  /\ b # 0 /\ (\A i \in 1 .. Len(q) : ~Parts(q[i])) => w /\ t = b

\* The last entry after message msg: handleMessage of the page.
Entry(b, msg) == IF Parts(msg) THEN 0 ELSE IF Says(msg) /\ b = 0 THEN msg.turn ELSE b

\* An entry of the user, or an empty chat, parts what was from what comes.
LEMMA CoherentCleared ==
  ASSUME NEW q, NEW b, NEW t, NEW w, Coherent(q, b, t, w)
  PROVE  Coherent(q, 0, t, w)
BY DEF Coherent

\* A message is put at the end of an inbox.
LEMMA Appended ==
  ASSUME NEW q \in Seq(Messages), NEW msg \in Messages
  PROVE  /\ Append(q, msg) \in Seq(Messages) /\ Len(q) \in Nat
         /\ Len(Append(q, msg)) = Len(q) + 1 /\ Append(q, msg)[Len(q) + 1] = msg
         /\ \A i \in 1 .. Len(q) : Append(q, msg)[i] = q[i]
OBVIOUS

\* The bridge's announcement comes before any text.
LEMMA CoherentStart ==
  ASSUME NEW q \in Seq(Messages), NEW msg \in Messages, Parts(msg), ~Says(msg),
         \A i \in 1 .. Len(q) : ~Says(q[i]), NEW b, NEW t, NEW w
  PROVE  Coherent(Append(q, msg), b, t, w)
<1> DEFINE p == Append(q, msg)
           n == Len(q)
<1>1. /\ Len(p) = n + 1 /\ p[n + 1] = msg /\ n \in Nat
      /\ \A i \in 1 .. n : p[i] = q[i]
  BY Appended
<1>2. ASSUME NEW i \in 1 .. Len(p) PROVE ~Says(p[i])
  <2>1. CASE i \in 1 .. n
    BY <1>1, <2>1
  <2>2. CASE i = n + 1
    BY <1>1, <2>2
  <2>3. QED
    BY <1>1, <2>1, <2>2
<1>3. \E i \in 1 .. Len(p) : Parts(p[i])
  BY <1>1
<1> HIDE DEF p
<1>4. QED
  BY <1>2, <1>3 DEF Coherent

\* A message of the agent, or a complaint of the bridge.
LEMMA CoherentPost ==
  ASSUME NEW q \in Seq(Messages), NEW msg \in Messages, NEW b, NEW t, NEW w, NEW u, NEW v,
         Coherent(q, b, t, w),
         \/ Parts(msg) /\ ~Says(msg)
         \/ ~Parts(msg) /\ ~Says(msg) /\ u = t /\ v = w
         \/ ~Parts(msg) /\ msg.turn = u /\ v /\ (w => u = t)
  PROVE  Coherent(Append(q, msg), b, u, v)
<1> DEFINE p == Append(q, msg)
           n == Len(q)
<1>1. /\ Len(p) = n + 1 /\ p[n + 1] = msg /\ n \in Nat
      /\ \A i \in 1 .. n : p[i] = q[i]
  BY Appended
<1> HIDE DEF p
<1>2. \A i \in 1 .. n + 1 : i \in 1 .. n \/ i = n + 1
  BY <1>1
<1>3. n + 1 \in 1 .. n + 1
  BY <1>1
<1>4. \/ Parts(p[n + 1]) /\ ~Says(p[n + 1])
      \/ ~Says(p[n + 1]) /\ u = t /\ v = w
      \/ p[n + 1].turn = u /\ v /\ (w => u = t)
  BY <1>1
<1>5. ASSUME NEW j \in 1 .. Len(p), Says(p[j]), \A i \in 1 .. j - 1 : ~Parts(p[i])
      PROVE  b \in {0, p[j].turn}
  <2>1. CASE j \in 1 .. n
    <3>1. \A i \in 1 .. j - 1 : i \in 1 .. n
      BY <1>1, <2>1
    <3>2. Says(q[j]) /\ \A i \in 1 .. j - 1 : ~Parts(q[i])
      BY <1>1, <1>5, <2>1, <3>1
    <3>3. QED
      BY <1>1, <2>1, <3>2 DEF Coherent
  <2>2. CASE j = n + 1
    <3>1. \A i \in 1 .. n : ~Parts(q[i])
      BY <1>1, <1>5, <2>2
    <3>2. b # 0 => w /\ t = b
      BY <3>1 DEF Coherent
    <3>3. msg.turn = u /\ (w => u = t)
      BY <1>1, <1>5, <2>2
    <3>4. QED
      BY <1>1, <2>2, <3>2, <3>3
  <2>3. QED
    BY <1>1, <1>2, <2>1, <2>2
<1>6. ASSUME NEW i \in 1 .. Len(p), NEW j \in 1 .. Len(p), i < j, Says(p[i]), Says(p[j]),
             \A k \in i .. j : ~Parts(p[k])
      PROVE  p[i].turn = p[j].turn
  <2>1. i \in 1 .. n /\ p[i] = q[i]
    BY <1>1, <1>6
  <2>2. CASE j \in 1 .. n
    <3>1. \A k \in i .. j : k \in 1 .. n /\ p[k] = q[k]
      BY <1>1, <2>1, <2>2
    <3>2. Says(q[i]) /\ Says(q[j]) /\ \A k \in i .. j : ~Parts(q[k])
      BY <1>1, <1>6, <2>1, <2>2, <3>1
    <3>3. q[i].turn = q[j].turn
      BY <1>6, <2>1, <2>2, <3>2 DEF Coherent
    <3>4. QED
      BY <1>1, <2>1, <2>2, <3>3
  <2>3. CASE j = n + 1
    <3>1. \A k \in i .. n : k \in i .. j /\ p[k] = q[k]
      BY <1>1, <2>1, <2>3
    <3>2. Says(q[i]) /\ \A k \in i .. n : ~Parts(q[k])
      BY <1>6, <2>1, <3>1
    <3>3. w /\ t = q[i].turn
      BY <2>1, <3>2 DEF Coherent
    <3>4. msg.turn = u /\ (w => u = t)
      BY <1>1, <1>6, <2>3
    <3>5. QED
      BY <1>1, <2>1, <2>3, <3>3, <3>4
  <2>4. QED
    BY <1>1, <1>2, <2>2, <2>3
<1>7. ASSUME NEW j \in 1 .. Len(p), Says(p[j]), \A i \in j .. Len(p) : ~Parts(p[i])
      PROVE  v /\ u = p[j].turn
  <2>1. n + 1 \in j .. Len(p)
    BY <1>1
  <2>2. ~Parts(msg)
    BY <1>1, <1>7, <2>1
  <2>3. CASE j \in 1 .. n
    <3>1. \A i \in j .. n : i \in j .. Len(p) /\ p[i] = q[i]
      BY <1>1, <2>3
    <3>2. Says(q[j]) /\ \A i \in j .. n : ~Parts(q[i])
      BY <1>1, <1>7, <2>3, <3>1
    <3>3. w /\ t = q[j].turn
      BY <2>3, <3>2 DEF Coherent
    <3>4. CASE u = t /\ v = w
      BY <1>1, <2>3, <3>3, <3>4
    <3>5. CASE v /\ (w => u = t)
      BY <1>1, <2>3, <3>3, <3>5
    <3>6. QED
      BY <2>2, <3>4, <3>5
  <2>4. CASE j = n + 1
    BY <1>1, <1>7, <2>2, <2>4
  <2>5. QED
    BY <1>1, <1>2, <2>3, <2>4
<1>8. ASSUME b # 0, \A i \in 1 .. Len(p) : ~Parts(p[i])
      PROVE  v /\ u = b
  <2>1. \A i \in 1 .. n : i \in 1 .. Len(p) /\ p[i] = q[i]
    BY <1>1
  <2>2. \A i \in 1 .. n : ~Parts(q[i])
    BY <1>8, <2>1
  <2>3. w /\ t = b
    BY <1>8, <2>2 DEF Coherent
  <2>4. ~Parts(msg)
    BY <1>1, <1>3, <1>8
  <2>5. CASE u = t /\ v = w
    BY <2>3, <2>5
  <2>6. CASE v /\ (w => u = t)
    BY <2>3, <2>6
  <2>7. QED
    BY <2>4, <2>5, <2>6
<1>9. Coherent(p, b, u, v)
  BY <1>5, <1>6, <1>7, <1>8 DEF Coherent
<1>10. QED
  BY <1>9 DEF p

\* A message is taken from an inbox: a text finds no bubble of another turn.
LEMMA CoherentTake ==
  ASSUME NEW q \in Seq(Messages), q # <<>>, NEW b, NEW t, NEW w, Coherent(q, b, t, w)
  PROVE  /\ Coherent(Tail(q), Entry(b, Head(q)), t, w)
         /\ Says(Head(q)) => Entry(b, Head(q)) = Head(q).turn
<1> DEFINE p   == Tail(q)
           n   == Len(p)
           msg == Head(q)
           e   == Entry(b, msg)
<1>1. /\ Len(q) = n + 1 /\ n \in Nat /\ msg = q[1] /\ msg \in Messages
      /\ \A i \in 1 .. n : p[i] = q[i + 1]
  OBVIOUS
<1>2. ~(Says(msg) /\ Parts(msg)) /\ (Says(msg) => msg.turn # 0)
  <2>1. \A u \in Turns : u # 0
    BY DEF Turns
  <2>2. QED
    BY <1>1, <2>1, MessageFacts
<1> HIDE DEF p, n, msg
<1>3. 1 \in 1 .. Len(q) /\ \A i \in 1 .. n : i + 1 \in 1 .. Len(q)
  BY <1>1
<1>4. ASSUME Says(msg) PROVE e = msg.turn
  <2>1. Says(q[1]) /\ \A i \in 1 .. 1 - 1 : ~Parts(q[i])
    BY <1>1, <1>4
  <2>2. b \in {0, msg.turn}
    BY <1>1, <1>3, <2>1 DEF Coherent
  <2>3. QED
    BY <1>2, <1>4, <2>2 DEF Entry
<1>5. ASSUME e # 0
      PROVE  ~Parts(msg) /\ (~Says(msg) => e = b)
  BY <1>2, <1>5 DEF Entry
<1>6. ASSUME NEW j \in 1 .. n, Says(p[j]), \A i \in 1 .. j - 1 : ~Parts(p[i])
      PROVE  e \in {0, p[j].turn}
  <2>1. Says(q[j + 1]) /\ \A k \in 2 .. j : ~Parts(q[k])
    <3>1. \A k \in 2 .. j : k - 1 \in 1 .. j - 1 /\ k - 1 \in 1 .. n /\ (k - 1) + 1 = k
      BY <1>1
    <3>2. QED
      BY <1>1, <1>6, <3>1
  <2>2. CASE e = 0
    BY <2>2
  <2>3. CASE e # 0 /\ Says(msg)
    <3>1. \A k \in 1 .. j + 1 : k = 1 \/ k \in 2 .. j \/ k = j + 1
      BY <1>1
    <3>2. ~Parts(q[j + 1])
      <4>1. q[j + 1] \in Messages
        BY <1>3
      <4>2. QED
        BY <2>1, <4>1, MessageFacts
    <3>3. \A k \in 1 .. j + 1 : ~Parts(q[k])
      BY <1>1, <1>5, <2>1, <2>3, <3>1, <3>2
    <3>4. 1 < j + 1 /\ j + 1 \in 1 .. Len(q)
      BY <1>1
    <3>5. q[1].turn = q[j + 1].turn
      BY <1>1, <1>3, <2>1, <2>3, <3>3, <3>4 DEF Coherent
    <3>6. QED
      BY <1>1, <1>4, <2>3, <3>5
  <2>4. CASE e # 0 /\ ~Says(msg)
    <3>1. \A k \in 1 .. (j + 1) - 1 : k = 1 \/ k \in 2 .. j
      BY <1>1
    <3>2. \A k \in 1 .. (j + 1) - 1 : ~Parts(q[k])
      BY <1>1, <1>5, <2>1, <2>4, <3>1
    <3>3. b \in {0, q[j + 1].turn}
      BY <1>3, <2>1, <3>2 DEF Coherent
    <3>4. QED
      BY <1>1, <1>5, <2>4, <3>3
  <2>5. QED
    BY <2>2, <2>3, <2>4
<1>7. ASSUME NEW i \in 1 .. n, NEW j \in 1 .. n, i < j, Says(p[i]), Says(p[j]),
             \A k \in i .. j : ~Parts(p[k])
      PROVE  p[i].turn = p[j].turn
  <2>1. \A k \in i + 1 .. j + 1 : k - 1 \in i .. j /\ k - 1 \in 1 .. n /\ (k - 1) + 1 = k
    BY <1>1
  <2>2. \A k \in i + 1 .. j + 1 : ~Parts(q[k])
    BY <1>1, <1>7, <2>1
  <2>3. i + 1 < j + 1 /\ i + 1 \in 1 .. Len(q) /\ j + 1 \in 1 .. Len(q)
    BY <1>1, <1>7
  <2>4. Says(q[i + 1]) /\ Says(q[j + 1])
    BY <1>1, <1>7
  <2>5. q[i + 1].turn = q[j + 1].turn
    BY <2>2, <2>3, <2>4 DEF Coherent
  <2>6. QED
    BY <1>1, <2>5
<1>8. ASSUME NEW j \in 1 .. n, Says(p[j]), \A i \in j .. n : ~Parts(p[i])
      PROVE  w /\ t = p[j].turn
  <2>1. \A k \in j + 1 .. Len(q) : k - 1 \in j .. n /\ k - 1 \in 1 .. n /\ (k - 1) + 1 = k
    BY <1>1
  <2>2. \A k \in j + 1 .. Len(q) : ~Parts(q[k])
    BY <1>1, <1>8, <2>1
  <2>3. w /\ t = q[j + 1].turn
    BY <1>1, <1>3, <1>8, <2>2 DEF Coherent
  <2>4. QED
    BY <1>1, <2>3
<1>9. ASSUME e # 0, \A i \in 1 .. n : ~Parts(p[i])
      PROVE  w /\ t = e
  <2>1. \A k \in 1 .. Len(q) : k = 1 \/ (k - 1 \in 1 .. n /\ (k - 1) + 1 = k)
    BY <1>1
  <2>2. \A k \in 1 .. Len(q) : ~Parts(q[k])
    BY <1>1, <1>5, <1>9, <2>1
  <2>3. CASE Says(msg)
    BY <1>1, <1>3, <1>4, <2>2, <2>3 DEF Coherent
  <2>4. CASE ~Says(msg)
    <3>1. e = b
      BY <1>5, <1>9, <2>4
    <3>2. QED
      BY <1>9, <2>2, <3>1 DEF Coherent
  <2>5. QED
    BY <2>3, <2>4
<1> HIDE DEF e
<1>10. Coherent(p, e, t, w)
  BY <1>6, <1>7, <1>8, <1>9 DEF Coherent, n
<1>11. QED
  BY <1>4, <1>10 DEF p, msg, e

-----------------------------------------------------------------------------
(* What is on its way to the page                                          *)

\* The types of the rest of the state; a card without an id never gets on the page.
Rest ==
  /\ cards \in [CardIds -> Nat] /\ cards[NoCard] = 0
  /\ bubble \in Turns \cup {0}
  /\ backoff \in [Managers -> InitialBackoff .. MaxBackoff]
  /\ canvas \in SUBSET Cards /\ working \in BOOLEAN
  /\ adrift \in SUBSET Cards
  /\ faults \in 0 .. MaxFaults

\* Messages are under way only to an open socket, and those of the agent only to
\* one on which the bridge is ready; it starts anew on each.
Heard ==
  /\ \A s \in Sockets : socket[s] # "open" => inbox[s] = <<>>
  /\ \A s \in Sockets : socket[s] \in {"unused", "connecting"} => stage[s] = "new"
  /\ \A s \in Sockets : stage[s] # "ready" =>
       \A i \in 1 .. Len(inbox[s]) : ~Says(inbox[s][i]) /\ ~OfAgent(inbox[s][i])

Bubbles == \A s \in Ready : Coherent(inbox[s], bubble, turn, working)

\* Nothing under way to socket s decides about card c; message i is the last that does.
Undecided(s, c) == \A i \in 1 .. Len(inbox[s]) : ~Decides(inbox[s][i], c)
Settles(s, c, i) ==
  Decides(inbox[s][i], c) /\ \A j \in i + 1 .. Len(inbox[s]) : ~Decides(inbox[s][j], c)

\* The last message about a card says whether the agent has it; without one the
\* page shows the card if the agent has it, unless a command was lost.
Drawn ==
  /\ \A c \in Cards : cards[c] <= 1
  /\ \A s \in Sockets, c \in Cards : \A i \in 1 .. Len(inbox[s]) :
       Settles(s, c, i) => (inbox[s][i].kind = "create_card" <=> c \in canvas)
  /\ mounted => \A c \in Cards \ adrift :
       (\A s \in Sockets : Undecided(s, c)) => (cards[c] > 0 <=> c \in canvas)

Talk == Rest /\ Heard /\ Bubbles /\ Drawn

\* A step that sends nothing: inboxes are left alone or lost with their sockets.
Quiet ==
  /\ \A s \in Sockets : inbox'[s] = inbox[s] \/ inbox'[s] = <<>>
  /\ \A s \in Sockets : socket'[s] # "open" => socket[s] # "open" \/ inbox'[s] = <<>>
  /\ \A s \in Sockets : socket'[s] \in {"unused", "connecting"} =>
                          socket[s] \in {"unused", "connecting"} /\ stage'[s] = stage[s]
  /\ \A s \in Sockets : stage'[s] # "ready" => stage[s] # "ready" \/ inbox'[s] = <<>>
  /\ \A s \in Ready' : s \in Ready /\ inbox'[s] = inbox[s]
  /\ bubble' \in {bubble, 0} /\ turn' = turn /\ working' = working

\* And what is lost with one is remembered.
Remembers ==
  /\ canvas' = canvas /\ (mounted' => mounted)
  /\ \A c \in Cards : cards'[c] = cards[c] \/ (c \in adrift' /\ cards'[c] = 0)
  /\ \A c \in Cards \ adrift' :
       c \notin adrift /\ \A s \in Sockets : inbox'[s] # inbox[s] => Undecided(s, c)

\* A step that sends and reads nothing keeps what is known of inboxes and bubbles.
LEMMA QuietHeard ==
  ASSUME Heard, Bubbles, Quiet
  PROVE  Heard' /\ Bubbles'
<1>1. \A s \in Sockets : socket'[s] # "open" => inbox'[s] = <<>>
  BY DEF Heard, Quiet
<1>2. \A s \in Sockets : socket'[s] \in {"unused", "connecting"} => stage'[s] = "new"
  BY DEF Heard, Quiet
<1>3. ASSUME NEW s \in Sockets, stage'[s] # "ready", NEW i \in 1 .. Len(inbox'[s])
      PROVE  ~Says(inbox'[s][i]) /\ ~OfAgent(inbox'[s][i])
  <2>1. inbox'[s] # <<>>
    BY <1>3
  <2>2. inbox'[s] = inbox[s] /\ stage[s] # "ready"
    BY <1>3, <2>1 DEF Quiet
  <2>3. QED
    BY <1>3, <2>2 DEF Heard
<1>4. ASSUME NEW s \in Ready' PROVE Coherent(inbox'[s], bubble', turn', working')
  <2>1. s \in Ready /\ inbox'[s] = inbox[s] /\ bubble' \in {bubble, 0} /\ turn' = turn /\ working' = working
    BY <1>4 DEF Quiet
  <2>2. Coherent(inbox[s], bubble, turn, working)
    BY <2>1 DEF Bubbles
  <2>3. Coherent(inbox[s], 0, turn, working)
    BY <2>2, CoherentCleared
  <2>4. QED
    BY <2>1, <2>2, <2>3
<1>5. QED
  BY <1>1, <1>2, <1>3, <1>4 DEF Heard, Bubbles

\* A step that sends and reads nothing, and forgets no card that is not drawn again, keeps all of Talk.
LEMMA QuietTalk ==
  ASSUME Talk, Quiet, Remembers, Rest'
  PROVE  Talk'
<1>1. Heard' /\ Bubbles'
  BY QuietHeard DEF Talk
<1>2. \A c \in Cards : cards'[c] <= 1
  BY DEF Remembers, Talk, Drawn
<1>3. ASSUME NEW s \in Sockets, NEW c \in Cards, NEW i \in 1 .. Len(inbox'[s]), Settles(s, c, i)'
      PROVE  inbox'[s][i].kind = "create_card" <=> c \in canvas'
  <2>1. inbox'[s] # <<>>
    BY <1>3
  <2>2. inbox'[s] = inbox[s] /\ canvas' = canvas
    BY <2>1 DEF Quiet, Remembers
  <2>3. Settles(s, c, i)
    BY <1>3, <2>2 DEF Settles
  <2>4. QED
    BY <1>3, <2>2, <2>3 DEF Talk, Drawn
<1>4. ASSUME mounted', NEW c \in Cards \ adrift', \A s \in Sockets : Undecided(s, c)'
      PROVE  cards'[c] > 0 <=> c \in canvas'
  <2>1. /\ mounted /\ c \in Cards \ adrift /\ canvas' = canvas /\ cards'[c] = cards[c]
        /\ \A s \in Sockets : inbox'[s] # inbox[s] => Undecided(s, c)
    BY <1>4 DEF Remembers
  <2>2. ASSUME NEW s \in Sockets PROVE Undecided(s, c)
    <3>1. CASE inbox'[s] = inbox[s]
      BY <1>4, <3>1 DEF Undecided
    <3>2. QED
      BY <2>1, <3>1
  <2>3. QED
    BY <2>1, <2>2 DEF Talk, Drawn
<1>5. Drawn'
  BY <1>2, <1>3, <1>4 DEF Drawn
<1>6. QED
  BY <1>1, <1>5 DEF Talk

\* A step that leaves sockets, messages, agent and cards alone is quiet.
LEMMA StillQuiet ==
  ASSUME UNCHANGED <<mounted, cards, inbox, socket, stage, turn, working, canvas, adrift>>,
         bubble' \in {bubble, 0}
  PROVE  Quiet /\ Remembers
BY DEF Quiet, Remembers, Ready

\* So is one that ends sockets: what was under way to them is remembered.
LEMMA SilenceQuiet ==
  ASSUME Types, NEW S \in SUBSET Sockets, NEW state \in {"closing", "closed"}, Silence(S, state),
         \A s \in Sockets \ S : stage'[s] = stage[s],
         UNCHANGED <<cards, bubble, turn, working, canvas>>, mounted' => mounted
  PROVE  Quiet /\ Remembers
<1>1. state \in ReadyState
  BY DEF ReadyState
<1>2. /\ \A s \in Sockets : socket'[s] = IF s \in S THEN state ELSE socket[s]
      /\ \A s \in Sockets : inbox'[s] = IF s \in S THEN <<>> ELSE inbox[s]
  BY <1>1, SilenceType
<1>3. Quiet
  <2>1. \A s \in Ready' : s \in Ready /\ inbox'[s] = inbox[s]
    BY <1>2 DEF Ready
  <2>2. QED
    BY <1>2, <2>1 DEF Quiet
<1>4. ASSUME NEW c \in Cards \ adrift'
      PROVE  c \notin adrift /\ \A s \in Sockets : inbox'[s] # inbox[s] => Undecided(s, c)
  <2>1. c \notin adrift /\ \A s \in S : c \notin Unheard(s)
    BY <1>4 DEF Silence
  <2>2. ASSUME NEW s \in S PROVE Undecided(s, c)
    BY <2>1, <2>2 DEF Unheard, Undecided, Decides
  <2>3. QED
    BY <1>2, <2>1, <2>2
<1>5. QED
  BY <1>3, <1>4 DEF Remembers

\* A history of lost commands is about cards.
LEMMA SilenceRest ==
  ASSUME Rest, NEW S, NEW state, Silence(S, state)
  PROVE  adrift' \in SUBSET Cards
BY DEF Rest, Silence, Unheard

-----------------------------------------------------------------------------
(* Every step, once more                                                   *)

\* With no card drawn and no mission sent, the page shows what the agent has drawn and said.
LEMMA TalkInit == Init => Talk
<1> SUFFICES ASSUME Init PROVE Talk
  OBVIOUS
<1>1. Rest
  <2>1. cards \in [CardIds -> Nat] /\ cards[NoCard] = 0
    BY DEF Init, NoCards, CardIds
  <2>2. backoff \in [Managers -> InitialBackoff .. MaxBackoff] /\ faults \in 0 .. MaxFaults
    BY ChatAssumption DEF Init
  <2>3. working \in BOOLEAN
    BY DEF Init
  <2>4. QED
    BY <2>1, <2>2, <2>3 DEF Init, Rest
<1>2. Heard
  BY DEF Init, Heard
<1>3. Bubbles
  BY DEF Init, Bubbles, Ready
<1>4. Drawn
  BY DEF Init, Drawn, NoCards, CardIds
<1>5. QED
  BY <1>1, <1>2, <1>3, <1>4 DEF Talk

\* A new connection starts from no cards and an empty inbox, and whatever was under way is adrift.
LEMMA ConnectTalk ==
  ASSUME ChatInv, Talk, NEW m \in Managers, NEW s \in Sockets, HandleConnect(m, s)
  PROVE  Talk'
<1>1. /\ socket[s] = "unused"
      /\ \A t \in Sockets : socket'[t] = IF t = s THEN "connecting"
                                         ELSE IF t \in Hung(current) THEN "closing" ELSE socket[t]
      /\ \A t \in Sockets : inbox'[t] = IF t \in Hung(current) THEN <<>> ELSE inbox[t]
      /\ cards' = NoCards /\ bubble' = 0 /\ canvas' \in {canvas, {}} /\ adrift' = canvas'
      /\ UNCHANGED <<mounted, backoff, stage, turn, working, faults>>
  BY DEF HandleConnect, IsNext, ClearedCards
<1>2. s \notin Hung(current)
  BY <1>1 DEF Hung, Live
<1>3. Quiet
  <2>1. \A t \in Ready' : t \in Ready /\ inbox'[t] = inbox[t]
    BY <1>1 DEF Ready
  <2>2. QED
    BY <1>1, <2>1 DEF Quiet
<1>4. Heard' /\ Bubbles'
  BY <1>3, QuietHeard DEF Talk
<1>5. \A t \in Sockets : inbox'[t] = <<>>
  <2>1. ASSUME NEW t \in Sockets, socket[t] = "open" PROVE t \in Hung(current)
    <3>1. current # 0 /\ ws[current] = t /\ Live(t)
      BY <2>1 DEF Live, ChatInv, Owned, OneLiveSocket
    <3>2. QED
      BY <3>1 DEF Hung
  <2>2. QED
    BY <1>1, <2>1 DEF Talk, Heard
<1>6. \A c \in Cards : cards'[c] = 0
  BY <1>1 DEF NoCards, CardIds
<1>7. Drawn'
  <2>1. \A t \in Sockets : ~\E i \in 1 .. Len(inbox'[t]) : TRUE
    BY <1>5
  <2>2. \A c \in Cards \ adrift' : c \notin canvas'
    BY <1>1
  <2>3. QED
    BY <1>6, <2>1, <2>2 DEF Drawn
<1>8. Rest'
  <2>1. cards' \in [CardIds -> Nat] /\ cards'[NoCard] = 0
    BY <1>1 DEF NoCards, CardIds
  <2>2. QED
    BY <1>1, <2>1 DEF Talk, Rest
<1>9. QED
  BY <1>4, <1>7, <1>8 DEF Talk

\* The clicks on the page keep Talk: besides connecting, they send, close a card, or hang up.
LEMMA PageTalk ==
  ASSUME ChatInv, Talk, Page
  PROVE  Talk'
<1>1. ASSUME NEW m \in Managers, NEW s \in Sockets, HandleConnect(m, s) PROVE Talk'
  BY <1>1, ConnectTalk
<1>2. CASE HandleDisconnect \/ Unmount
  <2>1. /\ Silence(Hung(current), "closing") /\ (mounted' => mounted)
        /\ UNCHANGED <<cards, bubble, backoff, stage, canvas, turn, working, faults>>
    BY <1>2 DEF HandleDisconnect, Unmount, Destroy
  <2>2. Hung(current) \in SUBSET Sockets
    BY DEF Hung
  <2>3. Quiet /\ Remembers
    BY <2>1, <2>2, SilenceQuiet DEF ChatInv
  <2>4. Rest'
    BY <2>1, SilenceRest DEF Talk, Rest
  <2>5. QED
    BY <2>3, <2>4, QuietTalk
<1>3. CASE HandleSend
  <2>1. /\ UNCHANGED <<mounted, cards, inbox, socket, stage, turn, working, canvas, adrift, backoff, faults>>
        /\ bubble' = 0
    BY <1>3 DEF HandleSend
  <2>2. Quiet /\ Remembers
    BY <2>1, StillQuiet
  <2>3. Rest'
    BY <2>1 DEF Talk, Rest
  <2>4. QED
    BY <2>2, <2>3, QuietTalk
<1>4. ASSUME NEW c \in Cards, HandleCardClose(c) PROVE Talk'
  <2>1. /\ cards' = [cards EXCEPT ![c] = 0] /\ adrift' = adrift \cup {c}
        /\ UNCHANGED <<mounted, bubble, inbox, socket, stage, turn, working, canvas, backoff, faults>>
    BY <1>4 DEF HandleCardClose
  <2>2. cards' \in [CardIds -> Nat] /\ \A d \in CardIds : cards'[d] = cards[d] \/ (d = c /\ cards'[d] = 0)
    BY <2>1 DEF Talk, Rest
  <2>3. Quiet
    BY <2>1 DEF Quiet, Ready
  <2>4. Remembers
    BY <2>1, <2>2 DEF Remembers, CardIds
  <2>5. Rest'
    BY <2>1, <2>2 DEF Talk, Rest, CardIds
  <2>6. QED
    BY <2>3, <2>4, <2>5, QuietTalk
<1>5. QED
  BY <1>1, <1>2, <1>3, <1>4 DEF Page

\* The delay of a manager stays within its bounds.
LEMMA OnCloseRest ==
  ASSUME Rest, NEW m \in Managers, OnClose(m)
  PROVE  backoff' \in [Managers -> InitialBackoff .. MaxBackoff]
<1>1. InitialBackoff \in Nat /\ MaxBackoff \in Nat /\ InitialBackoff <= MaxBackoff
  BY ChatAssumption
<1>2. \A b \in InitialBackoff .. MaxBackoff : Doubled(b) \in InitialBackoff .. MaxBackoff
  BY <1>1 DEF Doubled
<1>3. CASE backoff' = backoff
  BY <1>3 DEF Rest
<1>4. CASE backoff' = [backoff EXCEPT ![m] = Doubled(@)]
  BY <1>2, <1>4 DEF Rest
<1>5. QED
  BY <1>3, <1>4 DEF OnClose

\* A socket that has closed.
LEMMA ClosedTalk ==
  ASSUME ChatInv, Talk, NEW s \in Sockets, socket[s] # "unused", OnClose(owner[s]), Silence({s}, "closed"),
         stage' = [stage EXCEPT ![s] = "new"], faults' \in 0 .. MaxFaults,
         UNCHANGED <<mounted, cards, bubble, canvas, turn, working>>
  PROVE  Talk'
<1>1. owner[s] \in Managers
  BY DEF ChatInv, Owned, SocketsOwned
<1>2. \A t \in Sockets \ {s} : stage'[t] = stage[t]
  BY DEF ChatInv, Types
<1>3. Quiet /\ Remembers
  BY <1>2, SilenceQuiet DEF ChatInv
<1>4. Rest'
  BY <1>1, OnCloseRest, SilenceRest DEF Talk, Rest
<1>5. QED
  BY <1>3, <1>4, QuietTalk

\* One fault more, within the bound.
LEMMA FaultType ==
  ASSUME Rest, Fault
  PROVE  faults' \in 0 .. MaxFaults
BY ChatAssumption DEF Rest, Fault

\* No two sockets are open.
LEMMA OneOpen ==
  ASSUME ChatInv, NEW s \in Sockets, NEW t \in Sockets, socket[s] = "open", socket[t] = "open"
  PROVE  s = t
BY DEF ChatInv, Owned, OneLiveSocket, Live

\* What a message makes of the last entry.
LEMMA EntryOf ==
  ASSUME NEW msg \in Messages,
         IF isProtocolMessage(msg) THEN bubble' = EntryAfter(msg) ELSE bubble' = bubble
  PROVE  bubble' = Entry(bubble, msg)
<1>1. CASE ~isProtocolMessage(msg)
  BY <1>1, MessageFacts DEF Entry, Parts
<1>2. CASE isProtocolMessage(msg) /\ Says(msg)
  BY <1>2, MessageFacts DEF Entry, EntryAfter, Says
<1>3. CASE isProtocolMessage(msg) /\ ~Says(msg)
  <2>1. CASE msg.type = "status"
    BY <1>3, <2>1 DEF Entry, EntryAfter, Says, Parts
  <2>2. CASE msg.type # "status"
    <3>1. Parts(msg) /\ msg.kind # "text"
      BY <1>3, <2>2 DEF Says, Parts
    <3>2. QED
      BY <1>3, <2>2, <3>1 DEF Entry, EntryAfter
  <2>3. QED
    BY <2>1, <2>2
<1>4. QED
  BY <1>1, <1>2, <1>3

\* What a message makes of the cards: it creates one, ends one, or changes none.
LEMMA CardsOf ==
  ASSUME Rest, \A c \in Cards : cards[c] <= 1, NEW msg \in Messages,
         cards' = IF isProtocolMessage(msg) /\ msg.type = "canvas_update"
                  THEN handleCanvasUpdate(msg) ELSE cards
  PROVE  /\ cards' \in [CardIds -> Nat] /\ cards'[NoCard] = 0 /\ \A c \in Cards : cards'[c] <= 1
         /\ \A c \in Cards : IF Decides(msg, c) THEN cards'[c] > 0 <=> msg.kind = "create_card"
                             ELSE cards'[c] = cards[c]
<1>1. \A c \in CardIds : cards[c] \in Nat
  BY DEF Rest
<1>2. NoCard \notin Cards /\ Cards \subseteq CardIds /\ NoCard \in CardIds
  BY ChatAssumption DEF CardIds
<1>3. CASE ~(isProtocolMessage(msg) /\ msg.type = "canvas_update")
  <2>1. cards' = cards /\ msg.card \notin Cards
    BY <1>3, MessageFacts
  <2>2. QED
    BY <2>1 DEF Rest, Decides
<1>4. CASE isProtocolMessage(msg) /\ msg.type = "canvas_update"
  <2>1. msg.card \in Cards /\ msg.kind \in CanvasCommand
    BY <1>4, MessageFacts
  <2>2. cards' = [cards EXCEPT ![msg.card] = CardsAfter(msg.kind, @)]
    BY <1>4 DEF handleCanvasUpdate
  <2> DEFINE n == cards[msg.card]
             x == CardsAfter(msg.kind, n)
  <2>3. n \in Nat /\ n <= 1
    BY <1>1, <1>2, <2>1
  <2>4. /\ x \in Nat /\ x <= 1
        /\ msg.kind = "create_card" => x > 0
        /\ msg.kind = "update_card" => x = n
        /\ msg.kind = "close_card"  => x = 0
    <3>1. CASE msg.kind = "create_card"
      BY <2>3, <3>1 DEF CardsAfter
    <3>2. CASE msg.kind = "update_card"
      BY <2>3, <3>2 DEF CardsAfter
    <3>3. CASE msg.kind = "close_card"
      BY <2>3, <3>3 DEF CardsAfter
    <3>4. QED
      BY <2>1, <3>1, <3>2, <3>3 DEF CanvasCommand
  <2>5. cards' = [cards EXCEPT ![msg.card] = x]
    BY <2>2
  <2> HIDE DEF x
  <2>6. cards' \in [CardIds -> Nat] /\ \A c \in CardIds : cards'[c] = IF c = msg.card THEN x ELSE cards[c]
    BY <1>2, <2>1, <2>4, <2>5 DEF Rest
  <2>7. cards'[NoCard] = 0 /\ \A c \in Cards : cards'[c] <= 1
    BY <1>2, <2>1, <2>4, <2>6 DEF Rest
  <2>8. ASSUME NEW c \in Cards
        PROVE  IF Decides(msg, c) THEN cards'[c] > 0 <=> msg.kind = "create_card"
               ELSE cards'[c] = cards[c]
    <3>1. CASE c # msg.card
      BY <1>2, <2>6, <3>1 DEF Decides
    <3>2. CASE c = msg.card /\ msg.kind = "create_card"
      BY <1>2, <2>4, <2>6, <3>2 DEF Decides
    <3>3. CASE c = msg.card /\ msg.kind = "update_card"
      BY <1>2, <2>4, <2>6, <3>3 DEF Decides
    <3>4. CASE c = msg.card /\ msg.kind = "close_card"
      <4>1. cards'[c] = 0 /\ msg.kind # "create_card" /\ Decides(msg, c)
        BY <1>2, <2>4, <2>6, <3>4 DEF Decides
      <4>2. QED
        BY <4>1
    <3>5. QED
      BY <2>1, <3>1, <3>2, <3>3, <3>4 DEF CanvasCommand
  <2>9. QED
    BY <2>6, <2>7, <2>8
<1>5. QED
  BY <1>3, <1>4

\* The browser hands a message on: cards and bubble go with it.
LEMMA ReceiveTalk ==
  ASSUME ChatInv, Talk, NEW s \in Sockets, Receive(s)
  PROVE  Talk' /\ (Says(Head(inbox[s])) => bubble' = Head(inbox[s]).turn)
<1> DEFINE msg == Head(inbox[s])
<1>1. /\ socket[s] = "open" /\ inbox[s] # <<>> /\ inbox' = [inbox EXCEPT ![s] = Tail(@)]
      /\ UNCHANGED <<mounted, socket, owner, stage, canvas, turn, working, faults>>
  BY DEF Receive
<1>2. inbox[s] \in Seq(Messages)
  BY DEF ChatInv, Types
<1>3. /\ msg \in Messages /\ msg = inbox[s][1] /\ 1 \in 1 .. Len(inbox[s])
      /\ \A t \in Sockets \ {s} : inbox'[t] = inbox[t]
      /\ \A i \in 1 .. Len(inbox'[s]) : i + 1 \in 1 .. Len(inbox[s]) /\ inbox'[s][i] = inbox[s][i + 1]
  BY <1>1, TakeType DEF ChatInv
<1>4. inbox'[s] = Tail(inbox[s]) /\ Len(inbox'[s]) = Len(inbox[s]) - 1 /\ Len(inbox[s]) \in Nat
  BY <1>1, <1>2 DEF ChatInv, Types
<1>5. \A t \in Sockets \ {s} : socket[t] # "open" /\ inbox[t] = <<>> /\ inbox'[t] = <<>>
  BY <1>1, <1>3, OneOpen DEF Talk, Heard
<1>6. bubble' = Entry(bubble, msg)
  BY <1>3, EntryOf DEF Receive
<1>7. cards' = IF isProtocolMessage(msg) /\ msg.type = "canvas_update" THEN handleCanvasUpdate(msg) ELSE cards
  BY DEF Receive
<1>8. /\ cards' \in [CardIds -> Nat] /\ cards'[NoCard] = 0 /\ \A c \in Cards : cards'[c] <= 1
      /\ \A c \in Cards : IF Decides(msg, c) THEN cards'[c] > 0 <=> msg.kind = "create_card"
                          ELSE cards'[c] = cards[c]
  BY <1>3, <1>7, CardsOf DEF Talk, Drawn
<1>9. \A c \in Cards \ adrift' : c \notin adrift \/ Decides(msg, c)
  BY DEF Receive, Decides
<1>10. adrift' \in SUBSET Cards
  BY DEF Receive, Talk, Rest
<1>11. backoff' \in [Managers -> InitialBackoff .. MaxBackoff]
  <2>1. InitialBackoff \in InitialBackoff .. MaxBackoff
    BY ChatAssumption
  <2>2. CASE backoff' = backoff
    BY <2>2 DEF Talk, Rest
  <2>3. CASE backoff' = [backoff EXCEPT ![owner[s]] = InitialBackoff]
    BY <2>1, <2>3 DEF Talk, Rest
  <2>4. QED
    BY <2>2, <2>3 DEF Receive, handleSystemMessage
<1> HIDE DEF msg
<1>12. Heard'
  <2>1. ASSUME NEW t \in Sockets, stage[t] # "ready", NEW i \in 1 .. Len(inbox'[t])
        PROVE  ~Says(inbox'[t][i]) /\ ~OfAgent(inbox'[t][i])
    <3>1. t = s
      BY <1>5, <2>1
    <3>2. QED
      BY <1>3, <2>1, <3>1 DEF Talk, Heard
  <2>2. QED
    BY <1>1, <1>5, <2>1 DEF Talk, Heard
<1>13. ASSUME s \in Ready
       PROVE  /\ Coherent(inbox'[s], bubble', turn, working)
              /\ Says(msg) => bubble' = msg.turn
  <2>1. Coherent(inbox[s], bubble, turn, working)
    BY <1>13 DEF Talk, Bubbles
  <2>2. QED
    BY <1>1, <1>2, <1>4, <1>6, <2>1, CoherentTake DEF msg
<1>14. Bubbles'
  <2>1. \A t \in Ready' : t = s /\ s \in Ready
    BY <1>1, <1>5 DEF Ready
  <2>2. QED
    BY <1>1, <1>13, <2>1 DEF Bubbles
<1>15. Says(msg) => bubble' = msg.turn
  <2>1. Says(msg) => s \in Ready
    BY <1>1, <1>3 DEF Talk, Heard, Ready
  <2>2. QED
    BY <1>13, <2>1
<1>16. ASSUME NEW c \in Cards, NEW i \in 1 .. Len(inbox'[s]), Settles(s, c, i)'
       PROVE  inbox'[s][i].kind = "create_card" <=> c \in canvas'
  <2>1. i + 1 \in 1 .. Len(inbox[s]) /\ inbox'[s][i] = inbox[s][i + 1]
    BY <1>3
  <2>2. \A j \in (i + 1) + 1 .. Len(inbox[s]) :
          j - 1 \in i + 1 .. Len(inbox'[s]) /\ j - 1 \in 1 .. Len(inbox'[s]) /\ (j - 1) + 1 = j
    BY <1>4, <2>1
  <2>3. \A j \in (i + 1) + 1 .. Len(inbox[s]) : ~Decides(inbox[s][j], c)
    BY <1>3, <1>16, <2>2 DEF Settles
  <2>4. Settles(s, c, i + 1)
    BY <1>16, <2>1, <2>3 DEF Settles
  <2>5. QED
    BY <1>1, <2>1, <2>4 DEF Talk, Drawn
<1>17. ASSUME mounted, NEW c \in Cards \ adrift', \A t \in Sockets : Undecided(t, c)'
       PROVE  cards'[c] > 0 <=> c \in canvas'
  <2>1. \A j \in 1 .. Len(inbox[s]) : j = 1 \/ (j - 1 \in 1 .. Len(inbox'[s]) /\ (j - 1) + 1 = j)
    BY <1>4
  <2>2. \A j \in 1 .. Len(inbox[s]) : j = 1 \/ ~Decides(inbox[s][j], c)
    BY <1>3, <1>17, <2>1 DEF Undecided
  <2>3. CASE Decides(msg, c)
    <3>1. \A j \in 1 + 1 .. Len(inbox[s]) : j \in 1 .. Len(inbox[s]) /\ j # 1
      BY <1>4
    <3>2. Settles(s, c, 1)
      BY <1>3, <2>2, <2>3, <3>1 DEF Settles
    <3>3. msg.kind = "create_card" <=> c \in canvas
      BY <1>3, <3>2 DEF Talk, Drawn
    <3>4. QED
      BY <1>1, <1>8, <2>3, <3>3
  <2>4. CASE ~Decides(msg, c)
    <3>1. c \notin adrift /\ cards'[c] = cards[c]
      BY <1>8, <1>9, <2>4
    <3>2. ASSUME NEW t \in Sockets PROVE Undecided(t, c)
      <4>1. CASE t = s
        BY <1>3, <2>2, <2>4, <4>1 DEF Undecided
      <4>2. CASE t # s
        BY <1>5, <4>2 DEF Undecided
      <4>3. QED
        BY <4>1, <4>2
    <3>3. cards[c] > 0 <=> c \in canvas
      BY <1>17, <3>1, <3>2 DEF Talk, Drawn
    <3>4. QED
      BY <1>1, <3>1, <3>3
  <2>5. QED
    BY <2>3, <2>4
<1>18. Drawn'
  <2>1. \A t \in Sockets : \A i \in 1 .. Len(inbox'[t]) : t = s
    BY <1>5
  <2>2. QED
    BY <1>1, <1>8, <1>16, <1>17, <2>1 DEF Drawn
<1>19. bubble' \in Turns \cup {0}
  BY <1>3, <1>6, MessageFacts DEF Entry, Talk, Rest
<1>20. Rest'
  BY <1>1, <1>8, <1>10, <1>11, <1>19 DEF Talk, Rest
<1>21. QED
  BY <1>12, <1>14, <1>15, <1>18, <1>20 DEF Talk, msg

\* A message is sent to socket s.
LEMMA PostTalk ==
  ASSUME ChatInv, Talk, NEW s \in Sockets, socket[s] = "open", NEW msg \in Messages, Post(s, msg),
         UNCHANGED <<mounted, cards, bubble, socket, adrift>>,
         \A t \in Sockets \ {s} : stage'[t] = stage[t],
         stage[s] = "ready" => stage'[s] = "ready",
         Says(msg) \/ OfAgent(msg) => stage'[s] = "ready",
         stage'[s] = "ready" => Coherent(inbox'[s], bubble, turn', working'),
         \A c \in Cards : IF Decides(msg, c) THEN c \in canvas' <=> msg.kind = "create_card"
                          ELSE c \in canvas' <=> c \in canvas,
         Rest'
  PROVE  Talk'
<1> DEFINE n == Len(inbox[s])
<1>1. inbox[s] \in Seq(Messages)
  BY DEF ChatInv, Types
<1>2. inbox'[s] = Append(inbox[s], msg) /\ \A t \in Sockets \ {s} : inbox'[t] = inbox[t]
  BY DEF Post, ChatInv, Types
<1>3. /\ Len(inbox'[s]) = n + 1 /\ inbox'[s][n + 1] = msg /\ n \in Nat
      /\ \A i \in 1 .. n : inbox'[s][i] = inbox[s][i]
  BY <1>1, <1>2, Appended
<1>4. \A i \in 1 .. n + 1 : i \in 1 .. n \/ i = n + 1
  BY <1>3
<1>5. \A t \in Sockets \ {s} : socket[t] # "open" /\ inbox'[t] = <<>>
  BY <1>2, OneOpen DEF Talk, Heard
<1> HIDE DEF n
<1>6. Heard'
  <2>1. ASSUME stage'[s] # "ready", NEW i \in 1 .. Len(inbox'[s])
        PROVE  ~Says(inbox'[s][i]) /\ ~OfAgent(inbox'[s][i])
    <3>1. CASE i \in 1 .. n
      BY <1>3, <2>1, <3>1 DEF Talk, Heard, n
    <3>2. CASE i = n + 1
      BY <1>3, <2>1, <3>2
    <3>3. QED
      BY <1>3, <1>4, <3>1, <3>2
  <2>2. \A t \in Sockets : \A i \in 1 .. Len(inbox'[t]) : t = s
    BY <1>5
  <2>3. \A t \in Sockets : socket'[t] # "open" => inbox'[t] = <<>>
    BY <1>5
  <2>4. \A t \in Sockets : socket'[t] \in {"unused", "connecting"} => stage'[t] = "new"
    BY DEF Talk, Heard
  <2>5. QED
    BY <2>1, <2>2, <2>3, <2>4 DEF Heard
<1>7. Bubbles'
  <2>1. \A t \in Ready' : t = s /\ stage'[s] = "ready"
    BY <1>5 DEF Ready
  <2>2. QED
    BY <2>1 DEF Bubbles
<1>8. ASSUME NEW c \in Cards, NEW i \in 1 .. Len(inbox'[s]), Settles(s, c, i)'
      PROVE  inbox'[s][i].kind = "create_card" <=> c \in canvas'
  <2>1. Decides(inbox'[s][i], c) /\ \A j \in i + 1 .. n + 1 : ~Decides(inbox'[s][j], c)
    BY <1>3, <1>8 DEF Settles
  <2>2. CASE i = n + 1
    <3>1. inbox'[s][i] = msg /\ Decides(msg, c)
      BY <1>3, <2>1, <2>2
    <3>2. c \in canvas' <=> msg.kind = "create_card"
      BY <3>1
    <3>3. QED
      BY <3>1, <3>2
  <2>3. CASE i \in 1 .. n
    <3>1. n + 1 \in i + 1 .. n + 1 /\ \A j \in i + 1 .. n : j \in i + 1 .. n + 1 /\ j \in 1 .. n
      BY <1>3, <2>3
    <3>2. ~Decides(msg, c) /\ \A j \in i + 1 .. n : ~Decides(inbox[s][j], c)
      BY <1>3, <2>1, <3>1
    <3>3. Settles(s, c, i) /\ inbox'[s][i] = inbox[s][i]
      BY <1>3, <2>1, <2>3, <3>2 DEF Settles, n
    <3>4. inbox[s][i].kind = "create_card" <=> c \in canvas
      BY <2>3, <3>3 DEF Talk, Drawn, n
    <3>5. c \in canvas' <=> c \in canvas
      BY <3>2
    <3>6. QED
      BY <3>3, <3>4, <3>5
  <2>4. QED
    BY <1>3, <1>4, <2>2, <2>3
<1>9. ASSUME mounted, NEW c \in Cards \ adrift, \A t \in Sockets : Undecided(t, c)'
      PROVE  cards[c] > 0 <=> c \in canvas'
  <2>1. ~Decides(msg, c) /\ \A i \in 1 .. n : ~Decides(inbox[s][i], c)
    <3>1. n + 1 \in 1 .. n + 1 /\ \A i \in 1 .. n : i \in 1 .. n + 1
      BY <1>3
    <3>2. QED
      BY <1>3, <1>9, <3>1 DEF Undecided
  <2>2. ASSUME NEW t \in Sockets PROVE Undecided(t, c)
    <3>1. CASE t = s
      BY <2>1, <3>1 DEF Undecided, n
    <3>2. CASE t # s
      BY <1>2, <1>9, <3>2 DEF Undecided
    <3>3. QED
      BY <3>1, <3>2
  <2>3. cards[c] > 0 <=> c \in canvas
    BY <1>9, <2>2 DEF Talk, Drawn
  <2>4. c \in canvas' <=> c \in canvas
    BY <2>1
  <2>5. QED
    BY <2>3, <2>4
<1>10. Drawn'
  <2>1. \A t \in Sockets : \A i \in 1 .. Len(inbox'[t]) : t = s
    BY <1>5
  <2>2. \A c \in Cards : cards'[c] <= 1
    BY DEF Talk, Drawn
  <2>3. QED
    BY <1>8, <1>9, <2>1, <2>2 DEF Drawn
<1>11. QED
  BY <1>6, <1>7, <1>10 DEF Talk

\* A message of the agent is lost: no socket is ready.
LEMMA LostTalk ==
  ASSUME Talk, Ready = {}, UNCHANGED <<mounted, cards, bubble, inbox, socket, stage>>,
         \A c \in Cards \ adrift' : c \notin adrift /\ (c \in canvas' <=> c \in canvas), Rest'
  PROVE  Talk'
<1>1. Heard'
  BY DEF Talk, Heard
<1>2. Ready' = {}
  BY DEF Ready
<1>3. Bubbles'
  BY <1>2 DEF Bubbles
<1>4. ASSUME NEW s \in Sockets, NEW c \in Cards PROVE Undecided(s, c)
  <2>1. \A i \in 1 .. Len(inbox[s]) : ~OfAgent(inbox[s][i])
    <3>1. CASE stage[s] # "ready"
      BY <3>1 DEF Talk, Heard
    <3>2. CASE socket[s] # "open"
      BY <3>2 DEF Talk, Heard
    <3>3. QED
      BY <3>1, <3>2 DEF Ready
  <2>2. QED
    BY <2>1 DEF OfAgent, Undecided, Decides
<1>5. ASSUME NEW s \in Sockets, NEW c \in Cards, NEW i \in 1 .. Len(inbox'[s]) PROVE ~Settles(s, c, i)'
  BY <1>4, <1>5 DEF Settles, Undecided
<1>6. ASSUME mounted', NEW c \in Cards \ adrift' PROVE cards'[c] > 0 <=> c \in canvas'
  BY <1>4, <1>6 DEF Talk, Drawn
<1>7. \A c \in Cards : cards'[c] <= 1
  BY DEF Talk, Drawn
<1>8. Drawn'
  BY <1>5, <1>6, <1>7 DEF Drawn
<1>9. QED
  BY <1>1, <1>3, <1>8 DEF Talk

\* The socket that a message of the agent goes to.
LEMMA EmitCases ==
  ASSUME NEW msg, Emit(msg)
  PROVE  \/ /\ Ready = {} /\ inbox' = inbox
            /\ adrift' = adrift \cup (IF msg.kind \in {"create_card", "close_card"} THEN {msg.card} ELSE {})
         \/ \E s \in Ready : Post(s, msg) /\ adrift' = adrift
<1>1. CASE Ready = {}
  BY <1>1 DEF Emit
<1>2. CASE Ready # {}
  <2>1. (CHOOSE s \in Ready : TRUE) \in Ready
    BY <1>2
  <2>2. Post(CHOOSE s \in Ready : TRUE, msg) /\ adrift' = adrift
    BY <1>2 DEF Emit
  <2>3. QED
    BY <2>1, <2>2
<1>3. QED
  BY <1>1, <1>2

\* A canvas command joins every inbox that is ready: it decides what its card will be, once the inbox is read.
LEMMA DrawsTalk ==
  ASSUME ChatInv, Talk, NEW k \in CanvasCommand, NEW c \in Cards, AgentDraws(k, c)
  PROVE  Talk'
<1> DEFINE msg == Canvas(k, c)
<1>1. /\ Emit(msg)
      /\ UNCHANGED <<mounted, cards, bubble, backoff, socket, stage, turn, working, faults>>
  BY DEF AgentDraws
<1>2. /\ msg \in Messages /\ Parts(msg) /\ ~Says(msg) /\ msg.card = c /\ msg.kind = k
  BY MessageKinds, MessageShapes
<1>3. /\ k = "create_card" => canvas' = canvas \cup {c}
      /\ k = "update_card" => canvas' = canvas
      /\ k = "close_card"  => canvas' = canvas \ {c}
      /\ k \in {"create_card", "update_card", "close_card"}
  BY DEF AgentDraws, CanvasCommand
<1> HIDE DEF msg
<1>4. canvas' \in SUBSET Cards
  BY <1>3 DEF Talk, Rest
<1>5. CASE /\ Ready = {} /\ inbox' = inbox
           /\ adrift' = adrift \cup (IF msg.kind \in {"create_card", "close_card"} THEN {msg.card} ELSE {})
  <2>1. Rest'
    BY <1>1, <1>2, <1>4, <1>5 DEF Talk, Rest
  <2>2. \A d \in Cards \ adrift' : d \notin adrift /\ (d \in canvas' <=> d \in canvas)
    BY <1>2, <1>3, <1>5
  <2>3. QED
    BY <1>1, <1>5, <2>1, <2>2, LostTalk
<1>6. ASSUME NEW s \in Ready, Post(s, msg), adrift' = adrift PROVE Talk'
  <2>1. s \in Sockets /\ socket[s] = "open" /\ stage[s] = "ready" /\ inbox[s] \in Seq(Messages)
    BY DEF Ready, ChatInv, Types
  <2>2. Rest'
    BY <1>1, <1>4, <1>6 DEF Talk, Rest
  <2>3. inbox'[s] = Append(inbox[s], msg)
    BY <1>6, <2>1 DEF Post, ChatInv, Types
  <2>4. Coherent(inbox[s], bubble, turn, working)
    BY DEF Talk, Bubbles
  <2>5. Coherent(inbox'[s], bubble, turn', working')
    BY <1>2, <2>1, <2>3, <2>4, CoherentPost
  <2>6. ASSUME NEW d \in Cards
        PROVE  IF Decides(msg, d) THEN d \in canvas' <=> msg.kind = "create_card"
               ELSE d \in canvas' <=> d \in canvas
    BY <1>2, <1>3 DEF Decides
  <2>7. QED
    BY <1>1, <1>2, <1>6, <2>1, <2>2, <2>5, <2>6, PostTalk
<1>7. QED
  BY <1>1, <1>5, <1>6, EmitCases

\* An event of the agent joins every inbox that is ready, behind those of its own turn or of turns that ended.
LEMMA TalksTalk ==
  ASSUME ChatInv, Talk, NEW e \in AgentEventType, AgentTalks(e)
  PROVE  Talk'
<1> DEFINE msg == Agent(e, turn')
<1>1. /\ Emit(msg)
      /\ UNCHANGED <<mounted, cards, bubble, backoff, socket, stage, canvas, faults>>
  BY DEF AgentTalks
<1>2. \/ ~working /\ turn < missions /\ e = "text" /\ turn' = turn + 1 /\ working' = TRUE
      \/ working /\ turn' = turn /\ working' = (e \in {"text", "tool"})
  BY DEF AgentTalks
<1>3. turn' \in Turns /\ working' \in BOOLEAN /\ (e = "text" => working' /\ (working => turn' = turn))
  <2>1. turn \in 0 .. missions /\ missions \in 0 .. MaxMissions /\ MaxMissions \in Nat
    BY ChatAssumption DEF ChatInv, Types
  <2>2. CASE ~working /\ turn < missions /\ e = "text" /\ turn' = turn + 1 /\ working' = TRUE
    BY <2>1, <2>2 DEF Turns
  <2>3. CASE working /\ turn' = turn /\ working' = (e \in {"text", "tool"})
    <3>1. turn' \in Turns
      BY <2>3 DEF ChatInv, Types
    <3>2. working' \in BOOLEAN
      BY <2>3
    <3>3. e = "text" => working'
      BY <2>3
    <3>4. QED
      BY <2>3, <3>1, <3>2, <3>3
  <2>4. QED
    BY <1>2, <2>2, <2>3
<1>4. /\ msg \in Messages /\ msg.turn = turn' /\ msg.card \notin Cards
      /\ msg.kind \notin {"create_card", "close_card"}
      /\ Says(msg) <=> e = "text"
      /\ Parts(msg) <=> e # "text"
  BY <1>3, MessageKinds, MessageShapes
<1> HIDE DEF msg
<1>5. ASSUME adrift' = adrift PROVE Rest'
  BY <1>1, <1>3, <1>5 DEF Talk, Rest
<1>6. CASE /\ Ready = {} /\ inbox' = inbox
           /\ adrift' = adrift \cup (IF msg.kind \in {"create_card", "close_card"} THEN {msg.card} ELSE {})
  <2>1. adrift' = adrift
    BY <1>4, <1>6
  <2>2. QED
    BY <1>1, <1>5, <1>6, <2>1, LostTalk
<1>7. ASSUME NEW s \in Ready, Post(s, msg), adrift' = adrift PROVE Talk'
  <2>1. s \in Sockets /\ socket[s] = "open" /\ stage[s] = "ready" /\ inbox[s] \in Seq(Messages)
    BY DEF Ready, ChatInv, Types
  <2>2. inbox'[s] = Append(inbox[s], msg)
    BY <1>7, <2>1 DEF Post, ChatInv, Types
  <2>3. Coherent(inbox[s], bubble, turn, working)
    BY DEF Talk, Bubbles
  <2>4. \/ Parts(msg) /\ ~Says(msg)
        \/ ~Parts(msg) /\ msg.turn = turn' /\ working' /\ (working => turn' = turn)
    BY <1>3, <1>4
  <2>5. Coherent(inbox'[s], bubble, turn', working')
    BY <1>4, <2>1, <2>2, <2>3, <2>4, CoherentPost
  <2>6. \A d \in Cards : ~Decides(msg, d) /\ (d \in canvas' <=> d \in canvas)
    BY <1>1, <1>4 DEF Decides
  <2>7. QED
    BY <1>1, <1>4, <1>5, <1>7, <2>1, <2>5, <2>6, PostTalk
<1>8. QED
  BY <1>1, <1>6, <1>7, EmitCases

\* The agent's steps keep Talk.
LEMMA AgentTalk ==
  ASSUME ChatInv, Talk, AgentSteps
  PROVE  Talk'
BY DrawsTalk, TalksTalk DEF AgentSteps

\* The events of sockets and timers keep Talk: a message read moves from the inbox to the screen.
LEMMA BrowserTalk ==
  ASSUME ChatInv, Talk, Browser
  PROVE  Talk'
<1>1. ASSUME NEW s \in Sockets, Opened(s) PROVE Talk'
  <2>1. /\ socket[s] = "connecting" /\ socket' = [socket EXCEPT ![s] = "open"]
        /\ UNCHANGED <<mounted, cards, bubble, backoff, inbox, stage, canvas, turn, working, adrift, faults>>
    BY <1>1 DEF Opened
  <2>2. stage[s] = "new" /\ \A t \in Sockets : socket'[t] = IF t = s THEN "open" ELSE socket[t]
    BY <2>1 DEF ChatInv, Types, Talk, Heard
  <2>3. \A t \in Ready' : t \in Ready
    BY <2>1, <2>2 DEF Ready
  <2>4. Quiet /\ Remembers
    BY <2>1, <2>2, <2>3 DEF Quiet, Remembers
  <2>5. Rest'
    BY <2>1 DEF Talk, Rest
  <2>6. QED
    BY <2>4, <2>5, QuietTalk
<1>2. ASSUME NEW s \in Sockets, TokenArrives(s) PROVE Talk'
  <2>1. /\ \/ stage' = stage
           \/ \E t : socket[t] = "open" /\ stage[t] = "new" /\ stage' = [stage EXCEPT ![t] = "authed"]
        /\ UNCHANGED <<mounted, cards, bubble, backoff, socket, inbox, canvas, turn, working, adrift, faults>>
    BY <1>2 DEF TokenArrives
  <2>2. \A t \in Sockets : stage'[t] = stage[t] \/ (socket[t] = "open" /\ stage[t] = "new" /\ stage'[t] = "authed")
    BY <2>1 DEF ChatInv, Types
  <2>3. \A t \in Ready' : t \in Ready
    BY <2>1, <2>2 DEF Ready
  <2>4. Quiet /\ Remembers
    BY <2>1, <2>2, <2>3 DEF Quiet, Remembers
  <2>5. Rest'
    BY <2>1 DEF Talk, Rest
  <2>6. QED
    BY <2>4, <2>5, QuietTalk
<1>3. ASSUME NEW s \in Sockets, Closed(s) PROVE Talk'
  <2>1. faults' \in 0 .. MaxFaults
    BY <1>3 DEF Closed, Talk, Rest
  <2>2. QED
    BY <1>3, <2>1, ClosedTalk DEF Closed
<1>4. ASSUME NEW s \in Sockets, Receive(s) PROVE Talk'
  BY <1>4, ReceiveTalk
<1>5. ASSUME NEW m \in Managers, NEW s \in Sockets, TimerFires(m, s) PROVE Talk'
  <2>1. /\ socket[s] = "unused"
        /\ socket' = socket \/ socket' = [socket EXCEPT ![s] = "connecting"]
        /\ UNCHANGED <<mounted, cards, bubble, backoff, inbox, stage, canvas, turn, working, adrift, faults>>
    BY <1>5 DEF TimerFires, IsNext
  <2>2. \A t \in Sockets : socket'[t] = socket[t] \/ (socket[t] = "unused" /\ socket'[t] = "connecting")
    BY <2>1 DEF ChatInv, Types
  <2>3. \A t \in Ready' : t \in Ready
    BY <2>1, <2>2 DEF Ready
  <2>4. Quiet /\ Remembers
    BY <2>1, <2>2, <2>3 DEF Quiet, Remembers
  <2>5. Rest'
    BY <2>1 DEF Talk, Rest
  <2>6. QED
    BY <2>4, <2>5, QuietTalk
<1>6. QED
  BY <1>1, <1>2, <1>3, <1>4, <1>5 DEF Browser

\* The bridge keeps Talk: what it adds to an inbox is of the system, and a socket it closes loses its inbox.
LEMMA BridgeTalk ==
  ASSUME ChatInv, Talk, Bridge
  PROVE  Talk'
<1>1. ASSUME NEW s \in Sockets, NEW e \in SystemEvent, BridgeAnnounces(s, e) PROVE Talk'
  <2> DEFINE msg == System(e)
  <2>1. /\ socket[s] = "open" /\ Post(s, msg)
        /\ \E x \in Stage : stage' = [stage EXCEPT ![s] = x]
        /\ stage[s] # "ready"
        /\ UNCHANGED <<mounted, cards, bubble, backoff, socket, canvas, turn, working, adrift, faults>>
    BY <1>1 DEF BridgeAnnounces, Stage
  <2>2. msg \in Messages /\ Parts(msg) /\ ~Says(msg) /\ ~OfAgent(msg)
    BY MessageKinds, MessageShapes
  <2> HIDE DEF msg
  <2>3. \A t \in Sockets \ {s} : stage'[t] = stage[t]
    BY <2>1 DEF ChatInv, Types
  <2>4. inbox[s] \in Seq(Messages) /\ \A i \in 1 .. Len(inbox[s]) : ~Says(inbox[s][i])
    BY <2>1 DEF ChatInv, Types, Talk, Heard
  <2>5. inbox'[s] = Append(inbox[s], msg)
    BY <2>1 DEF Post, ChatInv, Types
  <2>6. Coherent(inbox'[s], bubble, turn', working')
    BY <2>2, <2>4, <2>5, CoherentStart
  <2>7. \A c \in Cards : ~Decides(msg, c) /\ (c \in canvas' <=> c \in canvas)
    BY <2>1, <2>2 DEF Decides, OfAgent
  <2>8. Rest'
    BY <2>1 DEF Talk, Rest
  <2>9. QED
    BY <2>1, <2>2, <2>3, <2>6, <2>7, <2>8, PostTalk
<1>2. ASSUME NEW s \in Sockets, NEW msg \in Noise \cup {System("error")}, BridgeComplains(s, msg) PROVE Talk'
  <2>1. /\ socket[s] = "open" /\ Post(s, msg) /\ Fault
        /\ UNCHANGED <<mounted, cards, bubble, backoff, socket, stage, canvas, turn, working, adrift>>
    BY <1>2 DEF BridgeComplains
  <2>2. msg \in Messages /\ ~Says(msg) /\ ~OfAgent(msg)
    BY MessageKinds, MessageShapes DEF SystemEvent
  <2>3. inbox[s] \in Seq(Messages)
    BY DEF ChatInv, Types
  <2>4. inbox'[s] = Append(inbox[s], msg)
    BY <2>1 DEF Post, ChatInv, Types
  <2>5. ASSUME stage'[s] = "ready" PROVE Coherent(inbox'[s], bubble, turn', working')
    <3>1. s \in Ready
      BY <2>1, <2>5 DEF Ready
    <3>2. Coherent(inbox[s], bubble, turn, working)
      BY <3>1 DEF Talk, Bubbles
    <3>3. Coherent(Append(inbox[s], msg), bubble, turn, working)
      BY <2>2, <2>3, <3>2, CoherentPost
    <3>4. QED
      BY <2>1, <2>4, <3>3
  <2>6. \A c \in Cards : ~Decides(msg, c) /\ (c \in canvas' <=> c \in canvas)
    BY <2>1, <2>2 DEF Decides, OfAgent
  <2>7. Rest'
    BY <2>1, FaultType DEF Talk, Rest
  <2>8. QED
    BY <2>1, <2>2, <2>5, <2>6, <2>7, PostTalk
<1>3. ASSUME NEW s \in Sockets, BridgeCloses(s) PROVE Talk'
  <2>1. /\ Silence({s}, "closing") /\ Fault
        /\ UNCHANGED <<mounted, cards, bubble, backoff, stage, canvas, turn, working>>
    BY <1>3 DEF BridgeCloses
  <2>2. Quiet /\ Remembers
    BY <2>1, SilenceQuiet DEF ChatInv
  <2>3. Rest'
    BY <2>1, SilenceRest, FaultType DEF Talk, Rest
  <2>4. QED
    BY <2>2, <2>3, QuietTalk
<1>4. ASSUME NEW s \in Sockets, Drops(s) PROVE Talk'
  <2>1. socket[s] # "unused" /\ faults' \in 0 .. MaxFaults
    BY <1>4, FaultType DEF Drops, Live, Talk
  <2>2. QED
    BY <1>4, <2>1, ClosedTalk DEF Drops
<1>5. ASSUME NEW s \in Sockets, NoToken(s) PROVE Talk'
  <2>1. /\ Silence(Hung(owner[s]), "closing") /\ Fault
        /\ UNCHANGED <<mounted, cards, bubble, backoff, stage, canvas, turn, working>>
    BY <1>5 DEF NoToken, ClosedWithoutToken
  <2>2. Hung(owner[s]) \in SUBSET Sockets
    BY DEF Hung
  <2>3. Quiet /\ Remembers
    BY <2>1, <2>2, SilenceQuiet DEF ChatInv
  <2>4. Rest'
    BY <2>1, SilenceRest, FaultType DEF Talk, Rest
  <2>5. QED
    BY <2>3, <2>4, QuietTalk
<1>6. ASSUME NEW s \in Sockets, TokenRejects(s) PROVE Talk'
  <2>1. /\ Fault
        /\ UNCHANGED <<mounted, cards, bubble, backoff, stage, socket, inbox, canvas, turn, working, adrift>>
    BY <1>6 DEF TokenRejects
  <2>2. Quiet /\ Remembers
    BY <2>1 DEF Quiet, Remembers, Ready
  <2>3. Rest'
    BY <2>1, FaultType DEF Talk, Rest
  <2>4. QED
    BY <2>2, <2>3, QuietTalk
<1>7. QED
  BY <1>1, <1>2, <1>3, <1>4, <1>5, <1>6 DEF Bridge

\* A set of positions that is not empty has a last one.
LEMMA LastOf ==
  ASSUME NEW n \in Nat, NEW S \in SUBSET (1 .. n), S # {}
  PROVE  \E i \in S : \A j \in S : j <= i
<1> DEFINE R == OpToRel(<, Nat)
           T == {n - i : i \in S}
<1>1. \A x, y \in Nat : <<x, y>> \in R <=> x < y
  BY DEF OpToRel
<1>2. T \subseteq Nat /\ T # {}
  <2>1. \A i \in 1 .. n : n - i \in Nat
    OBVIOUS
  <2>2. QED
    BY <2>1
<1>3. IsWellFoundedOn(R, Nat)
  BY NatLessThanWellFounded
<1> HIDE DEF R
<1>4. PICK x \in T : \A y \in T : <<y, x>> \notin R
  BY <1>2, <1>3, WFMin
<1>5. PICK i \in S : x = n - i
  OBVIOUS
<1>6. ASSUME NEW j \in S PROVE j <= i
  <2>1. n - j \in T /\ n - j \in Nat /\ n - i \in Nat
    BY <1>2
  <2>2. ~(n - j < n - i)
    BY <1>1, <1>4, <1>5, <2>1
  <2>3. QED
    BY <2>1, <2>2
<1>7. QED
  BY <1>6

\* What the cards and the bubbles rest on: every message, loss, cross on a card and
\* turn of the agent keeps it.
THEOREM TalkInductive == Spec => [](ChatInv /\ Talk)
<1>1. Init => ChatInv /\ Talk
  BY TypesInit, TalkInit DEF ChatInv
<1>2. ChatInv /\ Talk /\ ChatInv' /\ [Next]_vars => Talk'
  <2>1. ASSUME Talk, UNCHANGED vars PROVE Talk'
    <3>1. UNCHANGED <<mounted, cards, inbox, socket, stage, turn, working, canvas, adrift,
                      bubble, backoff, faults>>
      BY <2>1
    <3>2. Quiet /\ Remembers
      BY <3>1, StillQuiet
    <3>3. Rest'
      BY <2>1, <3>1 DEF Talk, Rest
    <3>4. QED
      BY <2>1, <3>2, <3>3, QuietTalk
  <2>2. QED
    BY <2>1, PageTalk, BrowserTalk, BridgeTalk, AgentTalk DEF Next
<1>3. QED
  BY <1>1, <1>2, ChatInductive, PTL DEF Spec

\* TypeOK: in every reachable state each variable is of its type, the delays of
\* reconnecting stay within their bounds (websocket.ts:211-214), and no card without
\* an id is on the page (isProtocolMessage, ws-protocol.ts:389).
THEOREM TypeSafe == Spec => []TypeOK
<1>1. ChatInv /\ Talk => TypeOK
  BY DEF ChatInv, Types, Talk, Rest, TypeOK
<1>2. QED
  BY <1>1, TalkInductive, PTL

\* Only the socket the page's manager holds has messages under way.
LEMMA OnlyCurrent ==
  ASSUME ChatInv, Talk, NEW s \in Sockets, inbox[s] # <<>>
  PROVE  current # 0 /\ ws[current] = s
BY DEF ChatInv, Owned, OneLiveSocket, Live, Talk, Heard

\* CanvasTracksAgent: whatever is lost with sockets, closed by the user and drawn
\* meanwhile, the cards on the page become those the agent has, each once
\* (handleCanvasUpdate, page.tsx:54-77).
THEOREM CanvasSafe == Spec => []CanvasTracksAgent
<1>1. ASSUME ChatInv, Talk, mounted, NEW c \in Cards \ adrift
      PROVE  WillShow(c) <=> c \in canvas
  <2>1. CASE Coming(c) = {}
    <3>1. ASSUME NEW s \in Sockets PROVE Undecided(s, c)
      <4>1. CASE inbox[s] = <<>>
        BY <4>1 DEF Undecided
      <4>2. CASE inbox[s] # <<>>
        <5>1. current # 0 /\ ws[current] = s /\ s # 0
          BY <1>1, <4>2, OnlyCurrent, Numbers
        <5>2. QED
          BY <2>1, <5>1 DEF Coming, Undecided, Decides
      <4>3. QED
        BY <4>1, <4>2
    <3>2. cards[c] > 0 <=> c \in canvas
      BY <1>1, <3>1 DEF Talk, Drawn
    <3>3. QED
      BY <2>1, <3>2 DEF WillShow
  <2>2. CASE Coming(c) # {}
    <3>1. current # 0 /\ ws[current] # 0
      BY <2>2 DEF Coming
    <3>2. current \in Managers /\ ws[current] \in Sockets
      BY <1>1, <3>1 DEF ChatInv, Types
    <3> DEFINE q == inbox[ws[current]]
    <3>3. q \in Seq(Messages) /\ Len(q) \in Nat
      BY <1>1, <3>2 DEF ChatInv, Types
    <3>4. Coming(c) = {i \in 1 .. Len(q) : Decides(q[i], c)}
      BY <3>1 DEF Coming, Decides
    <3>5. PICK i \in Coming(c) : \A j \in Coming(c) : j <= i
      BY <2>2, <3>3, <3>4, LastOf
    <3>6. i \in 1 .. Len(q) /\ Settles(ws[current], c, i)
      <4>1. i \in 1 .. Len(q) /\ Decides(q[i], c)
        BY <3>4
      <4>2. \A j \in i + 1 .. Len(q) : j \in 1 .. Len(q) /\ ~(j <= i)
        BY <3>3, <4>1
      <4>3. \A j \in i + 1 .. Len(q) : ~Decides(q[j], c)
        BY <3>4, <3>5, <4>2
      <4>4. QED
        BY <4>1, <4>3 DEF Settles
    <3>7. q[i].kind = "create_card" <=> c \in canvas
      BY <1>1, <3>2, <3>6 DEF Talk, Drawn
    <3>8. \A k \in Coming(c) : (\A j \in Coming(c) : j <= k) => k = i
      BY <3>3, <3>4, <3>5
    <3>9. WillShow(c) <=> q[i].kind = "create_card"
      BY <2>2, <3>5, <3>8 DEF WillShow
    <3>10. QED
      BY <3>7, <3>9
  <2>3. QED
    BY <2>1, <2>2
<1>2. ChatInv /\ Talk => CanvasTracksAgent
  BY <1>1 DEF CanvasTracksAgent, Talk, Drawn
<1>3. QED
  BY <1>2, TalkInductive, PTL

\* OneTurnPerBubble: whatever is lost between them, text of one turn never goes
\* into the bubble of another (handleMessage, page.tsx:79-148).
THEOREM BubbleSafe == Spec => OneTurnPerBubble
<1>1. ASSUME ChatInv, Talk, NEW s \in Sockets, Receive(s), Head(inbox[s]).kind = "text"
      PROVE  bubble' = Head(inbox[s]).turn
  BY <1>1, ReceiveTalk DEF Says
<1>2. ChatInv /\ Talk =>
        [\A s \in Sockets :
           Receive(s) /\ Head(inbox[s]).kind = "text" => bubble' = Head(inbox[s]).turn]_vars
  BY <1>1
<1>3. QED
  BY <1>2, TalkInductive, PTL DEF OneTurnPerBubble
=============================================================================
