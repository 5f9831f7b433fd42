---------------------------- MODULE ChatConnection ----------------------------
(***************************************************************************)
(* The chat with an agent over a WebSocket: frontend/lib/websocket.ts, its *)
(* message protocol types/ws-protocol.ts and the page that uses both,      *)
(* app/(app)/test-chat/page.tsx.  The bridge and the agent at the other    *)
(* end are not in the repository; they are modelled as the page sees them. *)
(*                                                                         *)
(* JavaScript runs one handler at a time, so every handler is one action;  *)
(* authenticate, which awaits a token, is two.  Managers and sockets are   *)
(* numbered in the order of their creation and keep their callbacks after  *)
(* the page has dropped them.                                              *)
(***************************************************************************)
EXTENDS Integers, Sequences

CONSTANTS Cards, NoCard,                \* card ids of the agent's canvas, and none
          InitialBackoff, MaxBackoff,   \* INITIAL_BACKOFF_MS, MAX_BACKOFF_MS
          MaxManagers,                  \* bound: clicks on Connect
          MaxFaults,                    \* bound: drops, refusals, noise, tokens that fail
          MaxMissions,                  \* bound: messages the user sends
          MaxInbox                      \* bound: messages under way to the browser

ASSUME ChatAssumption ==
  /\ NoCard \notin Cards
  /\ InitialBackoff \in Nat \ {0} /\ MaxBackoff \in Nat /\ InitialBackoff <= MaxBackoff
  /\ MaxManagers \in Nat /\ MaxFaults \in Nat /\ MaxMissions \in Nat /\ MaxInbox \in Nat

Managers == 1 .. MaxManagers
\* A manager opens a second socket only after a fault closed the first.
Sockets  == 1 .. (MaxManagers + MaxFaults)
Turns    == 1 .. MaxMissions

VARIABLES
  mounted, current,  \* the page, and its managerRef; 0 is null
  shown,             \* the page's status state
  cards,             \* how many cards of each id the page has
  bubble,            \* turn of the last chat entry when that is agent text, else 0
  status, intentional, ws, timer, backoff,  \* fields of each manager; ws 0 is null
  socket, owner,     \* readyState and manager of each socket
  tokens,            \* sockets whose authenticate awaits its token
  inbox,             \* messages under way to each socket
  stage,             \* how far the bridge is with each socket
  canvas,            \* cards the agent has on its canvas
  missions, turn, working,  \* missions the agent received, its last turn, whether it is at it
  adrift,            \* history: cards whose last command was lost or undone by the user
  faults

pageVars    == <<mounted, current, shown, cards, bubble>>
managerVars == <<status, intentional, ws, timer, backoff>>
socketVars  == <<socket, owner, tokens, inbox, stage>>
agentVars   == <<canvas, missions, turn, working>>
vars == <<pageVars, managerVars, socketVars, agentVars, adrift, faults>>

ConnectionStatus ==
  {"disconnected", "connecting", "authenticating", "sprite_waking", "connected", "error"}
\* "authed" once it has read an auth message; the rest is what it said since.
Stage == {"new", "authed", "connected", "waking", "ready"}
ReadyState == {"unused", "connecting", "open", "closing", "closed"}

\* The ids the entries of cards may have: that of a card whose command had none is NoCard.
CardIds == Cards \cup {NoCard}
NoCards == [c \in CardIds |-> 0]

Live(s) == socket[s] \in {"connecting", "open"}
-----------------------------------------------------------------------------
(* Messages.  A message is its type, what its payload says, and the names  *)
(* of the fields that are there with the right type of value.              *)

SystemEvent    == {"connected", "sprite_waking", "sprite_ready", "error"}
AgentEventType == {"text", "tool", "complete", "error"}
CanvasCommand  == {"create_card", "update_card", "close_card"}

Base == {"type", "id", "timestamp"}

\* The payload fields each type of message must have.
Required ==
  [mission            |-> {"text"},
   file_upload        |-> {"filename", "mime_type", "data"},
   canvas_interaction |-> {"card_id", "action"},
   auth               |-> {"token"},
   agent_event        |-> {"event_type", "content"},
   canvas_update      |-> {"command", "card_id"},
   status             |-> {"document_id", "status"},
   system             |-> {"event"}]

isWebSocketMessage(msg) == Base \subseteq msg.fields
hasPayload(msg)         == "payload" \in msg.fields

isProtocolMessage_bug(msg) == isWebSocketMessage(msg) /\ msg.type \in DOMAIN Required

isProtocolMessage(msg) ==
  /\ isWebSocketMessage(msg)
  /\ msg.type \in DOMAIN Required
  /\ hasPayload(msg)
  /\ Required[msg.type] \subseteq msg.fields

Message(type, kind, card, t) ==
  [type |-> type, kind |-> kind, card |-> card, turn |-> t,
   fields |-> Base \cup {"payload"} \cup Required[type]]

System(event)        == Message("system", event, NoCard, 0)
Agent(event, t)      == Message("agent_event", event, NoCard, t)
Canvas(command, c)   == Message("canvas_update", command, c, 0)

\* What the bridge may send besides: a status message, which the page ignores,
\* and a canvas command without its card_id.
Noise == {Message("status", "processing", NoCard, 0),
          [Canvas("create_card", NoCard) EXCEPT !.fields = @ \ {"card_id"}]}

Messages ==
  {System(e) : e \in SystemEvent} \cup {Agent(e, t) : e \in AgentEventType, t \in Turns}
  \cup {Canvas(k, c) : k \in CanvasCommand, c \in Cards} \cup Noise

TypeOK ==
  /\ mounted \in BOOLEAN /\ current \in Managers \cup {0}
  /\ shown \in ConnectionStatus
  /\ cards \in [CardIds -> Nat] /\ cards[NoCard] = 0
  /\ bubble \in Turns \cup {0}
  /\ status \in [Managers -> ConnectionStatus \cup {"unused"}]
  /\ intentional \in [Managers -> BOOLEAN]
  /\ ws \in [Managers -> Sockets \cup {0}]
  /\ timer \in [Managers -> BOOLEAN]
  /\ backoff \in [Managers -> InitialBackoff .. MaxBackoff]
  /\ socket \in [Sockets -> ReadyState]
  /\ owner \in [Sockets -> Managers \cup {0}]
  /\ tokens \subseteq Sockets
  /\ inbox \in [Sockets -> Seq(Messages)]
  /\ stage \in [Sockets -> Stage]
  /\ canvas \subseteq Cards
  /\ missions \in 0 .. MaxMissions /\ turn \in 0 .. missions /\ working \in BOOLEAN
  /\ adrift \subseteq Cards
  /\ faults \in 0 .. MaxFaults
-----------------------------------------------------------------------------
Init ==
  /\ mounted = TRUE /\ current = 0 /\ shown = "disconnected"
  /\ cards = NoCards /\ bubble = 0
  /\ status = [m \in Managers |-> "unused"]
  /\ intentional = [m \in Managers |-> FALSE]
  /\ ws = [m \in Managers |-> 0]
  /\ timer = [m \in Managers |-> FALSE]
  /\ backoff = [m \in Managers |-> InitialBackoff]
  /\ socket = [s \in Sockets |-> "unused"]
  /\ owner = [s \in Sockets |-> 0]
  /\ tokens = {}
  /\ inbox = [s \in Sockets |-> <<>>]
  /\ stage = [s \in Sockets |-> "new"]
  /\ canvas = {} /\ missions = 0 /\ turn = 0 /\ working = FALSE
  /\ adrift = {} /\ faults = 0

\* Variants, named *_bug, are what a plausible mistake would make of the
\* definition that follows them; no specification uses them.

Fault == faults < MaxFaults /\ faults' = faults + 1

\* Every manager tells the page, whether or not it is still the page's.
setStatus(m, new) == status' = [status EXCEPT ![m] = new] /\ shown' = new

\* The next of the managers, or of the sockets, to be created.
IsNext(f, x) == f[x] = "unused" /\ \A y \in DOMAIN f : y < x => f[y] # "unused"

\* The socket a call to close on manager m ends; 0 is no manager.
Hung(m) == IF m = 0 THEN {} ELSE {s \in Sockets : s = ws[m] /\ Live(s)}

\* Cards whose creation or end is lost with what is under way to socket s.
Unheard(s) ==
  {c \in Cards : \E i \in 1 .. Len(inbox[s]) : inbox[s][i].card = c /\ inbox[s][i].kind # "update_card"}

\* The sockets of S take the given state and deliver nothing any more.
Silence(S, state) ==
  /\ socket' = [s \in Sockets |-> IF s \in S THEN state ELSE socket[s]]
  /\ inbox' = [s \in Sockets |-> IF s \in S THEN <<>> ELSE inbox[s]]
  /\ adrift' = adrift \cup UNION {Unheard(s) : s \in S}
-----------------------------------------------------------------------------
(* The page                                                                *)

\* A field of the page's manager, if it has one, set to v.
OfCurrent(field, v) == IF current = 0 THEN field ELSE [field EXCEPT ![current] = v]

ClearsTimer_bug == timer
ClearsTimer     == OfCurrent(timer, FALSE)

\* destroy of the page's manager: nothing happens without one.
Destroy ==
  /\ intentional' = OfCurrent(intentional, TRUE)
  /\ timer' = ClearsTimer
  /\ ws' = OfCurrent(ws, 0)
  /\ status' = OfCurrent(status, "disconnected")
  /\ Silence(Hung(current), "closing")

ClearedCards_bug == cards
ClearedCards     == NoCards

\* The button, or Enter in its field, both usable only while the page shows
\* "disconnected".  The agent of another stack has another canvas, and the page
\* is not told what is on either.
HandleConnect(m, s) ==
  /\ mounted /\ shown = "disconnected"
  /\ IsNext(status, m) /\ IsNext(socket, s)
  /\ intentional' = OfCurrent(intentional, TRUE)
  /\ timer' = ClearsTimer
  /\ ws' = [OfCurrent(ws, 0) EXCEPT ![m] = s]
  /\ status' = [OfCurrent(status, "disconnected") EXCEPT ![m] = "connecting"]
  /\ shown' = "connecting"
  /\ socket' = [t \in Sockets |-> IF t = s THEN "connecting"
                                  ELSE IF t \in Hung(current) THEN "closing" ELSE socket[t]]
  /\ inbox' = [t \in Sockets |-> IF t \in Hung(current) THEN <<>> ELSE inbox[t]]
  /\ owner' = [owner EXCEPT ![s] = m]
  /\ current' = m
  /\ cards' = ClearedCards /\ bubble' = 0
  /\ canvas' \in {canvas, {}}
  /\ adrift' = canvas'
  /\ UNCHANGED <<mounted, backoff, tokens, stage, missions, turn, working, faults>>

\* The other button, there in every other status.
HandleDisconnect ==
  /\ mounted /\ shown # "disconnected"
  /\ Destroy
  /\ current' = 0
  /\ shown' = "disconnected"
  /\ UNCHANGED <<mounted, cards, bubble, backoff, owner, tokens, stage, agentVars, faults>>

Unmount ==
  /\ mounted
  /\ mounted' = FALSE
  /\ Destroy
  /\ UNCHANGED <<current, shown, cards, bubble, backoff, owner, tokens, stage, agentVars, faults>>

\* Send is there only in status "connected", and send refuses unless the socket
\* is open.
HandleSend ==
  /\ mounted /\ shown = "connected" /\ current # 0
  /\ ws[current] # 0 /\ socket[ws[current]] = "open"
  /\ missions < MaxMissions
  /\ missions' = missions + 1
  /\ bubble' = 0
  /\ UNCHANGED <<mounted, current, shown, cards, managerVars, socketVars, canvas, turn, working,
                 adrift, faults>>

\* The cross on a card.  The agent is not told.
HandleCardClose(c) ==
  /\ mounted /\ cards[c] > 0
  /\ cards' = [cards EXCEPT ![c] = 0]
  /\ adrift' = adrift \cup {c}
  /\ UNCHANGED <<mounted, current, shown, bubble, managerVars, socketVars, agentVars, faults>>
-----------------------------------------------------------------------------
(* Events of a socket, handled by its manager                              *)

\* onopen, up to the await of authenticate.
Opened(s) ==
  /\ socket[s] = "connecting"
  /\ socket' = [socket EXCEPT ![s] = "open"]
  /\ tokens' = tokens \cup {s}
  /\ setStatus(owner[s], "authenticating")
  /\ UNCHANGED <<mounted, current, cards, bubble, intentional, ws, timer, backoff,
                 owner, inbox, stage, agentVars, adrift, faults>>

\* The rest of authenticate with a token: it is sent on the socket the manager
\* has by now.  On one still connecting send throws, on one closing it does nothing.
TokenArrives(s) ==
  LET t == ws[owner[s]] IN
  /\ s \in tokens
  /\ tokens' = tokens \ {s}
  /\ stage' = IF t # 0 /\ socket[t] = "open" /\ stage[t] = "new"
              THEN [stage EXCEPT ![t] = "authed"] ELSE stage
  /\ UNCHANGED <<pageVars, managerVars, socket, owner, inbox, agentVars, adrift, faults>>

ClosedWithoutToken_bug(m) == {}
ClosedWithoutToken(m)     == Hung(m)

\* The same without a token.  Whichever manager it is, the page shows an error.
NoToken(s) ==
  /\ s \in tokens
  /\ Fault
  /\ tokens' = tokens \ {s}
  /\ setStatus(owner[s], "error")
  /\ Silence(ClosedWithoutToken(owner[s]), "closing")
  /\ UNCHANGED <<mounted, current, cards, bubble, intentional, ws, timer, backoff,
                 owner, stage, agentVars>>

\* getToken rejects: nothing follows, and nothing in the browser closes the socket.
TokenRejects(s) ==
  /\ s \in tokens
  /\ Fault
  /\ tokens' = tokens \ {s}
  /\ UNCHANGED <<pageVars, managerVars, socket, owner, inbox, stage, agentVars, adrift>>

Doubled(b) == IF 2 * b <= MaxBackoff THEN 2 * b ELSE MaxBackoff

\* A status in which onclose looks no further.
GivesUp_bug(m) == intentional[m] \/ status[m] = "error"
GivesUp(m)     == intentional[m]

\* onclose, with scheduleReconnect.
OnClose(m) ==
  /\ ws' = [ws EXCEPT ![m] = 0]
  /\ IF GivesUp(m)
     THEN UNCHANGED <<status, shown, timer, backoff>>
     ELSE /\ setStatus(m, "disconnected")
          /\ timer' = [timer EXCEPT ![m] = TRUE]
          /\ backoff' = [backoff EXCEPT ![m] = Doubled(@)]

\* The end of a close that either side began.
Closed(s) ==
  /\ socket[s] = "closing"
  /\ OnClose(owner[s])
  /\ Silence({s}, "closed")
  /\ stage' = [stage EXCEPT ![s] = "new"]
  /\ UNCHANGED <<mounted, current, cards, bubble, intentional, owner, tokens, agentVars, faults>>

\* The network fails: onerror, which does nothing, and onclose at once.
Drops(s) ==
  /\ Live(s)
  /\ Fault
  /\ OnClose(owner[s])
  /\ Silence({s}, "closed")
  /\ stage' = [stage EXCEPT ![s] = "new"]
  /\ UNCHANGED <<mounted, current, cards, bubble, intentional, owner, tokens, agentVars>>

\* The timer's callback, which calls connect.
TimerFires(m, s) ==
  /\ timer[m] /\ IsNext(socket, s)
  /\ timer' = [timer EXCEPT ![m] = FALSE]
  /\ IF ws[m] # 0
     THEN UNCHANGED <<intentional, status, shown, ws, socket, owner>>
     ELSE /\ intentional' = [intentional EXCEPT ![m] = FALSE]
          /\ setStatus(m, "connecting")
          /\ ws' = [ws EXCEPT ![m] = s]
          /\ socket' = [socket EXCEPT ![s] = "connecting"]
          /\ owner' = [owner EXCEPT ![s] = m]
  /\ UNCHANGED <<mounted, current, cards, bubble, backoff, tokens, inbox, stage,
                 agentVars, adrift, faults>>
-----------------------------------------------------------------------------
(* Messages that arrive                                                    *)

\* handleSystemMessage: the status an event sets, if it sets one.
StatusAfter_bug(event, old) ==
  CASE event = "connected"     -> {"connected"}
    [] event = "sprite_waking" -> {"sprite_waking"}
    [] event = "sprite_ready"  -> {"connected"}
    [] event = "error"         -> IF old = "connected" THEN {} ELSE {"error"}

StatusAfter(event, old) ==
  CASE event = "connected"     -> {}
    [] event = "sprite_waking" -> {"sprite_waking"}
    [] event = "sprite_ready"  -> {"connected"}
    [] event = "error"         -> IF old = "connected" THEN {} ELSE {"error"}

handleSystemMessage(m, msg) ==
  IF msg.type # "system" \/ StatusAfter(msg.kind, status[m]) = {}
  THEN UNCHANGED <<status, shown, backoff>>
  ELSE /\ \E new \in StatusAfter(msg.kind, status[m]) : setStatus(m, new)
       /\ backoff' = IF msg.kind = "sprite_ready"
                     THEN [backoff EXCEPT ![m] = InitialBackoff] ELSE backoff

\* handleCanvasUpdate: how many cards of its id a command leaves where there were n.
\* An update changes what a card shows, not which cards there are.
CardsAfter_bug(command, n) ==
  CASE command = "create_card" -> n + 1
    [] command = "update_card" -> n
    [] command = "close_card"  -> 0

CardsAfter(command, n) ==
  CASE command = "create_card" -> IF n > 0 THEN n ELSE 1
    [] command = "update_card" -> n
    [] command = "close_card"  -> 0

handleCanvasUpdate(msg) == [cards EXCEPT ![msg.card] = CardsAfter(msg.kind, @)]

\* handleMessage: what the last entry of the chat is.  A text goes into the
\* bubble of the last one; every other message but a status is an entry of its own.
EntryAfter_bug(msg) ==
  CASE msg.type = "status"                      -> bubble
    [] msg.type = "agent_event" /\ msg.kind = "text" -> IF bubble = 0 THEN msg.turn ELSE bubble
    [] msg.type = "agent_event" /\ msg.kind = "complete" -> bubble
    [] OTHER                                    -> 0

EntryAfter(msg) ==
  CASE msg.type = "status"                           -> bubble
    [] msg.type = "agent_event" /\ msg.kind = "text" -> IF bubble = 0 THEN msg.turn ELSE bubble
    [] OTHER                                         -> 0

\* onmessage: handleRawMessage and the page's onMessage.
Receive(s) ==
  LET msg == Head(inbox[s]) IN
  /\ socket[s] = "open" /\ inbox[s] # <<>>
  /\ inbox' = [inbox EXCEPT ![s] = Tail(@)]
  /\ IF isProtocolMessage(msg)
     THEN /\ handleSystemMessage(owner[s], msg)
          /\ bubble' = EntryAfter(msg)
          /\ cards' = IF msg.type = "canvas_update" THEN handleCanvasUpdate(msg) ELSE cards
          /\ adrift' = IF msg.kind \in {"create_card", "close_card"} THEN adrift \ {msg.card} ELSE adrift
     ELSE UNCHANGED <<status, shown, backoff, bubble, cards, adrift>>
  /\ UNCHANGED <<mounted, current, intentional, ws, timer, socket, owner, tokens, stage,
                 agentVars, faults>>
-----------------------------------------------------------------------------
(* The bridge and the agent                                                *)

Post(s, msg) == Len(inbox[s]) < MaxInbox /\ inbox' = [inbox EXCEPT ![s] = Append(@, msg)]

\* After the auth message: connected, then ready, perhaps with a wait between.
BridgeAnnounces(s, event) ==
  /\ socket[s] = "open"
  /\ \/ stage[s] = "authed" /\ event = "connected" /\ stage' = [stage EXCEPT ![s] = "connected"]
     \/ stage[s] = "connected" /\ event = "sprite_waking" /\ stage' = [stage EXCEPT ![s] = "waking"]
     \/ /\ stage[s] \in {"connected", "waking"} /\ event = "sprite_ready"
        /\ stage' = [stage EXCEPT ![s] = "ready"]
  /\ Post(s, System(event))
  /\ UNCHANGED <<pageVars, managerVars, socket, owner, tokens, agentVars, adrift, faults>>

\* An error that is not fatal, or noise.
BridgeComplains(s, msg) ==
  /\ socket[s] = "open"
  /\ Fault
  /\ Post(s, msg)
  /\ UNCHANGED <<pageVars, managerVars, socket, owner, tokens, stage, agentVars, adrift>>

BridgeCloses(s) ==
  /\ socket[s] = "open"
  /\ Fault
  /\ Silence({s}, "closing")
  /\ UNCHANGED <<pageVars, managerVars, owner, tokens, stage, agentVars>>

Ready == {s \in Sockets : socket[s] = "open" /\ stage[s] = "ready"}

\* A message of the agent goes to the socket that is ready; without one it is lost.
Emit(msg) ==
  IF Ready = {}
  THEN inbox' = inbox /\ adrift' = adrift \cup
         (IF msg.kind \in {"create_card", "close_card"} THEN {msg.card} ELSE {})
  ELSE Post(CHOOSE s \in Ready : TRUE, msg) /\ adrift' = adrift

AgentDraws(command, c) ==
  /\ c \in canvas \/ command = "create_card"
  /\ canvas' = CASE command = "create_card" -> canvas \cup {c}
                 [] command = "update_card" -> canvas
                 [] command = "close_card"  -> canvas \ {c}
  /\ Emit(Canvas(command, c))
  /\ UNCHANGED <<pageVars, managerVars, socket, owner, tokens, stage,
                 missions, turn, working, faults>>

\* The agent takes one mission after the other and ends a turn with a word.
AgentTalks(event) ==
  /\ \/ /\ ~working /\ turn < missions /\ event = "text"
        /\ turn' = turn + 1 /\ working' = TRUE
     \/ /\ working
        /\ turn' = turn /\ working' = (event \in {"text", "tool"})
  /\ Emit(Agent(event, turn'))
  /\ UNCHANGED <<pageVars, managerVars, socket, owner, tokens, stage, canvas, missions, faults>>
-----------------------------------------------------------------------------
Page == \/ \E m \in Managers, s \in Sockets : HandleConnect(m, s)
        \/ HandleDisconnect \/ Unmount \/ HandleSend
        \/ \E c \in Cards : HandleCardClose(c)

Browser == \/ \E s \in Sockets : Opened(s) \/ TokenArrives(s) \/ Closed(s) \/ Receive(s)
           \/ \E m \in Managers, s \in Sockets : TimerFires(m, s)

Bridge == \E s \in Sockets : \/ \E e \in SystemEvent : BridgeAnnounces(s, e)
                             \/ \E msg \in Noise \cup {System("error")} : BridgeComplains(s, msg)
                             \/ BridgeCloses(s) \/ Drops(s)
                             \/ NoToken(s) \/ TokenRejects(s)

\* What the agent does once the page is gone nobody sees.
AgentSteps == /\ mounted
              /\ \/ \E k \in CanvasCommand, c \in Cards : AgentDraws(k, c)
                 \/ \E e \in AgentEventType : AgentTalks(e)

Next == Page \/ Browser \/ Bridge \/ AgentSteps

Spec == Init /\ [][Next]_vars

\* The browser runs what is due, Clerk answers, and the bridge wakes the sprite.
FairSpec ==
  /\ Spec
  /\ \A s \in Sockets : /\ WF_vars(Opened(s)) /\ WF_vars(TokenArrives(s) \/ NoToken(s))
                        /\ WF_vars(Closed(s)) /\ WF_vars(Receive(s))
                        /\ SF_vars(\E e \in SystemEvent : BridgeAnnounces(s, e))
  /\ \A m \in Managers : WF_vars(\E s \in Sockets : TimerFires(m, s))
-----------------------------------------------------------------------------
(* Safety                                                                  *)

\* However often the user connects and the network fails, a socket that is
\* connecting or open is the one the page's manager holds: no timer, token or
\* late close event of an old manager opens or keeps another.
OneLiveSocket ==
  \A s \in Sockets : Live(s) => mounted /\ current # 0 /\ owner[s] = current /\ ws[current] = s

\* The page lets the user write only when the manager it holds has a socket the
\* bridge has announced as ready, on which a token was sent, or one just closing.
ConnectedIsReady ==
  mounted /\ shown = "connected" =>
    /\ current # 0 /\ ws[current] # 0
    /\ stage[ws[current]] = "ready" /\ status[current] = "connected"

\* A manager the page holds has a socket or a timer that will give it one, and
\* never both: no failure leaves it waiting for nothing.
SocketOrTimer ==
  \A m \in Managers : status[m] # "unused" =>
    IF mounted /\ current = m THEN timer[m] <=> ws[m] = 0 ELSE ~timer[m] /\ ws[m] = 0

\* There is one way to the bridge, and there always is one.
OneWayToBridge == OneLiveSocket /\ SocketOrTimer

\* What is still on its way to the page that decides whether card c is there.
Coming(c) ==
  {i \in 1 .. (IF current = 0 \/ ws[current] = 0 THEN 0 ELSE Len(inbox[ws[current]])) :
     /\ inbox[ws[current]][i].card = c
     /\ inbox[ws[current]][i].kind \in {"create_card", "close_card"}}

\* The last such message decides.
WillShow(c) == \/ Coming(c) = {} /\ cards[c] > 0
               \/ \E i \in Coming(c) : /\ \A j \in Coming(c) : j <= i
                                       /\ inbox[ws[current]][i].kind = "create_card"

\* Once everything under way has arrived the page shows the cards the agent has,
\* each once, except where a command was lost with a socket or the user closed
\* the card, and no later command has settled it.
CanvasTracksAgent ==
  /\ \A c \in Cards : cards[c] <= 1
  /\ mounted => \A c \in Cards \ adrift : WillShow(c) <=> c \in canvas

\* Text of one turn is never appended to the bubble of another, whatever is lost
\* between them.
OneTurnPerBubble ==
  [][\A s \in Sockets :
       Receive(s) /\ Head(inbox[s]).kind = "text" => bubble' = Head(inbox[s]).turn]_vars

(* Liveness                                                                *)

\* getToken has rejected, and the bridge keeps the socket it heard no token on.
Unauthenticated(m) ==
  /\ status[m] = "authenticating" /\ ws[m] # 0
  /\ socket[ws[m]] = "open" /\ stage[ws[m]] = "new" /\ \A s \in tokens : owner[s] # m

\* A connection that is down comes up again by itself once the network, Clerk
\* and the bridge let it, unless the user takes it down or leaves, or asking for
\* the token fails (websocket.ts:142 catches nothing).
ComesBack ==
  \A m \in Managers :
    (mounted /\ current = m /\ status[m] # "connected")
      ~> (status[m] = "connected" \/ current # m \/ ~mounted \/ Unauthenticated(m))
=============================================================================
