------------------------------ MODULE EventFeed ------------------------------
(***************************************************************************)
(* What a reader of a stream of server-sent events is promised, whatever   *)
(* chunks the network cuts the stream into: it is shown every event the    *)
(* server sent, once and in order, and a feed ends only when all were      *)
(* shown.  A feed that is aborted or breaks was shown a prefix.            *)
(***************************************************************************)
EXTENDS Naturals, Sequences

CONSTANTS Feeds, Events

VARIABLES sent,   \* events the server has sent on each feed
          shown,  \* events the reader was shown
          state   \* "open", "ended" or "cut"

vars == <<sent, shown, state>>

Init == /\ sent = [f \in Feeds |-> <<>>]
        /\ shown = [f \in Feeds |-> <<>>]
        /\ state = [f \in Feeds |-> "open"]

Send(f, e) == /\ sent' = [sent EXCEPT ![f] = Append(@, e)]
              /\ UNCHANGED <<shown, state>>

\* One read may show several events.
Show(f) == /\ state[f] = "open"
           /\ \E n \in Len(shown[f]) .. Len(sent[f]) :
                shown' = [shown EXCEPT ![f] = SubSeq(sent[f], 1, n)]
           /\ \/ state' = state
              \/ shown'[f] = sent[f] /\ state' = [state EXCEPT ![f] = "ended"]
           /\ UNCHANGED sent

\* A feed is cut by the reader or by the network.
Cut(f) == /\ state[f] = "open" /\ state' = [state EXCEPT ![f] = "cut"]
          /\ UNCHANGED <<sent, shown>>

Next == \E f \in Feeds : (\E e \in Events : Send(f, e)) \/ Show(f) \/ Cut(f)

Spec == Init /\ [][Next]_vars
=============================================================================
