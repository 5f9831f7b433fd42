----------------------------- MODULE AgentStream -----------------------------
(***************************************************************************)
(* The hook useAgentStream (hooks/use-agent-stream.ts) and the reader of   *)
(* server-sent events it uses (lib/agent-api.ts).  A submission waits for  *)
(* a token, then for the answer to its request, then reads chunks.  The    *)
(* hook keeps one AbortController, read again after the token.             *)
(*                                                                         *)
(* A message on the wire is the two halves of its line and the blank line  *)
(* that ends it, so a chunk can end inside a line, between the newlines or *)
(* after several messages.                                                 *)
(***************************************************************************)
EXTENDS Picking

CONSTANTS Kinds,        \* kinds of messages; "error" and "complete" end a stream
          MaxSubmits,   \* bound: submissions
          MaxMessages   \* bound: messages of one stream

ASSUME StreamAssumption == /\ {"error", "complete"} \subseteq Kinds /\ "nl" \notin Kinds
                           /\ MaxSubmits \in Nat /\ MaxMessages \in Nat \ {0}

Submissions == 1 .. MaxSubmits

VARIABLES
  status, events, error,  \* the hook's state; error is whether there is one
  ctrl,                   \* abortControllerRef: its submission, 0 is null
  aborted,                \* controllers that were aborted
  mounted,                \* the hook is rendered
  submits,                \* submissions so far
  stage,                  \* where each submission is
  signal,                 \* the controller its request was given
  wire, closed,           \* bytes of the answer under way; the server has closed it
  buffer,                 \* the reader's incomplete message
  received,               \* receivedComplete
  sent, got,              \* history: messages sent, and events given to handleEvent
  owner, exposed          \* history: the last submission since a reset; an earlier one was
                          \* still running then and kept out of the reach of an abort

hookVars   == <<status, events, error, ctrl, aborted, mounted, submits, owner>>
streamVars == <<stage, signal, wire, closed, buffer, received, sent, got>>
vars == <<hookVars, streamVars, exposed>>

NL == <<"nl", 0>>
Byte == (Kinds \X {1, 2}) \cup {NL}
Message(m) == << <<m, 1>>, <<m, 2>>, NL, NL >>

\* Variants, named *_bug, are what a plausible mistake would make of the
\* definition that follows them; no specification uses them.

\* split("\n\n"): where the last complete message of b ends, 0 if there is none.
Boundaries(b) == {k \in 2 .. Len(b) : b[k] = NL /\ b[k - 1] = NL}
LastBoundary(b) == IF Boundaries(b) = {} THEN 0
                   ELSE CHOOSE k \in Boundaries(b) : \A j \in Boundaries(b) : j <= k

Complete(b) == SubSeq(b, 1, LastBoundary(b))
\* messages.pop(): what stays in the buffer.
Pop_bug(b) == <<>>
Keeps_bug(b) == b
Pop(b)     == SubSeq(b, LastBoundary(b) + 1, Len(b))

\* processSSELine: a line is an event when it is whole; any other is not
\* "data: " or not JSON, and is ignored.
WholeLine(b, i) == /\ i + 1 <= Len(b)
                   /\ b[i] # NL /\ b[i][2] = 1 /\ b[i + 1] = <<b[i][1], 2>>
                   /\ i = 1 \/ b[i - 1] = NL
                   /\ i + 1 = Len(b) \/ b[i + 2] = NL
processSSELines(b) ==
  LET lines == Picked(b, {i \in DOMAIN b : WholeLine(b, i)})
  IN  [n \in DOMAIN lines |-> lines[n][1]]

\* What handleEvent makes of the events es, in order.
IsEnd(m) == m \in {"error", "complete"}
StatusAfter(es) == LET ends == Picked(es, {i \in DOMAIN es : IsEnd(es[i])})
                   IN  IF ends = <<>> THEN status ELSE ends[Len(ends)]
Shown(es)   == Picked(es, {i \in DOMAIN es : es[i] # "error"})
Holds(m, es) == \E i \in 1 .. Len(es) : es[i] = m

\* An incomplete message is all the buffer ever keeps.
TypeOK ==
  /\ status \in {"idle", "streaming", "complete", "error"} /\ error \in BOOLEAN
  /\ events \in Seq(Kinds \ {"error"})
  /\ submits \in 0 .. MaxSubmits /\ ctrl \in 0 .. submits /\ owner \in 0 .. submits
  /\ aborted \subseteq 1 .. submits /\ mounted \in BOOLEAN /\ exposed \in BOOLEAN
  /\ stage \in [Submissions -> {"none", "token", "request", "open", "done", "cut"}]
  /\ signal \in [Submissions -> 0 .. submits]
  /\ wire \in [Submissions -> Seq(Byte)] /\ closed \in [Submissions -> BOOLEAN]
  /\ buffer \in [Submissions -> Seq(Byte)]
  /\ \A s \in Submissions : Len(buffer[s]) < 4 /\ LastBoundary(buffer[s]) = 0
  /\ received \in [Submissions -> BOOLEAN]
  /\ sent \in [Submissions -> Seq(Kinds)] /\ got \in [Submissions -> Seq(Kinds)]
-----------------------------------------------------------------------------
Init ==
  /\ status = "idle" /\ events = <<>> /\ error = FALSE
  /\ ctrl = 0 /\ aborted = {} /\ mounted = TRUE /\ submits = 0
  /\ stage = [s \in Submissions |-> "none"] /\ signal = [s \in Submissions |-> 0]
  /\ wire = [s \in Submissions |-> <<>>] /\ closed = [s \in Submissions |-> FALSE]
  /\ buffer = [s \in Submissions |-> <<>>] /\ received = [s \in Submissions |-> FALSE]
  /\ sent = [s \in Submissions |-> <<>>] /\ got = [s \in Submissions |-> <<>>]
  /\ owner = 0 /\ exposed = FALSE

(* The hook                                                                *)

\* Submission s has still something to write, whatever ab aborts.
Running(s, ab) == \/ stage[s] = "token"
                  \/ stage[s] \in {"request", "open"} /\ signal[s] \notin ab

Submit ==
  /\ mounted /\ submits < MaxSubmits
  /\ submits' = submits + 1
  /\ status' = "streaming" /\ events' = <<>> /\ error' = FALSE
  /\ ctrl' = submits'
  /\ stage' = [stage EXCEPT ![submits'] = "token"]
  /\ owner' = submits' /\ exposed' = \E s \in Submissions : Running(s, aborted)
  /\ UNCHANGED <<aborted, mounted, signal, wire, closed, buffer, received, sent, got>>

\* The abort of a reset or of an unmount.
AfterAbort_bug == aborted
AfterAbort     == aborted \cup ({ctrl} \ {0})

Reset ==
  /\ mounted
  /\ aborted' = AfterAbort /\ ctrl' = 0
  /\ status' = "idle" /\ events' = <<>> /\ error' = FALSE
  /\ owner' = 0
  /\ exposed' = \E s \in Submissions : Running(s, aborted \cup {ctrl})
  /\ UNCHANGED <<mounted, submits, streamVars>>

Unmount ==
  /\ mounted /\ mounted' = FALSE
  /\ aborted' = AfterAbort
  /\ UNCHANGED <<status, events, error, ctrl, submits, owner, streamVars, exposed>>

\* Submission s writes to the state of the hook; React drops it after an unmount.
Writes(st, evs, err) ==
  /\ IF mounted THEN status' = st /\ events' = evs /\ error' = err
                ELSE UNCHANGED <<status, events, error>>
  /\ UNCHANGED <<ctrl, aborted, mounted, submits, owner, exposed>>

Moves(s, to) == stage' = [stage EXCEPT ![s] = to]
Untouched == UNCHANGED <<hookVars, exposed>>

\* The catch branch, for every error but an AbortError.
CaughtStatus_bug == status
CaughtStatus     == "error"
Caught(s) ==
  /\ Moves(s, "cut") /\ Writes(CaughtStatus, events, TRUE)
  /\ UNCHANGED <<signal, wire, closed, buffer, received, sent, got>>

\* After the token, abortControllerRef is read: null after a reset, which throws,
\* and otherwise the controller of the last submission.
TokenArrives(s, ok) ==
  /\ stage[s] = "token"
  /\ IF ~ok \/ ctrl = 0 THEN Caught(s)
     ELSE /\ Moves(s, IF ctrl \in aborted THEN "cut" ELSE "request")
          /\ signal' = [signal EXCEPT ![s] = ctrl]
          /\ UNCHANGED <<wire, closed, buffer, received, sent, got>> /\ Untouched

Live(s) == signal[s] \notin aborted

\* fetch or read() rejects with an AbortError, which is ignored.
Aborts(s) ==
  /\ stage[s] \in {"request", "open"} /\ ~Live(s)
  /\ Moves(s, "cut")
  /\ UNCHANGED <<signal, wire, closed, buffer, received, sent, got>> /\ Untouched

\* fetch answers; an answer that is not ok, or none, throws.
Answered(s, ok) ==
  /\ stage[s] = "request" /\ Live(s)
  /\ IF ok THEN /\ Moves(s, "open") /\ Untouched
                /\ UNCHANGED <<signal, wire, closed, buffer, received, sent, got>>
           ELSE Caught(s)

Breaks(s) == stage[s] = "open" /\ Live(s) /\ Caught(s)

Handles(s, es, st) ==
  /\ got' = [got EXCEPT ![s] = @ \o es]
  /\ received' = [received EXCEPT ![s] = @ \/ Holds("complete", es)]
  /\ Writes(st, events \o Shown(es), error \/ Holds("error", es))

\* One read() of n bytes.
Reads(s, n) ==
  LET b == buffer[s] \o SubSeq(wire[s], 1, n)
      es == processSSELines(Complete(b))
  IN  /\ stage[s] = "open" /\ Live(s)
      /\ n \in 1 .. Len(wire[s])
      /\ wire' = [wire EXCEPT ![s] = SubSeq(@, n + 1, Len(@))]
      /\ buffer' = [buffer EXCEPT ![s] = Pop(b)]
      /\ Handles(s, es, StatusAfter(es))
      /\ UNCHANGED <<stage, signal, closed, sent>>

\* The stream is done: what is left in the buffer is processed, and a status
\* that is still "streaming" becomes "complete".
Finished_bug(s, st) == IF ~received[s] THEN "complete" ELSE st
Finished(s, st)     == IF ~received[s] /\ st = "streaming" THEN "complete" ELSE st
Done(s) ==
  LET es == processSSELines(buffer[s])
  IN  /\ stage[s] = "open" /\ Live(s) /\ closed[s] /\ wire[s] = <<>>
      /\ Moves(s, "done")
      /\ buffer' = [buffer EXCEPT ![s] = <<>>]
      /\ Handles(s, es, Finished(s, StatusAfter(es)))
      /\ UNCHANGED <<signal, wire, closed, sent>>
-----------------------------------------------------------------------------
(* The route, whose generator ends after "complete" or "error"             *)

HasEnded(s) == sent[s] # <<>> /\ IsEnd(sent[s][Len(sent[s])])

Sends(s, m) ==
  /\ stage[s] = "open" /\ ~HasEnded(s)
  /\ Len(sent[s]) + 1 = MaxMessages => IsEnd(m)
  /\ sent' = [sent EXCEPT ![s] = Append(@, m)]
  /\ wire' = [wire EXCEPT ![s] = @ \o Message(m)]
  /\ UNCHANGED <<stage, signal, closed, buffer, received, got>> /\ Untouched

Closes(s) ==
  /\ stage[s] = "open" /\ HasEnded(s) /\ ~closed[s]
  /\ closed' = [closed EXCEPT ![s] = TRUE]
  /\ UNCHANGED <<stage, signal, wire, buffer, received, sent, got>> /\ Untouched
-----------------------------------------------------------------------------
Reader(s) == \/ \E ok \in BOOLEAN : TokenArrives(s, ok) \/ Answered(s, ok)
             \/ Aborts(s) \/ Breaks(s) \/ Done(s)
             \/ \E n \in 1 .. 4 * MaxMessages : Reads(s, n)
Server(s) == Closes(s) \/ \E m \in Kinds : Sends(s, m)

Next == Submit \/ Reset \/ Unmount \/ \E s \in Submissions : Reader(s) \/ Server(s)

Spec == Init /\ [][Next]_vars

\* Tokens and answers come, the server ends its stream and the network delivers;
\* the user owes nothing.
FairSpec == Spec /\ \A s \in Submissions : WF_vars(Reader(s)) /\ WF_vars(Server(s))
-----------------------------------------------------------------------------
\* Unless an earlier submission was out of the reach of the abort, the hook shows
\* what its submission was sent: its events, "complete" only on a complete event,
\* and "error" exactly when there is one to show; and nothing after a reset.
ShowsItsStream ==
  mounted /\ ~exposed =>
    IF owner = 0 THEN status = "idle" /\ events = <<>> /\ ~error
    ELSE /\ events = Shown(got[owner])
         /\ status = "complete" => Holds("complete", got[owner])
         /\ (status = "error") <=> error

\* A submission does not stream for ever.
StreamingEnds == (mounted /\ status = "streaming") ~> (~mounted \/ status # "streaming")

\* Reading the chunks implements an event feed per submission.
FeedState == [s \in Submissions |-> CASE stage[s] = "done" -> "ended"
                                      [] stage[s] = "cut"  -> "cut"
                                      [] OTHER             -> "open"]
Feed == INSTANCE EventFeed WITH Feeds <- Submissions, Events <- Kinds, shown <- got,
                                state <- FeedState
IsFeed == Feed!Spec
=============================================================================
