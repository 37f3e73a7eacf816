------------------------------ MODULE Terminal ------------------------------
(***************************************************************************)
(* web/src/components/terminal-view.tsx: the terminal of the workspace     *)
(* page, with the stream handler of internal/server/ws.go it talks to.     *)
(*                                                                         *)
(* React runs the component's effect once per sessionId: the previous one  *)
(* is cleaned up, the next one starts.  An effect is a number; what its    *)
(* closure holds (disposed, term, its session) and the socket it opened    *)
(* last are functions of it: an effect opens a socket only when its        *)
(* previous one has closed.  The refs belong to the component and outlive  *)
(* the effects; 0 is a ref that holds nothing.                             *)
(*                                                                         *)
(* A piece of output is its number, and some pieces end a line; the ring   *)
(* buffer has the last Window pieces, and the replay is one message.       *)
(* Broadcaster models the buffer and the channel behind it byte by byte.   *)
(***************************************************************************)
EXTENDS Naturals, Sequences

CONSTANTS Sessions, NoSession,
          Output,       \* what each session prints: pieces of "text", and
                        \* such as end a "line"
          maxReconnectAttempts,
          MaxEffects,   \* bound: effects started
          Window,       \* pieces the replay buffer holds
          Queue,        \* subscriberChanSize: pieces that wait for one viewer
          MaxDrops,     \* bound: connections the network drops
          MaxKeys       \* bound: keystrokes

ASSUME TerminalAssumption ==
  /\ NoSession \notin Sessions
  /\ Output \in [Sessions -> Seq({"text", "line"})]
  /\ {maxReconnectAttempts, MaxEffects, MaxDrops, MaxKeys, Queue} \subseteq Nat
  /\ Window \in Nat \ {0}

Effects == 1..MaxEffects

VARIABLES
  sessionId,          \* the prop; NoSession while the component is unmounted
  cur,                \* the last effect started
  disposed,           \* effects cleaned up
  loading,            \* effects whose init waits for its imports
  sidOf,              \* the session of an effect
  term, screen,       \* an effect's Terminal object, what is written on it
  sock, wire, hup,    \* its socket, the messages under way, and whether the
                      \* server has closed the other end
  peer,               \* the handler at the other end: it has upgraded the
                      \* connection, it streams to it
  lost,               \* history: pieces dropped since it streams
  timers,             \* effects with a reconnect timer pending
  wsRef, termRef, reconnectTimer, reconnectAttempts,
  status,
  srv, out,           \* the sessions at the server, the pieces printed
  drops, keys         \* spent of the bounds

refs     == <<wsRef, termRef, reconnectTimer, reconnectAttempts>>
closures == <<cur, disposed, loading, sidOf>>
terms    == <<term, screen>>
socks    == <<sock, wire, hup, peer, lost>>
server   == <<srv, out>>
bounds   == <<drops, keys>>
vars == <<sessionId, closures, terms, socks, timers, refs, status, server, bounds>>

Pieces == Sessions \X Nat

Init ==
  /\ sessionId = NoSession /\ cur = 0
  /\ disposed = {} /\ loading = {} /\ hup = {} /\ timers = {}
  /\ sidOf = [e \in Effects |-> NoSession]
  /\ term = [e \in Effects |-> "none"]
  /\ screen = [e \in Effects |-> {}]
  /\ sock = [e \in Effects |-> "none"]
  /\ wire = [e \in Effects |-> <<>>]
  /\ peer = [e \in Effects |-> "none"]
  /\ lost = [e \in Effects |-> {}]
  /\ wsRef = 0 /\ termRef = 0 /\ reconnectTimer = 0 /\ reconnectAttempts = 0
  /\ status = "connecting"
  /\ srv = [s \in Sessions |-> "running"]
  /\ out = [s \in Sessions |-> 0]
  /\ drops = 0 /\ keys = 0

----------------------------------------------------------------------------
(* The effect and its cleanup.                                             *)

\* ws.close(): readyState is CLOSING at once, the close event comes later.
Close(e) == IF sock[e] \in {"connecting", "open"}
            THEN [sock EXCEPT ![e] = "closing"] ELSE sock

CleanupKeepsSocket ==                                          \* mutant
  /\ disposed' = disposed \cup {cur}
  /\ timers' = timers \ {reconnectTimer}
  /\ sock' = sock
  /\ term' = IF termRef = 0 THEN term ELSE [term EXCEPT ![termRef] = "disposed"]

Cleanup ==
  /\ disposed' = disposed \cup {cur}
  /\ timers' = timers \ {reconnectTimer}
  /\ sock' = IF wsRef = 0 THEN sock ELSE Close(wsRef)
  /\ term' = IF termRef = 0 THEN term ELSE [term EXCEPT ![termRef] = "disposed"]

\* The effect begins with init(), which waits for the imports.
StartEffect(s) ==
  /\ cur < MaxEffects
  /\ cur' = cur + 1
  /\ sidOf' = [sidOf EXCEPT ![cur + 1] = s]
  /\ loading' = loading \cup {cur + 1}
  /\ sessionId' = s

\* The page, or its Terminal tab, is opened: a new component with new refs.
Mount(s) ==
  /\ sessionId = NoSession
  /\ StartEffect(s)
  /\ wsRef' = 0 /\ termRef' = 0 /\ reconnectTimer' = 0 /\ reconnectAttempts' = 0
  /\ status' = "connecting"
  /\ UNCHANGED <<disposed, terms, socks, timers, server, bounds>>

\* The page shows another session, as after a restart: the same refs and
\* the same status.
SwitchSession(s) ==
  /\ sessionId \notin {NoSession, s}
  /\ Cleanup
  /\ StartEffect(s)
  /\ UNCHANGED <<screen, wire, hup, peer, lost, refs, status, server, bounds>>

\* Another tab or page is opened.
Unmount ==
  /\ sessionId # NoSession
  /\ Cleanup
  /\ sessionId' = NoSession
  /\ UNCHANGED <<cur, loading, sidOf, screen, wire, hup, peer, lost, refs, status,
                 server, bounds>>

----------------------------------------------------------------------------
(* init and connect.                                                       *)

Connect(e) ==
  IF e \in disposed THEN UNCHANGED <<socks, wsRef>>
  ELSE /\ sock' = [sock EXCEPT ![e] = "connecting"]
       /\ wsRef' = e
       /\ UNCHANGED <<wire, hup, peer, lost>>

LoadedUnchecked(e) ==                                          \* mutant
  /\ e \in loading
  /\ loading' = loading \ {e}
  /\ term' = [term EXCEPT ![e] = "live"]
  /\ termRef' = e
  /\ Connect(e)
  /\ UNCHANGED <<sessionId, cur, disposed, sidOf, screen, timers, reconnectTimer,
                 reconnectAttempts, status, server, bounds>>

\* The imports are there: an effect disposed of meanwhile ends, another one
\* creates its terminal and connects.
Loaded(e) ==
  /\ e \in loading
  /\ loading' = loading \ {e}
  /\ IF e \in disposed THEN UNCHANGED <<term, termRef, socks, wsRef>>
     ELSE /\ term' = [term EXCEPT ![e] = "live"]
          /\ termRef' = e
          /\ Connect(e)
  /\ UNCHANGED <<sessionId, cur, disposed, sidOf, screen, timers, reconnectTimer,
                 reconnectAttempts, status, server, bounds>>

\* handleSessionStream takes viewers of sessions whose status is running; a
\* session whose agent has exited still has it.
Accepts(s) == srv[s] \in {"running", "exited"}

\* The server upgrades the connection of a session it has found running;
\* onopen.
Open(e) ==
  /\ sock[e] = "connecting" /\ Accepts(sidOf[e])
  /\ sock' = [sock EXCEPT ![e] = "open"]
  /\ peer' = [peer EXCEPT ![e] = "upgraded"]
  /\ IF e \in disposed THEN UNCHANGED <<reconnectAttempts, status>>
     ELSE reconnectAttempts' = 0 /\ status' = "connected"
  /\ UNCHANGED <<sessionId, closures, terms, wire, hup, lost, timers, wsRef, termRef,
                 reconnectTimer, server, bounds>>

InWindow(s) == {n \in 1..out[s] : n + Window > out[s]}
LineEnds(s) == {n \in InWindow(s) : Output[s][n] = "line"}

ReplayLastLine(s) ==                                           \* mutant
  {s} \X {n \in InWindow(s) : /\ \E m \in LineEnds(s) : m < n
                             /\ ~\E m \in LineEnds(s) : n <= m}

\* alignReplayToLineStart: the whole buffer when it begins with the end of a
\* line, and else what follows the first end of a line in it, if anything.
Replay(s) ==
  {s} \X {n \in InWindow(s) : \E m \in LineEnds(s) :
            m < n \/ m + Window = out[s] + 1 \/ m = 1}

\* The handler subscribes and sends the replay, unless there is none.  The
\* session may have been stopped since it was found: the handler sends an
\* error the page knows nothing of, and closes the connection.
Join(e) ==
  /\ peer[e] = "upgraded"
  /\ IF Accepts(sidOf[e])
     THEN /\ peer' = [peer EXCEPT ![e] = "streaming"]
          /\ wire' = [wire EXCEPT ![e] = IF Replay(sidOf[e]) = {} THEN <<>>
                                         ELSE << Replay(sidOf[e]) >>]
          /\ UNCHANGED hup
     ELSE /\ peer' = [peer EXCEPT ![e] = "none"]
          /\ hup' = hup \cup {e}
          /\ UNCHANGED wire
  /\ UNCHANGED <<sessionId, closures, terms, sock, lost, timers, refs, status, server,
                 bounds>>

MessageToRef(e) ==                                             \* mutant
  /\ sock[e] \in {"open", "closing"} /\ wire[e] # <<>>
  /\ wire' = [wire EXCEPT ![e] = Tail(@)]
  /\ screen' = IF termRef # 0 /\ term[termRef] = "live"
               THEN [screen EXCEPT ![termRef] = @ \cup Head(wire[e])] ELSE screen
  /\ UNCHANGED <<sessionId, closures, term, sock, hup, peer, lost, timers, refs,
                 status, server, bounds>>

\* onmessage writes on the terminal of its own effect, disposed of or not;
\* nothing shows on one that is.
Message(e) ==
  /\ sock[e] \in {"open", "closing"} /\ wire[e] # <<>>
  /\ wire' = [wire EXCEPT ![e] = Tail(@)]
  /\ screen' = IF term[e] = "live"
               THEN [screen EXCEPT ![e] = @ \cup Head(wire[e])] ELSE screen
  /\ UNCHANGED <<sessionId, closures, term, sock, hup, peer, lost, timers, refs,
                 status, server, bounds>>

OnCloseUncounted(e) ==                                         \* mutant
  IF e \in disposed THEN UNCHANGED <<reconnectAttempts, status, timers, reconnectTimer>>
  ELSE /\ status' = "connecting"
       /\ timers' = timers \cup {e}
       /\ reconnectTimer' = e
       /\ UNCHANGED reconnectAttempts

OnCloseUnlimited(e) ==                                         \* mutant
  IF e \in disposed THEN UNCHANGED <<reconnectAttempts, status, timers, reconnectTimer>>
  ELSE /\ reconnectAttempts' = reconnectAttempts + 1
       /\ status' = "connecting"
       /\ timers' = timers \cup {e}
       /\ reconnectTimer' = e

\* A view that was closed ignores the event.  Another one retries after a
\* while, at most maxReconnectAttempts times since its last connection; the
\* counter is the component's, so a view that follows one that gave up has
\* one try.
OnClose(e) ==
  IF e \in disposed THEN UNCHANGED <<reconnectAttempts, status, timers, reconnectTimer>>
  ELSE /\ reconnectAttempts' = reconnectAttempts + 1
       /\ IF reconnectAttempts' > maxReconnectAttempts
          THEN status' = "disconnected" /\ UNCHANGED <<timers, reconnectTimer>>
          ELSE /\ status' = "connecting"
               /\ timers' = timers \cup {e}
               /\ reconnectTimer' = e

\* The close event of a socket, which the messages under way precede unless
\* the network has lost them.
Closed(e) ==
  /\ sock' = [sock EXCEPT ![e] = "closed"]
  /\ wire' = [wire EXCEPT ![e] = <<>>]
  /\ hup' = hup \ {e}
  /\ peer' = [peer EXCEPT ![e] = "none"]
  /\ lost' = [lost EXCEPT ![e] = {}]
  /\ OnClose(e)
  /\ UNCHANGED <<sessionId, closures, terms, wsRef, termRef, server>>

Refused(e) ==
  /\ sock[e] = "connecting" /\ ~Accepts(sidOf[e])
  /\ Closed(e) /\ UNCHANGED bounds

HungUp(e) ==
  /\ sock[e] = "open" /\ e \in hup /\ wire[e] = <<>> /\ peer[e] # "upgraded"
  /\ Closed(e) /\ UNCHANGED bounds

CloseDone(e) ==
  /\ sock[e] = "closing"
  /\ Closed(e) /\ UNCHANGED bounds

Dropped(e) ==
  /\ sock[e] \in {"connecting", "open"} /\ drops < MaxDrops
  /\ drops' = drops + 1
  /\ Closed(e) /\ UNCHANGED keys

ReconnectTimer(e) ==
  /\ e \in timers
  /\ timers' = timers \ {e}
  /\ Connect(e)
  /\ UNCHANGED <<sessionId, closures, terms, termRef, reconnectTimer,
                 reconnectAttempts, status, server, bounds>>

----------------------------------------------------------------------------
(* Input, and what happens at the server.                                  *)

\* sendInput, onData and the resize handler write to the socket of the ref
\* if it is open.
Writable == wsRef # 0 /\ sock[wsRef] = "open"

\* The handler ends the connection when the PTY takes no input any more.
TypeKey ==
  /\ Writable /\ keys < MaxKeys
  /\ keys' = keys + 1
  /\ hup' = IF srv[sidOf[wsRef]] = "running" THEN hup ELSE hup \cup {wsRef}
  /\ UNCHANGED <<sessionId, closures, terms, sock, wire, peer, lost, timers, refs,
                 status, server, drops>>

Viewers(s) == {e \in Effects : sidOf[e] = s /\ peer[e] = "streaming" /\ e \notin hup}

\* The channel of a viewer takes no more than Queue pieces: another one is
\* dropped while those are on their way, and the network may hold more.
AgentPrints(s) ==
  /\ srv[s] = "running" /\ out[s] < Len(Output[s])
  /\ out' = [out EXCEPT ![s] = @ + 1]
  /\ \E full \in SUBSET {e \in Viewers(s) : Len(wire[e]) >= Queue} :
       /\ wire' = [e \in Effects |-> IF e \in Viewers(s) \ full
                                     THEN Append(wire[e], {<<s, out[s] + 1>>}) ELSE wire[e]]
       /\ lost' = [e \in Effects |-> IF e \in full THEN lost[e] \cup {out[s] + 1} ELSE lost[e]]
  /\ UNCHANGED <<sessionId, closures, terms, sock, hup, peer, timers, refs, status, srv,
                 bounds>>

\* The stream of a session ends, because its agent exits or a Stop closes
\* it, and the handlers of its viewers close their connections.  Who joined
\* after the agent's exit is not told of the Stop.
StreamEnds(s, to) ==
  /\ to = "exited" => srv[s] = "running"
  /\ srv[s] # "stopped"
  /\ srv' = [srv EXCEPT ![s] = to]
  /\ hup' = IF srv[s] = "running" THEN hup \cup Viewers(s) ELSE hup
  /\ UNCHANGED <<sessionId, closures, terms, sock, wire, peer, lost, timers, refs,
                 status, out, bounds>>

----------------------------------------------------------------------------
Browser ==
  \E e \in Effects : \/ Loaded(e) \/ Open(e) \/ Message(e) \/ Refused(e)
                     \/ HungUp(e) \/ CloseDone(e) \/ ReconnectTimer(e)

User == \/ \E s \in Sessions : Mount(s) \/ SwitchSession(s)
        \/ Unmount
        \/ TypeKey

Outside == \/ \E e \in Effects : Dropped(e)
           \/ \E e \in Effects : Join(e)
           \/ \E s \in Sessions : AgentPrints(s) \/ \E to \in {"exited", "stopped"} : StreamEnds(s, to)

Next == Browser \/ User \/ Outside

Spec == Init /\ [][Next]_vars

\* The event loop runs what is due: each effect's events and timers, which
\* it has one of at a time.  The handler of a connection goes on.
FairSpec == Spec /\ \A e \in Effects :
  /\ WF_vars(Loaded(e) \/ Open(e) \/ Message(e) \/ Refused(e) \/ HungUp(e)
             \/ CloseDone(e) \/ ReconnectTimer(e))
  /\ WF_vars(Join(e))

----------------------------------------------------------------------------
\* The types; a view adds at most one attempt to a counter that is used up.
TypeOK ==
  /\ sessionId \in Sessions \cup {NoSession}
  /\ cur \in 0..MaxEffects
  /\ disposed \subseteq Effects /\ loading \subseteq Effects
  /\ hup \subseteq Effects /\ timers \subseteq Effects
  /\ sidOf \in [Effects -> Sessions \cup {NoSession}]
  /\ term \in [Effects -> {"none", "live", "disposed"}]
  /\ screen \in [Effects -> SUBSET Pieces]
  /\ sock \in [Effects -> {"none", "connecting", "open", "closing", "closed"}]
  /\ wire \in [Effects -> Seq(SUBSET Pieces)]
  /\ peer \in [Effects -> {"none", "upgraded", "streaming"}]
  /\ lost \in [Effects -> SUBSET Nat]
  /\ wsRef \in 0..MaxEffects /\ termRef \in 0..MaxEffects /\ reconnectTimer \in 0..MaxEffects
  /\ reconnectAttempts \in 0..(maxReconnectAttempts + cur)
  /\ status \in {"connecting", "connected", "disconnected"}
  /\ srv \in [Sessions -> {"running", "exited", "stopped"}]
  /\ out \in [Sessions -> Nat] /\ \A s \in Sessions : out[s] <= Len(Output[s])
  /\ drops \in 0..MaxDrops /\ keys \in 0..MaxKeys

Alive(e) == sock[e] \in {"connecting", "open"}

\* At any time the page holds at most one connection or pending reconnect,
\* and it is to the session on display: what is typed reaches that session,
\* and a page that was left connects to nothing (lines 132, 166, 188-191).
SoleSocket ==
  \A e \in Effects : Alive(e) \/ e \in timers =>
    /\ e = cur /\ sidOf[e] = sessionId
    /\ ~(Alive(e) /\ e \in timers)
    /\ Alive(e) => wsRef = e

\* There is one Terminal in the container at most, that of the session on
\* display, although each effect creates its own after waiting for imports
\* (line 57).
SoleTerminal ==
  \A e \in Effects : term[e] = "live" => e = cur /\ sidOf[e] = sessionId

\* A terminal shows output of its own session only, although a socket that
\* is being closed still delivers messages (lines 153-163).
NoForeignOutput == \A e \in Effects : screen[e] \subseteq {sidOf[e]} \X Nat

\* A terminal the server streams to, and that has received what was sent,
\* shows of the last Window pieces every one after the first end of a line
\* among them, whether it was printed before the terminal connected, while it
\* was away or since; but for pieces the server dropped because Queue others
\* were on their way (ws.go, lines 94-114 and 207-228; broadcaster.go, line
\* 155).  A buffer without the end of a line replays nothing.
CaughtUp ==
  \A e \in Effects : LET s == sidOf[e] IN
    sock[e] = "open" /\ peer[e] = "streaming" /\ wire[e] = <<>> /\ term[e] = "live" =>
      \A m \in LineEnds(s), n \in InWindow(s) :
        m < n => <<s, n>> \in screen[e] \/ n \in lost[e]

\* What covers the terminal.
Overlay == status = "connecting"

\* The view comes to rest, connected or with no retry left (lines 167-178),
\* and never says "Connecting..." for ever.
Attached == sock[cur] = "open"
GaveUp   == sock[cur] = "closed" /\ timers = {}
Settles  == <>[](sessionId = NoSession \/ (~Overlay /\ (Attached \/ GaveUp)))
=============================================================================
