---------------------------- MODULE Broadcaster ----------------------------
(***************************************************************************)
(* internal/session/broadcaster.go with its two ends: the read loop that   *)
(* copies the output of one container to the log file, the ring buffer and *)
(* the subscribers, and the WebSocket handlers of internal/server/ws.go    *)
(* through which viewers watch it.  The manager's part is what a Stop, a   *)
(* Delete or a Restart does to the session: its status, its place in the   *)
(* map and the call of Close.                                              *)
(*                                                                         *)
(* A section under b.mu is one step, and so is what the read loop does     *)
(* with a chunk before it takes the lock, which nobody else can see but in *)
(* the log; the sends of one section are taken to be made at once.  The    *)
(* output of a container is a sequence of bytes chosen at the start; a     *)
(* read returns any chunk of what is left, and the container may end       *)
(* anywhere.                                                               *)
(***************************************************************************)
EXTENDS RingBuffer, Intercepter, FiniteSets

CONSTANTS Viewers,        \* WebSocket connections
          Outputs,        \* what the container may print
          MaxChunk,       \* the size of the read loop's buffer
          ChanSize,       \* subscriberChanSize
          EventChanSize   \* subscriberEventChanSize

ASSUME StreamAssumption ==
  /\ Byte \subseteq [at : Nat, kind : Kinds]
  /\ Outputs \subseteq Seq(Byte)
  /\ \A o \in Outputs : \A k \in DOMAIN o : o[k].at = k
  /\ MaxChunk \in Nat \ {0}
  /\ ChanSize \in Nat \ {0} /\ EventChanSize \in Nat \ {0}

VARIABLES output,     \* what this container prints
          conn,       \* the PTYConn: "open", "eof" or "closed"
          got,        \* bytes that Read has returned
          seen,       \* bytes that the ring and the subscribers were given
          rl,         \* control point of the read loop
          line,       \* the intercepter's incomplete line
          found,      \* prompts in the chunk at hand
          announced,  \* prompts given to the subscribers (history)
          ring,
          logOpen,    \* the log file, which has the first got bytes
          stopped,    \* the stopped channel is closed
          subs,       \* keys of b.subs
          sub,        \* the Subscriber of each viewer
          place,      \* the session: not yet in the map, in it, or out
          status,     \* the session's status
          closing,    \* control point of the goroutine that calls Close
          pc,         \* control point of each viewer's handler
          screen      \* what each viewer was sent

loopVars    == <<conn, got, seen, rl, line, found, announced, ring, logOpen, stopped>>
sessionVars == <<place, status, closing>>
viewerVars  == <<pc, screen>>
vars == <<output, loopVars, subs, sub, sessionVars, viewerVars>>

\* missed is history: a full channel has made the fan-out drop something.
NoSub == [chan |-> "none", ch |-> <<>>, events |-> <<>>, missed |-> FALSE]

\* since and heard0 are history: bytes and prompts the subscribers had been
\* given when this viewer subscribed.
NoScreen == [bytes |-> <<>>, prompts |-> <<>>, since |-> 0, heard0 |-> 0]

Init ==
  /\ output \in Outputs
  /\ conn = "open" /\ got = 0 /\ seen = 0 /\ rl = "read"
  /\ line = <<>> /\ found = <<>> /\ announced = <<>>
  /\ ring = NewRingBuffer
  /\ logOpen = TRUE /\ stopped = FALSE
  /\ subs = {} /\ sub = [v \in Viewers |-> NoSub]
  /\ place = "new" /\ status = "running" /\ closing = "idle"
  /\ pc = [v \in Viewers |-> "idle"]
  /\ screen = [v \in Viewers |-> NoScreen]

----------------------------------------------------------------------------
(* The read loop.                                                          *)

\* The deferred calls, last one first.
DeferredInOrder(label) ==                                      \* mutant
  CASE label = "return" -> "signal"   [] label = "signal"   -> "closesubs"
    [] label = "closesubs" -> "closelog" [] label = "closelog" -> "done"
Deferred(label) ==
  CASE label = "return" -> "closelog" [] label = "closelog" -> "closesubs"
    [] label = "closesubs" -> "signal" [] label = "signal"  -> "done"

\* Read reports the end of the stream, or that Close has closed it.
ReadFailsAtEOF == conn = "eof"                                 \* mutant
ReadFails == conn \in {"eof", "closed"}

\* A chunk is read, logged and scanned; that the log cannot be written is
\* only reported.  The connection's reader may hold bytes when the
\* connection is closed, and returns them before it fails (docker.go:191).
ReadChunk ==
  /\ rl = "read"
  /\ \E n \in 1 .. MaxChunk :
       /\ got + n <= Len(output)
       /\ LET scan == Scan(line, SubSeq(output, got + 1, got + n)) IN
          line' = scan.buf /\ found' = scan.prompts
       /\ got' = got + n
  /\ rl' = "deliver"
  /\ UNCHANGED <<output, conn, seen, announced, ring, logOpen, stopped, subs,
                 sub, sessionVars, viewerVars>>

\* A send that does not block.
OfferAliased(s, chunk) ==                                      \* mutant
  IF Len(s.ch) < ChanSize
  THEN [s EXCEPT !.ch = [k \in 1 .. Len(s.ch) + 1 |-> chunk]]
  ELSE [s EXCEPT !.missed = TRUE]
Offer(s, chunk) ==
  IF Len(s.ch) < ChanSize THEN [s EXCEPT !.ch = Append(@, chunk)]
                          ELSE [s EXCEPT !.missed = TRUE]

\* The prompts that fit are queued.
OfferPrompts(s, ps) ==
  LET room == EventChanSize - Len(s.events) IN
  IF Len(ps) <= room THEN [s EXCEPT !.events = @ \o ps]
  ELSE [s EXCEPT !.events = @ \o SubSeq(ps, 1, room), !.missed = TRUE]

\* The locked section: the ring, then every subscriber.  An error that came
\* with the chunk ends the loop.
Deliver ==
  /\ rl = "deliver"
  /\ LET chunk == SubSeq(output, seen + 1, got) IN
     /\ ring' = Write(ring, chunk)
     /\ sub' = [v \in Viewers |->
                  IF v \in subs
                  THEN OfferPrompts(Offer(sub[v], chunk), found)
                  ELSE sub[v]]
  /\ seen' = got
  /\ announced' = announced \o found /\ found' = <<>>
  /\ rl' \in {"read"} \cup (IF ReadFails THEN {Deferred("return")} ELSE {})
  /\ UNCHANGED <<output, conn, got, line, logOpen, stopped, subs,
                 sessionVars, viewerVars>>

ReadError ==
  /\ rl = "read" /\ ReadFails
  /\ rl' = Deferred("return")
  /\ UNCHANGED <<output, conn, got, seen, line, found, announced, ring, logOpen, stopped, subs, sub, sessionVars, viewerVars>>

\* The manager passes no onExit.
CloseLog ==
  /\ rl = "closelog"
  /\ logOpen' = FALSE
  /\ rl' = Deferred(rl)
  /\ UNCHANGED <<output, conn, got, seen, line, found, announced, ring, stopped, subs, sub, sessionVars, viewerVars>>

\* Both channels are closed.
ClosedSilently(s) == s                                         \* mutant
Closed(s) == [s EXCEPT !.chan = "closed"]

CloseAllSubscribers ==
  /\ rl = "closesubs"
  /\ sub' = [v \in Viewers |-> IF v \in subs THEN Closed(sub[v]) ELSE sub[v]]
  /\ subs' = {}
  /\ rl' = Deferred(rl)
  /\ UNCHANGED <<output, conn, got, seen, line, found, announced, ring, logOpen, stopped, sessionVars, viewerVars>>

Signal ==
  /\ rl = "signal"
  /\ stopped' = TRUE
  /\ rl' = Deferred(rl)
  /\ UNCHANGED <<output, conn, got, seen, line, found, announced, ring, logOpen, subs, sub, sessionVars, viewerVars>>

\* What the loop does once it has a chunk or an error.
LoopStep == \/ Deliver \/ ReadError \/ CloseLog \/ CloseAllSubscribers
            \/ Signal

\* The shell exits or the container is killed.
AgentExit ==
  /\ conn = "open"
  /\ conn' = "eof"
  /\ UNCHANGED <<output, got, seen, rl, line, found, announced, ring, logOpen, stopped, subs, sub, sessionVars, viewerVars>>

----------------------------------------------------------------------------
(* The session.                                                            *)

Publish ==
  /\ place = "new"
  /\ place' = "mapped"
  /\ UNCHANGED <<output, loopVars, subs, sub, status, closing, viewerVars>>

\* Stop leaves the session in the map.
StopSession ==
  /\ place = "mapped" /\ status = "running"
  /\ status' = "stopped"
  /\ closing' = "close"
  /\ UNCHANGED <<output, loopVars, subs, sub, place, viewerVars>>

\* Delete, Restart, Shutdown and an eviction take it out; unless a Stop has
\* it closed, they call Close.
RemoveSession ==
  /\ place = "mapped"
  /\ place' = "gone"
  /\ closing' = IF closing = "idle" THEN "close" ELSE closing
  /\ UNCHANGED <<output, loopVars, subs, sub, status, viewerVars>>

CloseConn ==
  /\ closing = "close"
  /\ conn' = "closed"
  /\ closing' = "waiting"
  /\ UNCHANGED <<output, got, seen, rl, line, found, announced, ring, logOpen, stopped, subs, sub, place, status, viewerVars>>

CloseReturn ==
  /\ closing = "waiting" /\ stopped
  /\ closing' = "closed"
  /\ UNCHANGED <<output, loopVars, subs, sub, place, status, viewerVars>>

Close == CloseConn \/ CloseReturn

----------------------------------------------------------------------------
(* A viewer.                                                               *)

GotoV(v, label) == pc' = [pc EXCEPT ![v] = label]

Watchable == place = "mapped" /\ status = "running"

\* The handler checks before the upgrade, the manager's Subscribe after it.
Connect(v) ==
  /\ pc[v] = "idle"
  /\ GotoV(v, IF Watchable THEN "upgrade" ELSE "gone")
  /\ UNCHANGED <<output, loopVars, subs, sub, sessionVars, screen>>

CheckSession(v) ==
  /\ pc[v] = "upgrade"
  /\ GotoV(v, IF Watchable THEN "subscribe" ELSE "gone")
  /\ UNCHANGED <<output, loopVars, subs, sub, sessionVars, screen>>

\* The replay starts after the first line end, unless it starts with one.
AlignKeepingAll(replay) == replay                              \* mutant
AlignReplayToLineStart(replay) ==
  LET end == SelectInSeq(replay, LAMBDA b : b.kind = "nl") IN
  CASE end = 0 -> <<>>
    [] end = 1 -> replay
    [] OTHER   -> SubSeq(replay, end + 1, Len(replay))

\* The broadcaster's Subscribe, and the replay is sent.
Subscribe(v) ==
  /\ pc[v] = "subscribe"
  /\ subs' = subs \cup {v}
  /\ sub' = [sub EXCEPT ![v].chan = "open"]
  /\ screen' = [screen EXCEPT ![v].bytes = AlignReplayToLineStart(Bytes(ring)),
                              ![v].since = seen,
                              ![v].heard0 = Len(announced)]
  /\ GotoV(v, "live")
  /\ UNCHANGED <<output, loopVars, sessionVars>>

\* The goroutine that ranges over Ch; after the handler has returned its
\* writes fail.
PumpOutput(v) ==
  /\ sub[v].ch # <<>>
  /\ sub' = [sub EXCEPT ![v].ch = Tail(@)]
  /\ screen' = IF pc[v] = "live"
               THEN [screen EXCEPT ![v].bytes = @ \o Head(sub[v].ch)]
               ELSE screen
  /\ UNCHANGED <<output, loopVars, subs, sessionVars, pc>>

\* The goroutine that ranges over Events.
PumpPrompts(v) ==
  /\ sub[v].events # <<>>
  /\ sub' = [sub EXCEPT ![v].events = Tail(@)]
  /\ screen' = IF pc[v] = "live"
               THEN [screen EXCEPT ![v].prompts = Append(@, Head(sub[v].events))]
               ELSE screen
  /\ UNCHANGED <<output, loopVars, subs, sessionVars, pc>>

\* Ch is closed and drained: the WebSocket is closed, and the handler's read
\* fails.
StreamEnded(v) ==
  /\ pc[v] = "live"
  /\ sub[v].chan = "closed" /\ sub[v].ch = <<>>
  /\ GotoV(v, "leave")
  /\ UNCHANGED <<output, loopVars, subs, sub, sessionVars, screen>>

\* The client goes away, is silent for too long, or its input cannot be
\* written to the PTY.
Disconnect(v) ==
  /\ pc[v] = "live"
  /\ GotoV(v, "leave")
  /\ UNCHANGED <<output, loopVars, subs, sub, sessionVars, screen>>

\* The handler returns; Unsubscribe finds the broadcaster through the map.
UnsubscribedKept(v) == subs                                    \* mutant
Unsubscribed(v) == subs \ {v}

Leave(v) ==
  /\ pc[v] = "leave"
  /\ IF place = "mapped" /\ v \in subs
     THEN /\ subs' = Unsubscribed(v)
          /\ sub' = [sub EXCEPT ![v] = Closed(@)]
     ELSE UNCHANGED <<subs, sub>>
  /\ GotoV(v, "gone")
  /\ UNCHANGED <<output, loopVars, sessionVars, screen>>

\* What the server's goroutines do for a viewer that has subscribed.
Serve(v) == PumpOutput(v) \/ PumpPrompts(v) \/ StreamEnded(v) \/ Leave(v)

----------------------------------------------------------------------------
\* The container may print nothing more and nobody has to end it.
Quiet ==
  /\ rl \in {"read", "done"} /\ (rl = "read" => got = Len(output))
  /\ UNCHANGED vars

Next == \/ ReadChunk \/ LoopStep \/ AgentExit
        \/ Publish \/ StopSession \/ RemoveSession \/ Close
        \/ \E v \in Viewers : \/ Connect(v) \/ CheckSession(v) \/ Subscribe(v)
                              \/ Serve(v) \/ Disconnect(v)
        \/ Quiet

Spec == Init /\ [][Next]_vars

\* The read loop and the caller of Close are scheduled; that the container
\* prints anything more, or that a client reads what it is sent, is not
\* assumed.
FairSpec == Spec /\ WF_vars(LoopStep) /\ WF_vars(Close)

----------------------------------------------------------------------------
(* Properties.                                                             *)

Subscriber == [chan : {"none", "open", "closed"}, ch : Seq(Seq(Byte)),
               events : Seq(Nat), missed : BOOLEAN]

Screen == [bytes : Seq(Byte), prompts : Seq(Nat), since : Nat, heard0 : Nat]

\* The types of the read loop's data, of the session and of the viewers.
TypeOK ==
  /\ output \in Seq(Byte)
  /\ conn \in {"open", "eof", "closed"}
  /\ got \in 0 .. Len(output) /\ seen \in 0 .. got
  /\ rl \in {"read", "deliver", "closelog", "closesubs", "signal", "done"}
  /\ line \in Seq(Byte) /\ found \in Seq(Nat) /\ announced \in Seq(Nat)
  /\ ring \in Rings
  /\ logOpen \in BOOLEAN /\ stopped \in BOOLEAN
  /\ subs \subseteq Viewers /\ sub \in [Viewers -> Subscriber]
  /\ place \in {"new", "mapped", "gone"} /\ status \in {"running", "stopped"}
  /\ closing \in {"idle", "close", "waiting", "closed"}
  /\ pc \in [Viewers -> {"idle", "upgrade", "subscribe", "live", "leave",
                         "gone"}]
  /\ screen \in [Viewers -> Screen]

\* The ring buffer holds the last Size bytes of the output, whatever the
\* chunks they came in (ringbuf.go:29-81).
RingIsWindow == Bytes(ring) = LastOf(SubSeq(output, 1, seen), Size)

\* A viewer whose channels were never full has seen, or has queued, the
\* output from some place on up to now without a gap or a repetition across
\* replay and live output, and every prompt since it subscribed; what it
\* sees starts at a line, or where the live output starts (ws.go:79-106).
ViewersSeeAll ==
  \A v \in Viewers : pc[v] = "live" /\ ~sub[v].missed =>
    LET shown == screen[v].bytes \o FlattenSeq(sub[v].ch) IN
    /\ IF shown = <<>> THEN screen[v].since = seen
       ELSE LET first == shown[1].at IN
            /\ shown = SubSeq(output, first, seen)
            /\ \/ first = screen[v].since + 1
               \/ first <= screen[v].since
                    /\ "nl" \in {KindAt(output, first), KindAt(output, first - 1)}
    /\ screen[v].prompts \o sub[v].events
         = SubSeq(announced, screen[v].heard0 + 1, Len(announced))

\* Nobody sends on a closed channel or closes one twice, which would end the
\* server: a subscriber's channels are open as long as it is registered,
\* whether its viewer leaves, the stream ends or both at once.
OpenIffSubscribed == \A v \in Viewers : v \in subs <=> sub[v].chan = "open"

\* When Close has returned, so that the container is committed and the
\* session's record is saved, the read loop has ended: its last chunk is in
\* the log and in the ring, and the log file is closed (manager.go:324).
CloseWaits ==
  closing = "closed" => seen = got /\ ~logOpen

\* Close returns whatever the viewers do: one that does not read never
\* holds the read loop up (broadcaster.go:155).
CloseReturns == closing = "waiting" ~> closing = "closed"

\* As long as the goroutines of a handler are scheduled, and their writes
\* return or fail, every viewer that is subscribed when the stream ends is
\* told and leaves (ws.go:107-113).
ViewersLeave ==
  (\A v \in Viewers : WF_vars(Serve(v))) =>
    \A v \in Viewers : rl = "closesubs" /\ v \in subs ~> pc[v] = "gone"

----------------------------------------------------------------------------
(* What a comment says and the code does not keep.                         *)

\* "Both channels are closed when the PTY stream ends or the subscriber is
\* removed" (broadcaster.go:28).
ChannelsCloseAtEnd == stopped => \A v \in Viewers : sub[v].chan # "open"

=============================================================================
