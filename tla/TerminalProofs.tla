--------------------------- MODULE TerminalProofs ---------------------------
(***************************************************************************)
(* What the terminal of the workspace page keeps, for every number of      *)
(* sessions, effects and retries: its types with the bound of the retry    *)
(* counter, SoleSocket, SoleTerminal, NoForeignOutput and CaughtUp.        *)
(***************************************************************************)
EXTENDS Terminal, TLAPS

\* The types in three parts, without the bound of the counter.
TypesControl ==
  /\ sessionId \in Sessions \cup {NoSession}
  /\ cur \in 0..MaxEffects
  /\ disposed \subseteq Effects /\ loading \subseteq Effects
  /\ hup \subseteq Effects /\ timers \subseteq Effects
  /\ sidOf \in [Effects -> Sessions \cup {NoSession}]
  /\ wsRef \in 0..MaxEffects /\ termRef \in 0..MaxEffects /\ reconnectTimer \in 0..MaxEffects

TypesData ==
  /\ term \in [Effects -> {"none", "live", "disposed"}]
  /\ screen \in [Effects -> SUBSET Pieces]
  /\ sock \in [Effects -> {"none", "connecting", "open", "closing", "closed"}]
  /\ wire \in [Effects -> Seq(SUBSET Pieces)]
  /\ peer \in [Effects -> {"none", "upgraded", "streaming"}]
  /\ lost \in [Effects -> SUBSET Nat]

TypesRest ==
  /\ reconnectAttempts \in Nat
  /\ status \in {"connecting", "connected", "disconnected"}
  /\ srv \in [Sessions -> {"running", "exited", "stopped"}]
  /\ out \in [Sessions -> Nat] /\ \A s \in Sessions : out[s] <= Len(Output[s])
  /\ drops \in 0..MaxDrops /\ keys \in 0..MaxKeys

Types == TypesControl /\ TypesData /\ TypesRest

\* What belongs to the effect on display, one that is gone, one to come.
Scope ==
  /\ sessionId # NoSession => cur # 0 /\ sidOf[cur] = sessionId /\ cur \notin disposed
  /\ sessionId = NoSession /\ cur # 0 => cur \in disposed
  /\ wsRef <= cur /\ termRef <= cur
  /\ \A e \in Effects :
       /\ e < cur => e \in disposed
       /\ e <= cur => sidOf[e] \in Sessions
       /\ e > cur => /\ e \notin disposed /\ e \notin loading /\ e \notin timers
                     /\ term[e] = "none" /\ sock[e] = "none"

\* The refs name what an effect holds, and the cleanup leaves it nothing.
Held ==
  \A e \in Effects :
    /\ e \in disposed => ~Alive(e) /\ e \notin timers /\ term[e] # "live"
    /\ sock[e] = "closing" => e \in disposed
    /\ peer[e] # "none" => sock[e] \in {"open", "closing"}
    /\ Alive(e) => e = wsRef
    /\ term[e] = "live" => e = termRef
    /\ term[e] = "none" => e # termRef
    /\ e \in timers => e = reconnectTimer /\ sock[e] = "closed"
    /\ e \in loading => term[e] = "none" /\ sock[e] = "none" /\ e \notin timers

\* An effect that may still see a close event has an attempt left to count.
Budget ==
  /\ reconnectAttempts <= maxReconnectAttempts + cur
  /\ \A e \in Effects : e = cur /\ (e \in loading \/ Alive(e) \/ e \in timers)
       => reconnectAttempts < maxReconnectAttempts + cur

Shape == Types /\ Scope /\ Held

Own(e) == {sidOf[e]} \X Nat

\* What is under way to a terminal is its session's as well.
OwnOutput ==
  \A e \in Effects :
    /\ screen[e] \subseteq Own(e)
    /\ \A i \in 1..Len(wire[e]) : wire[e][i] \subseteq Own(e)
    /\ e > cur => screen[e] = {} /\ wire[e] = <<>>

----------------------------------------------------------------------------
LEMMA EffectsNat ==
  /\ MaxEffects \in Nat /\ maxReconnectAttempts \in Nat
  /\ MaxDrops \in Nat /\ MaxKeys \in Nat
  /\ Effects \subseteq Nat /\ Effects \subseteq 0..MaxEffects /\ 0 \notin Effects
  /\ \A n \in 0..MaxEffects : /\ n # 0 => n \in Effects
                              /\ n < MaxEffects => n + 1 \in Effects
BY TerminalAssumption DEF Effects

LEMMA OutputNat == \A s \in Sessions : Output[s] \in Seq({"text", "line"}) /\ Len(Output[s]) \in Nat
BY TerminalAssumption

LEMMA ReplayPieces == \A s \in Sessions : Replay(s) \subseteq {s} \X Nat
BY DEF Replay, InWindow

LEMMA InitShape == Init => Shape /\ Budget /\ OwnOutput
<1> SUFFICES ASSUME Init PROVE Shape /\ Budget /\ OwnOutput
  OBVIOUS
<1> USE EffectsNat
<1>1. Types
  BY DEF Init, Types, TypesControl, TypesData, TypesRest
<1>2. Scope
  BY DEF Init, Scope
<1>3. Held
  BY DEF Init, Held, Alive
<1>4. Budget
  BY DEF Init, Budget, Alive
<1>5. OwnOutput
  BY DEF Init, OwnOutput
<1> QED
  BY <1>1, <1>2, <1>3, <1>4, <1>5 DEF Shape

----------------------------------------------------------------------------
\* A handler belongs to an effect that has been started.
LEMMA PeerStarted ==
  ASSUME Shape, NEW e \in Effects, peer[e] # "none"
  PROVE  e <= cur /\ ~(e > cur) /\ sidOf[e] \in Sessions
<1>1. sock[e] # "none"
  BY DEF Shape, Held
<1>2. ~(e > cur)
  BY <1>1 DEF Shape, Scope
<1>3. e \in Nat /\ cur \in Nat
  BY EffectsNat DEF Shape, Types, TypesControl
<1>4. e <= cur
  BY <1>2, <1>3
<1> QED
  BY <1>2, <1>4 DEF Shape, Scope

LEMMA TypesStep == Shape /\ [Next]_vars => Types'
<1> SUFFICES ASSUME Types, Scope, Held, [Next]_vars PROVE Types'
  BY DEF Shape
<1> USE EffectsNat DEF Types
<1>1. ASSUME NEW s \in Sessions, Mount(s) PROVE Types'
  <2>1. TypesControl'
    BY <1>1 DEF TypesControl, Mount, StartEffect, socks, terms, server, bounds
  <2>2. TypesData'
    BY <1>1 DEF TypesControl, TypesData, Mount, StartEffect, socks, terms, server, bounds
  <2>3. TypesRest'
    BY <1>1 DEF TypesControl, TypesRest, Mount, StartEffect, socks, terms, server, bounds
  <2> QED
    BY <2>1, <2>2, <2>3
<1>2. ASSUME NEW s \in Sessions, SwitchSession(s) PROVE Types'
  <2>1. TypesControl'
    BY <1>2 DEF TypesControl, Scope, SwitchSession, Cleanup, StartEffect, Close, refs,
       server, bounds
  <2>2. TypesData'
    BY <1>2 DEF TypesControl, TypesData, SwitchSession, Cleanup, StartEffect, Close, refs,
       server, bounds
  <2>3. TypesRest'
    BY <1>2 DEF TypesControl, TypesRest, SwitchSession, Cleanup, StartEffect, Close, refs,
       server, bounds
  <2> QED
    BY <2>1, <2>2, <2>3
<1>3. CASE Unmount
  <2>1. TypesControl'
    BY <1>3 DEF TypesControl, Scope, Unmount, Cleanup, Close, refs, server, bounds
  <2>2. TypesData'
    BY <1>3 DEF TypesControl, TypesData, Unmount, Cleanup, Close, refs, server, bounds
  <2>3. TypesRest'
    BY <1>3 DEF TypesControl, TypesRest, Unmount, Cleanup, Close, refs, server, bounds
  <2> QED
    BY <2>1, <2>2, <2>3
<1>4. ASSUME NEW e \in Effects, Loaded(e) PROVE Types'
  <2>1. TypesControl'
    BY <1>4 DEF TypesControl, Loaded, Connect, socks, server, bounds
  <2>2. TypesData'
    BY <1>4 DEF TypesControl, TypesData, Loaded, Connect, socks, server, bounds
  <2>3. TypesRest'
    BY <1>4 DEF TypesControl, TypesRest, Loaded, Connect, socks, server, bounds
  <2> QED
    BY <2>1, <2>2, <2>3
<1>5. ASSUME NEW e \in Effects, Open(e) PROVE Types'
  <2>1. TypesControl'
    BY <1>5 DEF TypesControl, Open, closures, terms, server, bounds
  <2>2. TypesData'
    BY <1>5 DEF TypesControl, TypesData, Open, closures, terms, server, bounds
  <2>3. TypesRest'
    BY <1>5 DEF TypesControl, TypesRest, Open, closures, terms, server, bounds
  <2> QED
    BY <2>1, <2>2, <2>3
<1>13. ASSUME NEW e \in Effects, Join(e) PROVE Types'
  <2>0. sidOf[e] \in Sessions
    BY <1>13, PeerStarted DEF Join, Shape
  <2>4. <<>> \in Seq(SUBSET Pieces) /\ <<Replay(sidOf[e])>> \in Seq(SUBSET Pieces)
    BY <2>0, ReplayPieces DEF Pieces
  <2>1. TypesControl'
    BY <1>13 DEF TypesControl, Join, closures, refs
  <2>2. TypesData'
    <3>1. /\ UNCHANGED <<term, screen, sock, lost>>
          /\ wire' \in {wire, [wire EXCEPT ![e] = <<>>], [wire EXCEPT ![e] = <<Replay(sidOf[e])>>]}
          /\ peer' \in {[peer EXCEPT ![e] = "none"], [peer EXCEPT ![e] = "streaming"]}
      BY <1>13 DEF Join, terms
    <3>2. wire' \in [Effects -> Seq(SUBSET Pieces)]
      <4>1. wire \in [Effects -> Seq(SUBSET Pieces)]
        BY DEF TypesData
      <4>2. CASE wire' = wire
        BY <4>1, <4>2
      <4>3. CASE wire' = [wire EXCEPT ![e] = <<>>]
        BY <4>1, <4>3, <2>4
      <4>4. CASE wire' = [wire EXCEPT ![e] = <<Replay(sidOf[e])>>]
        BY <4>1, <4>4, <2>4
      <4> QED
        BY <3>1, <4>2, <4>3, <4>4
    <3>3. peer' \in [Effects -> {"none", "upgraded", "streaming"}]
      BY <3>1 DEF TypesData
    <3> QED
      BY <3>1, <3>2, <3>3 DEF TypesData
  <2>3. TypesRest'
    BY <1>13 DEF TypesRest, Join, closures, refs, server, bounds
  <2> QED
    BY <2>1, <2>2, <2>3
<1>6. ASSUME NEW e \in Effects, Message(e) PROVE Types'
  <2>0. Head(wire[e]) \subseteq Pieces /\ Tail(wire[e]) \in Seq(SUBSET Pieces)
    BY <1>6 DEF TypesData, Message
  <2>1. TypesControl'
    BY <1>6 DEF TypesControl, Message, closures, refs, server, bounds
  <2>2. TypesData'
    BY <1>6, <2>0 DEF TypesControl, TypesData, Message, closures, refs, server, bounds
  <2>3. TypesRest'
    BY <1>6 DEF TypesControl, TypesRest, Message, closures, refs, server, bounds
  <2> QED
    BY <2>1, <2>2, <2>3
<1>7. ASSUME NEW e \in Effects, Refused(e) \/ HungUp(e) \/ CloseDone(e) \/ Dropped(e) PROVE Types'
  <2>0. Closed(e) /\ drops' \in 0..MaxDrops /\ keys' \in 0..MaxKeys
    BY <1>7 DEF Refused, HungUp, CloseDone, Dropped, bounds, TypesRest
  <2>1. TypesControl'
    BY <2>0 DEF TypesControl, Closed, OnClose, closures, terms, server
  <2>2. TypesData'
    BY <2>0 DEF TypesControl, TypesData, Closed, OnClose, closures, terms, server
  <2>3. TypesRest'
    BY <2>0 DEF TypesControl, TypesRest, Closed, OnClose, closures, terms, server
  <2> QED
    BY <2>1, <2>2, <2>3
<1>8. ASSUME NEW e \in Effects, ReconnectTimer(e) PROVE Types'
  <2>1. TypesControl'
    BY <1>8 DEF TypesControl, ReconnectTimer, Connect, closures, terms, socks, server,
       bounds
  <2>2. TypesData'
    BY <1>8 DEF TypesControl, TypesData, ReconnectTimer, Connect, closures, terms, socks,
       server, bounds
  <2>3. TypesRest'
    BY <1>8 DEF TypesControl, TypesRest, ReconnectTimer, Connect, closures, terms, socks,
       server, bounds
  <2> QED
    BY <2>1, <2>2, <2>3
<1>9. CASE TypeKey
  <2>1. TypesControl'
    BY <1>9 DEF TypesControl, TypeKey, Writable, closures, terms, refs, server
  <2>2. TypesData'
    BY <1>9 DEF TypesControl, TypesData, TypeKey, closures, terms, refs, server
  <2>3. TypesRest'
    BY <1>9 DEF TypesControl, TypesRest, TypeKey, closures, terms, refs, server
  <2> QED
    BY <2>1, <2>2, <2>3
<1>10. ASSUME NEW s \in Sessions, AgentPrints(s) PROVE Types'
  <2>0. <<s, out[s] + 1>> \in Pieces /\ out[s] + 1 \in Nat /\ out[s] + 1 <= Len(Output[s])
    BY <1>10, OutputNat DEF AgentPrints, TypesRest, Pieces
  <2>4. \A e \in Effects : Append(wire[e], {<<s, out[s] + 1>>}) \in Seq(SUBSET Pieces)
    BY <2>0 DEF TypesData
  <2>1. TypesControl'
    BY <1>10 DEF TypesControl, AgentPrints, closures, terms, refs, bounds
  <2>5. PICK full \in SUBSET Effects :
          /\ wire' = [e \in Effects |-> IF e \in Viewers(s) \ full
                                        THEN Append(wire[e], {<<s, out[s] + 1>>}) ELSE wire[e]]
          /\ lost' = [e \in Effects |-> IF e \in full THEN lost[e] \cup {out[s] + 1}
                                                      ELSE lost[e]]
    BY <1>10 DEF AgentPrints, Viewers
  <2>6. wire' \in [Effects -> Seq(SUBSET Pieces)] /\ lost' \in [Effects -> SUBSET Nat]
    BY <2>0, <2>4, <2>5 DEF TypesData
  <2>2. TypesData'
    BY <1>10, <2>6 DEF TypesData, AgentPrints, terms
  <2>3. TypesRest'
    BY <1>10, <2>0, OutputNat DEF TypesControl, TypesRest, AgentPrints, closures, terms,
       refs, bounds
  <2> QED
    BY <2>1, <2>2, <2>3
<1>11. ASSUME NEW s \in Sessions, NEW to \in {"exited", "stopped"}, StreamEnds(s, to) PROVE Types'
  <2>1. TypesControl'
    BY <1>11 DEF TypesControl, StreamEnds, Viewers, closures, terms, refs, bounds
  <2>2. TypesData'
    BY <1>11 DEF TypesControl, TypesData, StreamEnds, closures, terms, refs, bounds
  <2>3. TypesRest'
    BY <1>11 DEF TypesControl, TypesRest, StreamEnds, closures, terms, refs, bounds
  <2> QED
    BY <2>1, <2>2, <2>3
<1>12. CASE UNCHANGED vars
  BY <1>12 DEF TypesControl, TypesData, TypesRest, vars, closures, terms, socks, refs,
     server, bounds
<1> QED
  BY <1>1, <1>2, <1>3, <1>4, <1>5, <1>6, <1>7, <1>8, <1>9, <1>10, <1>11, <1>12, <1>13 DEF
     Next, Browser, User, Outside

LEMMA ScopeStep == Shape /\ [Next]_vars => Scope'
<1> SUFFICES ASSUME Shape, [Next]_vars PROVE Scope'
  OBVIOUS
<1> USE EffectsNat DEF Shape, Types
<1>1. ASSUME NEW s \in Sessions, Mount(s) PROVE Scope'
  <2>1. cur + 1 \in Effects /\ cur' = cur + 1 /\ sidOf'[cur + 1] = s /\ sessionId' = s
    BY <1>1 DEF TypesControl, Mount, StartEffect
  <2>2. cur' \notin disposed' /\ wsRef' = 0 /\ termRef' = 0
    BY <1>1, <2>1 DEF TypesControl, Scope, Mount
  <2>3. ASSUME NEW e \in Effects
        PROVE  /\ e < cur' => e \in disposed'
               /\ e <= cur' => sidOf'[e] \in Sessions
               /\ e > cur' => /\ e \notin disposed' /\ e \notin loading' /\ e \notin timers'
                              /\ term'[e] = "none" /\ sock'[e] = "none"
    BY <1>1, <2>1 DEF TypesControl, Scope, Mount, StartEffect, terms, socks
  <2>4. sessionId' # NoSession /\ cur' # 0 /\ wsRef' <= cur' /\ termRef' <= cur'
    BY <2>1, <2>2, TerminalAssumption DEF TypesControl
  <2> QED
    BY <2>1, <2>2, <2>3, <2>4 DEF Scope
<1>2. ASSUME NEW s \in Sessions, SwitchSession(s) PROVE Scope'
  <2>1. /\ cur + 1 \in Effects /\ cur' = cur + 1 /\ sidOf'[cur + 1] = s /\ sessionId' = s
        /\ disposed' = disposed \cup {cur} /\ UNCHANGED <<wsRef, termRef>>
    BY <1>2 DEF TypesControl, SwitchSession, StartEffect, Cleanup, refs
  <2>2. cur' \notin disposed' /\ wsRef' <= cur' /\ termRef' <= cur'
    BY <2>1 DEF TypesControl, Scope
  <2>3. ASSUME NEW e \in Effects
        PROVE  /\ e < cur' => e \in disposed'
               /\ e <= cur' => sidOf'[e] \in Sessions
               /\ e > cur' => e \notin disposed' /\ e \notin loading' /\ e \notin timers'
    BY <1>2, <2>1 DEF TypesControl, Scope, SwitchSession, StartEffect, Cleanup
  <2>4. ASSUME NEW e \in Effects, e > cur'
        PROVE  term'[e] = "none" /\ sock'[e] = "none"
    <3>1. e # wsRef /\ e # termRef /\ term[e] = "none" /\ sock[e] = "none"
      BY <2>1, <2>4 DEF TypesControl, Scope
    <3> QED
      BY <1>2, <3>1 DEF TypesData, SwitchSession, Cleanup, Close
  <2>5. sessionId' # NoSession /\ cur' # 0
    BY <2>1, TerminalAssumption DEF TypesControl
  <2> QED
    BY <2>1, <2>2, <2>3, <2>4, <2>5 DEF Scope
<1>3. CASE Unmount
  BY <1>3 DEF TypesControl, TypesData, Scope, Held, Alive, Unmount, Cleanup, Close, refs,
     server, bounds
<1>4. ASSUME NEW e \in Effects, Loaded(e) PROVE Scope'
  BY <1>4 DEF TypesControl, TypesData, Scope, Held, Alive, Loaded, Connect, socks, server,
     bounds
<1>5. ASSUME NEW e \in Effects, Open(e) PROVE Scope'
  BY <1>5 DEF TypesControl, TypesData, Scope, Held, Alive, Open, closures, terms, server,
     bounds
<1>13. ASSUME NEW e \in Effects, Join(e) PROVE Scope'
  BY <1>13 DEF TypesControl, TypesData, Scope, Held, Alive, Join, closures, terms, refs,
     server, bounds
<1>6. ASSUME NEW e \in Effects, Message(e) PROVE Scope'
  BY <1>6 DEF TypesControl, TypesData, Scope, Held, Alive, Message, closures, refs,
     server, bounds
<1>7. ASSUME NEW e \in Effects, Refused(e) \/ HungUp(e) \/ CloseDone(e) \/ Dropped(e) PROVE Scope'
  <2>1. Closed(e) /\ sock[e] # "none"
    BY <1>7 DEF Refused, HungUp, CloseDone, Dropped
  <2>2. /\ UNCHANGED <<sessionId, cur, disposed, loading, sidOf, term, wsRef, termRef>>
        /\ sock' = [sock EXCEPT ![e] = "closed"] /\ timers' \subseteq timers \cup {e}
    BY <2>1 DEF Closed, OnClose, closures, terms
  <2>3. e <= cur
    BY <2>1 DEF TypesControl, Scope
  <2> QED
    BY <2>2, <2>3 DEF TypesControl, TypesData, Scope
<1>8. ASSUME NEW e \in Effects, ReconnectTimer(e) PROVE Scope'
  BY <1>8 DEF TypesControl, TypesData, Scope, Held, Alive, ReconnectTimer, Connect,
     closures, terms, socks, server, bounds
<1>9. CASE TypeKey
  BY <1>9 DEF TypesControl, TypesData, Scope, Held, Alive, TypeKey, closures, terms, refs,
     server
<1>10. ASSUME NEW s \in Sessions, AgentPrints(s) PROVE Scope'
  BY <1>10 DEF TypesControl, TypesData, Scope, Held, Alive, AgentPrints, closures, terms,
     refs, bounds
<1>11. ASSUME NEW s \in Sessions, NEW to \in {"exited", "stopped"}, StreamEnds(s, to) PROVE Scope'
  BY <1>11 DEF TypesControl, TypesData, Scope, Held, Alive, StreamEnds, closures, terms,
     refs, bounds
<1>12. CASE UNCHANGED vars
  BY <1>12 DEF TypesControl, TypesData, Scope, Held, Alive, vars, closures, terms, socks,
     refs, server, bounds
<1> QED
  BY <1>1, <1>2, <1>3, <1>4, <1>5, <1>6, <1>7, <1>8, <1>9, <1>10, <1>11, <1>12, <1>13 DEF
     Next, Browser, User, Outside

LEMMA HeldStep == Shape /\ [Next]_vars => Held'
<1> SUFFICES ASSUME Shape, [Next]_vars PROVE Held'
  OBVIOUS
<1> USE EffectsNat DEF Shape, Types
<1>1. ASSUME NEW s \in Sessions, Mount(s) PROVE Held'
  BY <1>1 DEF TypesControl, TypesData, Scope, Held, Alive, Mount, StartEffect, socks,
     terms, server, bounds
<1>2. ASSUME NEW s \in Sessions, SwitchSession(s) PROVE Held'
  <2>1. /\ cur \in Effects /\ disposed' = disposed \cup {cur}
        /\ timers' = timers \ {reconnectTimer}
        /\ UNCHANGED <<wsRef, termRef, reconnectTimer>>
    BY <1>2 DEF TypesControl, Scope, SwitchSession, Cleanup, refs
  <2>2. /\ sock' = IF wsRef = 0 THEN sock ELSE Close(wsRef)
        /\ term' = IF termRef = 0 THEN term ELSE [term EXCEPT ![termRef] = "disposed"]
        /\ loading' = loading \cup {cur + 1}
    BY <1>2 DEF SwitchSession, Cleanup, StartEffect
  <2>3. ASSUME NEW e \in Effects
        PROVE  /\ sock'[e] = (IF Alive(e) THEN "closing" ELSE sock[e])
               /\ Alive(e) => ~Alive(e)'
               /\ Alive(e)' => Alive(e)
               /\ term'[e] # "live"
               /\ e \notin timers'
    BY <2>1, <2>2 DEF TypesControl, TypesData, Scope, Held, Alive, Close
  <2>4. ASSUME NEW e \in Effects, Alive(e) PROVE e = cur
    BY <2>4 DEF TypesControl, Scope, Held, Alive
  <2>5. cur + 1 \in Effects /\ sock[cur + 1] = "none" /\ term[cur + 1] = "none"
    BY <1>2 DEF TypesControl, Scope, SwitchSession, StartEffect
  <2>6. ASSUME NEW e \in Effects, e \in loading'
        PROVE  term'[e] = "none" /\ sock'[e] = "none"
    <3>1. term[e] = "none" /\ sock[e] = "none" /\ e # termRef
      BY <2>2, <2>5, <2>6 DEF Held
    <3> QED
      BY <2>2, <2>3, <3>1 DEF TypesData, Alive
  <2>7. ASSUME NEW e \in Effects, term'[e] = "none" PROVE e # termRef'
    BY <2>1, <2>2, <2>7 DEF TypesData, TypesControl, Held
  <2>8. ASSUME NEW e \in Effects, peer'[e] # "none"
        PROVE  sock'[e] \in {"open", "closing"}
    <3>1. sock[e] \in {"open", "closing"}
      BY <1>2, <2>8 DEF SwitchSession, Held
    <3> QED
      BY <2>3, <3>1
  <2> QED
    BY <2>1, <2>2, <2>3, <2>4, <2>6, <2>7, <2>8 DEF Held
<1>3. CASE Unmount
  <2>1. /\ cur \in Effects /\ disposed' = disposed \cup {cur}
        /\ timers' = timers \ {reconnectTimer}
        /\ UNCHANGED <<wsRef, termRef, reconnectTimer>>
    BY <1>3 DEF TypesControl, Scope, Unmount, Cleanup, refs
  <2>2. /\ sock' = IF wsRef = 0 THEN sock ELSE Close(wsRef)
        /\ term' = IF termRef = 0 THEN term ELSE [term EXCEPT ![termRef] = "disposed"]
        /\ loading' = loading
    BY <1>3 DEF Unmount, Cleanup
  <2>3. ASSUME NEW e \in Effects
        PROVE  /\ sock'[e] = (IF Alive(e) THEN "closing" ELSE sock[e])
               /\ Alive(e) => ~Alive(e)'
               /\ Alive(e)' => Alive(e)
               /\ term'[e] # "live"
               /\ e \notin timers'
    BY <2>1, <2>2 DEF TypesControl, TypesData, Scope, Held, Alive, Close
  <2>4. ASSUME NEW e \in Effects, Alive(e) PROVE e = cur
    BY <2>4 DEF TypesControl, Scope, Held, Alive
  <2>6. ASSUME NEW e \in Effects, e \in loading'
        PROVE  term'[e] = "none" /\ sock'[e] = "none"
    <3>1. term[e] = "none" /\ sock[e] = "none" /\ e # termRef
      BY <2>2, <2>6 DEF Held
    <3> QED
      BY <2>2, <2>3, <3>1 DEF TypesData, Alive
  <2>7. ASSUME NEW e \in Effects, term'[e] = "none" PROVE e # termRef'
    BY <2>1, <2>2, <2>7 DEF TypesData, TypesControl, Held
  <2>8. ASSUME NEW e \in Effects, peer'[e] # "none"
        PROVE  sock'[e] \in {"open", "closing"}
    <3>1. sock[e] \in {"open", "closing"}
      BY <1>3, <2>8 DEF Unmount, Held
    <3> QED
      BY <2>3, <3>1
  <2> QED
    BY <2>1, <2>2, <2>3, <2>4, <2>6, <2>7, <2>8 DEF Held
<1>4. ASSUME NEW e \in Effects, Loaded(e) PROVE Held'
  BY <1>4 DEF TypesControl, TypesData, Scope, Held, Alive, Loaded, Connect, socks, server,
     bounds
<1>5. ASSUME NEW e \in Effects, Open(e) PROVE Held'
  BY <1>5 DEF TypesControl, TypesData, Scope, Held, Alive, Open, closures, terms, server,
     bounds
<1>13. ASSUME NEW e \in Effects, Join(e) PROVE Held'
  BY <1>13 DEF TypesControl, TypesData, Scope, Held, Alive, Join, closures, terms, refs,
     server, bounds
<1>6. ASSUME NEW e \in Effects, Message(e) PROVE Held'
  BY <1>6 DEF TypesControl, TypesData, Scope, Held, Alive, Message, closures, refs,
     server, bounds
<1>7. ASSUME NEW e \in Effects, Refused(e) \/ HungUp(e) \/ CloseDone(e) \/ Dropped(e) PROVE Held'
  <2>1. Closed(e) /\ sock[e] \in {"connecting", "open", "closing"}
    BY <1>7 DEF Refused, HungUp, CloseDone, Dropped
  <2>2. /\ UNCHANGED <<disposed, loading, term, wsRef, termRef>>
        /\ sock' = [sock EXCEPT ![e] = "closed"] /\ peer' = [peer EXCEPT ![e] = "none"]
        /\ \/ UNCHANGED <<timers, reconnectTimer>>
           \/ e \notin disposed /\ timers' = timers \cup {e} /\ reconnectTimer' = e
    BY <2>1 DEF Closed, OnClose, closures, terms
  <2>3. e \notin disposed => \A g \in Effects : g \in timers => g = e
    BY <2>1 DEF TypesControl, Scope, Held, Alive
  <2>4. e \notin loading
    BY <2>1 DEF Held
  <2> QED
    BY <2>1, <2>2, <2>3, <2>4 DEF Held, Alive, TypesData, TypesControl
<1>8. ASSUME NEW e \in Effects, ReconnectTimer(e) PROVE Held'
  BY <1>8 DEF TypesControl, TypesData, Scope, Held, Alive, ReconnectTimer, Connect,
     closures, terms, socks, server, bounds
<1>9. CASE TypeKey
  BY <1>9 DEF TypesControl, TypesData, Scope, Held, Alive, TypeKey, closures, terms, refs,
     server
<1>10. ASSUME NEW s \in Sessions, AgentPrints(s) PROVE Held'
  BY <1>10 DEF TypesControl, TypesData, Scope, Held, Alive, AgentPrints, closures, terms,
     refs, bounds
<1>11. ASSUME NEW s \in Sessions, NEW to \in {"exited", "stopped"}, StreamEnds(s, to) PROVE Held'
  BY <1>11 DEF TypesControl, TypesData, Scope, Held, Alive, StreamEnds, closures, terms,
     refs, bounds
<1>12. CASE UNCHANGED vars
  BY <1>12 DEF TypesControl, TypesData, Scope, Held, Alive, vars, closures, terms, socks,
     refs, server, bounds
<1> QED
  BY <1>1, <1>2, <1>3, <1>4, <1>5, <1>6, <1>7, <1>8, <1>9, <1>10, <1>11, <1>12, <1>13 DEF
     Next, Browser, User, Outside

LEMMA BudgetStep == Shape /\ Budget /\ [Next]_vars => Budget'
<1> SUFFICES ASSUME Shape /\ Budget, [Next]_vars PROVE Budget'
  OBVIOUS
<1> USE EffectsNat DEF Shape, Types
<1>1. ASSUME NEW s \in Sessions, Mount(s) PROVE Budget'
  BY <1>1 DEF TypesControl, TypesData, TypesRest, Scope, Held, Alive, Budget, Mount,
     StartEffect, socks, terms, server, bounds
<1>2. ASSUME NEW s \in Sessions, SwitchSession(s) PROVE Budget'
  BY <1>2 DEF TypesControl, TypesData, TypesRest, Scope, Held, Alive, Budget,
     SwitchSession, Cleanup, StartEffect, Close, refs, server, bounds
<1>3. CASE Unmount
  BY <1>3 DEF TypesControl, TypesData, TypesRest, Scope, Held, Alive, Budget, Unmount,
     Cleanup, Close, refs, server, bounds
<1>4. ASSUME NEW e \in Effects, Loaded(e) PROVE Budget'
  BY <1>4 DEF TypesControl, TypesData, TypesRest, Scope, Held, Alive, Budget, Loaded,
     Connect, socks, server, bounds
<1>5. ASSUME NEW e \in Effects, Open(e) PROVE Budget'
  BY <1>5 DEF TypesControl, TypesData, TypesRest, Scope, Held, Alive, Budget, Open,
     closures, terms, server, bounds
<1>13. ASSUME NEW e \in Effects, Join(e) PROVE Budget'
  BY <1>13 DEF TypesControl, TypesData, TypesRest, Scope, Held, Alive, Budget, Join,
     closures, terms, refs, server, bounds
<1>6. ASSUME NEW e \in Effects, Message(e) PROVE Budget'
  BY <1>6 DEF TypesControl, TypesData, TypesRest, Scope, Held, Alive, Budget, Message,
     closures, refs, server, bounds
<1>7. ASSUME NEW e \in Effects, Refused(e) \/ HungUp(e) \/ CloseDone(e) \/ Dropped(e) PROVE Budget'
  <2>1. Closed(e) /\ sock[e] \in {"connecting", "open", "closing"}
    BY <1>7 DEF Refused, HungUp, CloseDone, Dropped
  <2>2. /\ UNCHANGED <<cur, loading>>
        /\ sock' = [sock EXCEPT ![e] = "closed"] /\ OnClose(e)
    BY <2>1 DEF Closed, closures
  <2>3. CASE e \in disposed
    BY <2>2, <2>3 DEF OnClose, Budget, Alive, TypesData, TypesControl
  <2>4. CASE e \notin disposed
    <3>1. e = cur /\ Alive(e) /\ e \notin loading /\ e \notin timers
      BY <2>1, <2>4 DEF TypesControl, Scope, Held, Alive
    <3>2. reconnectAttempts < maxReconnectAttempts + cur /\ cur >= 1
      BY <3>1 DEF Budget, TypesControl
    <3>3. ~Alive(e)' /\ e \notin loading'
      BY <2>2, <3>1 DEF TypesData, Alive
    <3>4. /\ reconnectAttempts' = reconnectAttempts + 1
          /\ e \in timers' => reconnectAttempts' <= maxReconnectAttempts
      BY <2>2, <2>4, <3>1 DEF OnClose, TypesRest
    <3> QED
      BY <2>2, <3>1, <3>2, <3>3, <3>4 DEF Budget, TypesControl, TypesRest
  <2> QED
    BY <2>3, <2>4
<1>8. ASSUME NEW e \in Effects, ReconnectTimer(e) PROVE Budget'
  BY <1>8 DEF TypesControl, TypesData, TypesRest, Scope, Held, Alive, Budget,
     ReconnectTimer, Connect, closures, terms, socks, server, bounds
<1>9. CASE TypeKey
  BY <1>9 DEF TypesControl, TypesData, TypesRest, Scope, Held, Alive, Budget, TypeKey,
     closures, terms, refs, server
<1>10. ASSUME NEW s \in Sessions, AgentPrints(s) PROVE Budget'
  BY <1>10 DEF TypesControl, TypesData, TypesRest, Scope, Held, Alive, Budget,
     AgentPrints, closures, terms, refs, bounds
<1>11. ASSUME NEW s \in Sessions, NEW to \in {"exited", "stopped"}, StreamEnds(s, to) PROVE Budget'
  BY <1>11 DEF TypesControl, TypesData, TypesRest, Scope, Held, Alive, Budget, StreamEnds,
     closures, terms, refs, bounds
<1>12. CASE UNCHANGED vars
  BY <1>12 DEF TypesControl, TypesData, TypesRest, Scope, Held, Alive, Budget, vars,
     closures, terms, socks, refs, server, bounds
<1> QED
  BY <1>1, <1>2, <1>3, <1>4, <1>5, <1>6, <1>7, <1>8, <1>9, <1>10, <1>11, <1>12, <1>13 DEF
     Next, Browser, User, Outside

LEMMA OwnOutputStep == Shape /\ OwnOutput /\ [Next]_vars => OwnOutput'
<1> SUFFICES ASSUME Shape /\ OwnOutput, [Next]_vars PROVE OwnOutput'
  OBVIOUS
<1> USE EffectsNat DEF Shape, Types
<1>1. ASSUME NEW s \in Sessions, Mount(s) PROVE OwnOutput'
  <2>1. /\ cur + 1 \in Effects /\ cur' = cur + 1 /\ UNCHANGED <<screen, wire>>
        /\ sidOf' = [sidOf EXCEPT ![cur + 1] = s]
    BY <1>1 DEF TypesControl, Mount, StartEffect, terms, socks
  <2> QED
    BY <2>1 DEF TypesControl, TypesData, OwnOutput, Own
<1>2. ASSUME NEW s \in Sessions, SwitchSession(s) PROVE OwnOutput'
  <2>1. /\ cur + 1 \in Effects /\ cur' = cur + 1 /\ UNCHANGED <<screen, wire>>
        /\ sidOf' = [sidOf EXCEPT ![cur + 1] = s]
    BY <1>2 DEF TypesControl, SwitchSession, StartEffect
  <2> QED
    BY <2>1 DEF TypesControl, TypesData, OwnOutput, Own
<1>3. CASE Unmount
  BY <1>3 DEF TypesControl, TypesData, TypesRest, Scope, Held, OwnOutput, Own, Unmount,
     Cleanup, Close, refs, server, bounds
<1>4. ASSUME NEW e \in Effects, Loaded(e) PROVE OwnOutput'
  BY <1>4 DEF TypesControl, TypesData, TypesRest, Scope, Held, OwnOutput, Own, Loaded,
     Connect, socks, server, bounds
<1>5. ASSUME NEW e \in Effects, Open(e) PROVE OwnOutput'
  BY <1>5 DEF Open, OwnOutput, Own, closures, terms
<1>13. ASSUME NEW e \in Effects, Join(e) PROVE OwnOutput'
  <2>1. e <= cur /\ sidOf[e] \in Sessions
    BY <1>13, PeerStarted DEF Join
  <2>3. Replay(sidOf[e]) \subseteq Own(e)
    BY <2>1, ReplayPieces DEF Own
  <2>4. /\ UNCHANGED <<cur, sidOf, screen>>
        /\ wire' = [wire EXCEPT ![e] = wire'[e]]
        /\ wire'[e] \in {<<>>, <<Replay(sidOf[e])>>, wire[e]}
    BY <1>13 DEF Join, TypesData, closures, terms
  <2>5. ASSUME NEW f \in Effects, NEW i \in 1..Len(wire'[f]) PROVE wire'[f][i] \subseteq Own(f)
    <3>1. CASE f = e
      <4>1. CASE wire'[e] = <<>>
        BY <2>5, <3>1, <4>1
      <4>2. CASE wire'[e] = <<Replay(sidOf[e])>>
        BY <2>3, <2>5, <3>1, <4>2
      <4>3. CASE wire'[e] = wire[e]
        BY <2>5, <3>1, <4>3 DEF OwnOutput
      <4> QED
        BY <2>4, <4>1, <4>2, <4>3
    <3>2. CASE f # e
      <4>1. wire'[f] = wire[f]
        BY <2>4, <3>2 DEF TypesData
      <4> QED
        BY <2>5, <4>1 DEF OwnOutput
    <3> QED
      BY <3>1, <3>2
  <2> QED
    BY <2>1, <2>4, <2>5 DEF OwnOutput, Own, TypesData, TypesControl
<1>6. ASSUME NEW e \in Effects, Message(e) PROVE OwnOutput'
  <2>1. /\ UNCHANGED <<cur, sidOf>> /\ wire[e] # <<>> /\ wire[e] \in Seq(SUBSET Pieces)
        /\ wire' = [wire EXCEPT ![e] = Tail(wire[e])]
    BY <1>6 DEF Message, TypesData, closures
  <2>2. \A f \in Effects : screen'[f] \subseteq screen[f] \cup (IF f = e THEN Head(wire[e]) ELSE {})
    BY <1>6 DEF Message, TypesData
  <2>3. Len(wire[e]) >= 1 /\ Head(wire[e]) = wire[e][1]
    BY <2>1
  <2>4. Head(wire[e]) \subseteq Own(e)
    BY <2>3 DEF OwnOutput
  <2>5. \A i \in 1..Len(Tail(wire[e])) : i + 1 \in 1..Len(wire[e]) /\ Tail(wire[e])[i] = wire[e][i + 1]
    BY <2>1
  <2>6. e <= cur
    BY <2>1 DEF OwnOutput, TypesControl
  <2>7. ASSUME NEW f \in Effects
        PROVE  /\ screen'[f] \subseteq Own(f)
               /\ \A i \in 1..Len(wire'[f]) : wire'[f][i] \subseteq Own(f)
               /\ f > cur => screen'[f] = {} /\ wire'[f] = <<>>
    <3>1. CASE f = e
      BY <2>1, <2>2, <2>4, <2>5, <2>6, <3>1 DEF OwnOutput, TypesData, TypesControl
    <3>2. CASE f # e
      BY <2>1, <2>2, <3>2 DEF OwnOutput, TypesData
    <3> QED
      BY <3>1, <3>2
  <2> QED
    BY <2>1, <2>7 DEF OwnOutput, Own
<1>7. ASSUME NEW e \in Effects, Refused(e) \/ HungUp(e) \/ CloseDone(e) \/ Dropped(e) PROVE OwnOutput'
  <2>1. Closed(e)
    BY <1>7 DEF Refused, HungUp, CloseDone, Dropped
  <2>2. UNCHANGED <<cur, sidOf, screen>> /\ wire' = [wire EXCEPT ![e] = <<>>]
    BY <2>1 DEF Closed, closures, terms
  <2> QED
    BY <2>2 DEF OwnOutput, Own, TypesData
<1>8. ASSUME NEW e \in Effects, ReconnectTimer(e) PROVE OwnOutput'
  BY <1>8 DEF TypesControl, TypesData, TypesRest, Scope, Held, OwnOutput, Own,
     ReconnectTimer, Connect, closures, terms, socks, server, bounds
<1>9. CASE TypeKey
  BY <1>9 DEF TypesControl, TypesData, TypesRest, Scope, Held, OwnOutput, Own, TypeKey,
     closures, terms, refs, server
<1>10. ASSUME NEW s \in Sessions, AgentPrints(s) PROVE OwnOutput'
  <2>1. /\ UNCHANGED <<cur, sidOf, screen>> /\ out[s] + 1 \in Nat
        /\ \A f \in Effects : wire'[f] \in {wire[f], Append(wire[f], {<<s, out[s] + 1>>})}
        /\ \A f \in Effects : f \notin Viewers(s) => wire'[f] = wire[f]
    BY <1>10 DEF AgentPrints, TypesRest, TypesData, Viewers, closures, terms
  <2>2. ASSUME NEW f \in Effects
        PROVE  /\ \A i \in 1..Len(wire'[f]) : wire'[f][i] \subseteq Own(f)
               /\ f > cur => wire'[f] = <<>>
    <3>1. CASE f \in Viewers(s) /\ wire'[f] # wire[f]
      <4>1. wire'[f] = Append(wire[f], {<<s, out[s] + 1>>}) /\ wire[f] \in Seq(SUBSET Pieces)
        BY <2>1, <3>1 DEF TypesData
      <4>2. sidOf[f] = s /\ ~(f > cur)
        BY <3>1, PeerStarted DEF Viewers
      <4>3. {<<s, out[s] + 1>>} \subseteq Own(f)
        BY <2>1, <4>2 DEF Own
      <4>4. ASSUME NEW i \in 1..Len(wire'[f]) PROVE wire'[f][i] \subseteq Own(f)
        <5>1. \/ i = Len(wire[f]) + 1 /\ wire'[f][i] = {<<s, out[s] + 1>>}
              \/ i \in 1..Len(wire[f]) /\ wire'[f][i] = wire[f][i]
          BY <4>1, <4>4
        <5> QED
          BY <4>3, <5>1 DEF OwnOutput
      <4> QED
        BY <4>2, <4>4
    <3>2. CASE wire'[f] = wire[f]
      BY <2>1, <3>2 DEF OwnOutput
    <3> QED
      BY <2>1, <3>1, <3>2
  <2> QED
    BY <2>1, <2>2 DEF OwnOutput, Own
<1>11. ASSUME NEW s \in Sessions, NEW to \in {"exited", "stopped"}, StreamEnds(s, to) PROVE OwnOutput'
  BY <1>11 DEF TypesControl, TypesData, TypesRest, Scope, Held, OwnOutput, Own,
     StreamEnds, closures, terms, refs, bounds
<1>12. CASE UNCHANGED vars
  BY <1>12 DEF TypesControl, TypesData, TypesRest, Scope, Held, OwnOutput, Own, vars,
     closures, terms, socks, refs, server, bounds
<1> QED
  BY <1>1, <1>2, <1>3, <1>4, <1>5, <1>6, <1>7, <1>8, <1>9, <1>10, <1>11, <1>12, <1>13 DEF
     Next, Browser, User, Outside

----------------------------------------------------------------------------
\* The strengthened invariant of the view.
THEOREM Strengthening == Spec => [](Shape /\ Budget /\ OwnOutput)
<1>1. Shape /\ Budget /\ OwnOutput /\ [Next]_vars => (Shape /\ Budget /\ OwnOutput)'
  BY TypesStep, ScopeStep, HeldStep, BudgetStep, OwnOutputStep DEF Shape
<1> QED
  BY InitShape, <1>1, PTL DEF Spec

\* Every variable keeps its type, and the retry counter of the component
\* stays within one attempt per view beyond maxReconnectAttempts.
THEOREM TerminalTypes == Spec => []TypeOK
<1>1. Shape /\ Budget => TypeOK
  BY EffectsNat DEF Shape, Types, TypesControl, TypesData, TypesRest, Budget, TypeOK
<1> QED
  BY Strengthening, <1>1, PTL

\* The page holds at most one connection or pending reconnect, to the
\* session on display, through any sequence of switches, tabs, drops and
\* late imports.
THEOREM OneSocket == Spec => []SoleSocket
<1>1. Shape => SoleSocket
  BY EffectsNat DEF Shape, Types, TypesControl, Scope, Held, SoleSocket, Alive
<1> QED
  BY Strengthening, <1>1, PTL

\* The container holds at most one terminal, of the session on display.
THEOREM OneTerminal == Spec => []SoleTerminal
<1>1. Shape => SoleTerminal
  BY EffectsNat DEF Shape, Types, TypesControl, Scope, Held, SoleTerminal
<1> QED
  BY Strengthening, <1>1, PTL

\* No terminal shows what another session printed.
THEOREM OwnOutputOnly == Spec => []NoForeignOutput
<1>1. OwnOutput => NoForeignOutput
  BY DEF OwnOutput, Own, NoForeignOutput
<1> QED
  BY Strengthening, <1>1, PTL

----------------------------------------------------------------------------
(* What was sent.                                                          *)

\* Whom the server has hung up on, or will, prints nothing any more.
HungIsQuiet ==
  \A e \in hup : sock[e] \in {"open", "closing"} /\ srv[sidOf[e]] # "running"

Reached(e, p) == p \in screen[e] \/ \E i \in 1..Len(wire[e]) : p \in wire[e][i]

\* The pieces after an end of a line that the buffer holds.
Whole(s) == {n \in InWindow(s) : \E m \in LineEnds(s) : m < n}

\* What a connected terminal lacks of them is under way to it or was dropped.
Streams(e) == sock[e] = "open" /\ peer[e] = "streaming" /\ term[e] = "live"
Kept(e) ==
  Streams(e) => \A n \in Whole(sidOf[e]) : Reached(e, <<sidOf[e], n>>) \/ n \in lost[e]
UnderWay == \A e \in Effects : Kept(e)

LEMMA HungStep == Shape /\ HungIsQuiet /\ [Next]_vars => HungIsQuiet'
<1> SUFFICES ASSUME Shape, HungIsQuiet, [Next]_vars PROVE HungIsQuiet'
  OBVIOUS
<1> USE EffectsNat DEF Shape, Types
<1>0. \A e \in hup : e \in Effects /\ e <= cur /\ sidOf[e] \in Sessions
  BY DEF HungIsQuiet, TypesControl, Scope
<1>1. ASSUME NEW s \in Sessions, Mount(s) \/ SwitchSession(s) PROVE HungIsQuiet'
  <2>1. /\ cur + 1 \in Effects /\ sidOf' = [sidOf EXCEPT ![cur + 1] = s]
        /\ UNCHANGED <<hup, srv>>
    BY <1>1 DEF TypesControl, Mount, SwitchSession, StartEffect, socks, server
  <2>2. \A e \in hup : sidOf'[e] = sidOf[e]
    BY <1>0, <2>1 DEF TypesControl
  <2>3. \A e \in hup : sock'[e] \in {sock[e], "closing"}
    BY <1>0, <1>1 DEF Mount, SwitchSession, Cleanup, Close, socks, TypesData, TypesControl
  <2> QED
    BY <2>1, <2>2, <2>3 DEF HungIsQuiet
<1>2. CASE Unmount
  <2>1. \A e \in hup : sock'[e] \in {sock[e], "closing"}
    BY <1>0, <1>2 DEF Unmount, Cleanup, Close, TypesData, TypesControl
  <2> QED
    BY <1>2, <2>1 DEF Unmount, HungIsQuiet, server
<1>3. ASSUME NEW e \in Effects, Loaded(e) \/ Open(e) \/ Message(e) \/ ReconnectTimer(e) PROVE HungIsQuiet'
  <2>1. UNCHANGED <<hup, srv, sidOf>>
    BY <1>3 DEF Loaded, Open, Message, ReconnectTimer, Connect, closures, socks, server
  <2>2. \A f \in hup : sock'[f] = sock[f]
    BY <1>3 DEF HungIsQuiet, TypesData, TypesControl, Scope, Held, Loaded, Open, Message,
       ReconnectTimer, Connect, socks
  <2> QED
    BY <2>1, <2>2 DEF HungIsQuiet
<1>4. ASSUME NEW e \in Effects, Refused(e) \/ HungUp(e) \/ CloseDone(e) \/ Dropped(e)
      PROVE  HungIsQuiet'
  <2>1. UNCHANGED <<srv, sidOf>> /\ hup' = hup \ {e} /\ sock' = [sock EXCEPT ![e] = "closed"]
    BY <1>4 DEF Refused, HungUp, CloseDone, Dropped, Closed, closures, server
  <2> QED
    BY <1>0, <2>1 DEF HungIsQuiet, TypesData
<1>9. ASSUME NEW e \in Effects, Join(e) PROVE HungIsQuiet'
  <2>1. UNCHANGED <<srv, sidOf, sock>> /\ hup' \subseteq hup \cup {e}
    BY <1>9 DEF Join, closures, server
  <2>2. sock[e] \in {"open", "closing"}
    BY <1>9 DEF Join, Held
  <2>3. e \in hup' => e \in hup \/ ~Accepts(sidOf[e])
    BY <1>9 DEF Join
  <2> QED
    BY <2>1, <2>2, <2>3 DEF HungIsQuiet, Accepts
<1>5. CASE TypeKey
  BY <1>5 DEF TypeKey, Writable, HungIsQuiet, closures, server
<1>6. ASSUME NEW s \in Sessions, AgentPrints(s) PROVE HungIsQuiet'
  BY <1>6 DEF AgentPrints, HungIsQuiet, closures
<1>7. ASSUME NEW s \in Sessions, NEW to \in {"exited", "stopped"}, StreamEnds(s, to)
      PROVE  HungIsQuiet'
  BY <1>0, <1>7 DEF StreamEnds, Viewers, HungIsQuiet, Held, closures, TypesRest,
     TypesControl
<1>8. CASE UNCHANGED vars
  BY <1>8 DEF vars, HungIsQuiet, closures, socks, server
<1> QED
  BY <1>1, <1>2, <1>3, <1>4, <1>5, <1>6, <1>7, <1>8, <1>9 DEF Next, Browser, User, Outside

\* An effect that a step does not send to or write for.
LEMMA KeptAside ==
  ASSUME NEW f \in Effects, Kept(f),
         sock'[f] = "open" /\ term'[f] = "live" => sock[f] = "open" /\ term[f] = "live",
         peer'[f] = "streaming" => peer[f] = "streaming",
         sidOf'[f] = sidOf[f], screen'[f] = screen[f], wire'[f] = wire[f],
         lost'[f] = lost[f], out' = out
  PROVE  Kept(f)'
  BY DEF Kept, Streams, Reached, Whole, InWindow, LineEnds

LEMMA UnderWayStep == Shape /\ HungIsQuiet /\ UnderWay /\ [Next]_vars => UnderWay'
<1> SUFFICES ASSUME Shape, HungIsQuiet, UnderWay, [Next]_vars PROVE UnderWay'
  OBVIOUS
<1> USE EffectsNat DEF Shape, Types
<1>1. ASSUME NEW s \in Sessions, Mount(s) \/ SwitchSession(s) PROVE UnderWay'
  <2> SUFFICES ASSUME NEW f \in Effects PROVE Kept(f)'
    BY DEF UnderWay
  <2>1. /\ cur + 1 \in Effects /\ sidOf' = [sidOf EXCEPT ![cur + 1] = s]
        /\ UNCHANGED <<screen, wire, peer, lost, out>>
    BY <1>1 DEF TypesControl, Mount, SwitchSession, StartEffect, socks, terms, server
  <2>2. sock'[f] \in {sock[f], "closing"} /\ term'[f] \in {term[f], "disposed"}
    BY <1>1 DEF Mount, SwitchSession, Cleanup, Close, socks, terms, TypesData, TypesControl
  <2>3. CASE f = cur + 1
    BY <2>2, <2>3 DEF Kept, Streams, Scope, TypesControl
  <2>4. CASE f # cur + 1
    BY <2>1, <2>2, <2>4, KeptAside DEF UnderWay, TypesControl
  <2> QED
    BY <2>3, <2>4
<1>2. CASE Unmount
  <2> SUFFICES ASSUME NEW f \in Effects PROVE Kept(f)'
    BY DEF UnderWay
  <2>1. sock'[f] \in {sock[f], "closing"} /\ term'[f] \in {term[f], "disposed"}
    BY <1>2 DEF Unmount, Cleanup, Close, TypesData, TypesControl
  <2> QED
    BY <1>2, <2>1, KeptAside DEF Unmount, UnderWay, server
<1>3. ASSUME NEW e \in Effects, Loaded(e) \/ ReconnectTimer(e) PROVE UnderWay'
  <2> SUFFICES ASSUME NEW f \in Effects PROVE Kept(f)'
    BY DEF UnderWay
  <2>1. UNCHANGED <<sidOf, screen, wire, peer, lost, out>>
    BY <1>3 DEF Loaded, ReconnectTimer, Connect, closures, terms, socks, server
  <2>2. sock'[f] = "open" /\ term'[f] = "live" => sock[f] = "open" /\ term[f] = "live"
    BY <1>3 DEF Loaded, ReconnectTimer, Connect, terms, socks, TypesData, TypesControl, Held
  <2> QED
    BY <2>1, <2>2, KeptAside DEF UnderWay
<1>4. ASSUME NEW e \in Effects, Open(e) PROVE UnderWay'
  <2> SUFFICES ASSUME NEW f \in Effects PROVE Kept(f)'
    BY DEF UnderWay
  <2>1. /\ UNCHANGED <<sidOf, screen, wire, term, lost, out>>
        /\ sock' = [sock EXCEPT ![e] = "open"] /\ peer' = [peer EXCEPT ![e] = "upgraded"]
    BY <1>4 DEF Open, closures, terms, server
  <2>2. CASE f # e
    BY <2>1, <2>2, KeptAside DEF UnderWay, TypesData
  <2>3. CASE f = e
    BY <2>1, <2>3 DEF Kept, Streams, TypesData
  <2> QED
    BY <2>2, <2>3
<1>11. ASSUME NEW e \in Effects, Join(e) PROVE UnderWay'
  <2> SUFFICES ASSUME NEW f \in Effects PROVE Kept(f)'
    BY DEF UnderWay
  <2>1. /\ UNCHANGED <<sidOf, screen, sock, term, lost, out>>
        /\ peer' = [peer EXCEPT ![e] = peer'[e]] /\ wire' = [wire EXCEPT ![e] = wire'[e]]
    BY <1>11 DEF Join, TypesData, closures, terms, server
  <2>2. CASE f # e
    BY <2>1, <2>2, KeptAside DEF UnderWay, TypesData
  <2>3. CASE f = e /\ peer'[e] # "streaming"
    BY <2>3 DEF Kept, Streams
  <2>4. CASE f = e /\ peer'[e] = "streaming"
    <3>1. wire'[e] = IF Replay(sidOf[e]) = {} THEN <<>> ELSE <<Replay(sidOf[e])>>
      BY <1>11, <2>4 DEF Join, TypesData
    <3>2. Whole(sidOf[e])' = Whole(sidOf[e])
      BY <2>1 DEF Whole, InWindow, LineEnds
    <3>3. ASSUME NEW n \in Whole(sidOf[e]) PROVE Reached(e, <<sidOf[e], n>>)'
      <4>1. <<sidOf[e], n>> \in Replay(sidOf[e])
        BY DEF Whole, Replay
      <4>2. wire'[e] = <<Replay(sidOf[e])>>
        BY <3>1, <4>1
      <4>3. Len(wire'[e]) = 1 /\ wire'[e][1] = Replay(sidOf[e])
        BY <4>2
      <4>4. \E i \in 1..Len(wire'[e]) : <<sidOf[e], n>> \in wire'[e][i]
        BY <4>1, <4>3
      <4> QED
        BY <2>1, <4>4 DEF Reached
    <3> QED
      BY <2>1, <2>4, <3>2, <3>3 DEF Kept
  <2> QED
    BY <2>2, <2>3, <2>4
<1>5. ASSUME NEW e \in Effects, Message(e) PROVE UnderWay'
  <2> SUFFICES ASSUME NEW f \in Effects PROVE Kept(f)'
    BY DEF UnderWay
  <2>1. /\ UNCHANGED <<sidOf, sock, term, peer, lost, out>> /\ wire[e] # <<>> /\ wire[e] \in Seq(SUBSET Pieces)
        /\ wire' = [wire EXCEPT ![e] = Tail(@)]
        /\ screen' = IF term[e] = "live"
                     THEN [screen EXCEPT ![e] = @ \cup Head(wire[e])] ELSE screen
    BY <1>5 DEF Message, TypesData, closures, server
  <2>2. CASE f # e
    BY <2>1, <2>2, KeptAside DEF UnderWay, TypesData
  <2>3. ASSUME term[e] = "live", NEW p, Reached(e, p) PROVE Reached(e, p)'
    <3>1. Reached(e, p)
      BY <2>3
    <3>2. screen'[e] = screen[e] \cup Head(wire[e]) /\ wire'[e] = Tail(wire[e])
      BY <2>1, <2>3 DEF TypesData
    <3>3. CASE p \in screen[e]
      BY <3>2, <3>3 DEF Reached
    <3>4. ASSUME NEW i \in 1..Len(wire[e]), p \in wire[e][i] PROVE Reached(e, p)'
      <4>1. CASE i = 1
        BY <2>1, <3>2, <3>4, <4>1 DEF Reached
      <4>2. CASE i # 1
        <5>1. i - 1 \in 1..Len(Tail(wire[e])) /\ Tail(wire[e])[i - 1] = wire[e][i]
          BY <2>1, <3>4, <4>2
        <5> QED
          BY <3>2, <3>4, <5>1 DEF Reached
      <4> QED
        BY <4>1, <4>2
    <3> QED
      BY <3>1, <3>3, <3>4 DEF Reached
  <2>4. CASE f = e
    <3>1. Whole(sidOf[e])' = Whole(sidOf[e]) /\ Kept(e)
      BY <2>1 DEF Whole, InWindow, LineEnds, UnderWay
    <3> QED
      BY <2>1, <2>3, <2>4, <3>1 DEF Kept, Streams
  <2> QED
    BY <2>2, <2>4
<1>6. ASSUME NEW e \in Effects, Refused(e) \/ HungUp(e) \/ CloseDone(e) \/ Dropped(e)
      PROVE  UnderWay'
  <2> SUFFICES ASSUME NEW f \in Effects PROVE Kept(f)'
    BY DEF UnderWay
  <2>1. /\ UNCHANGED <<sidOf, screen, term, out>> /\ sock' = [sock EXCEPT ![e] = "closed"]
        /\ wire' = [wire EXCEPT ![e] = <<>>] /\ peer' = [peer EXCEPT ![e] = "none"]
        /\ lost' = [lost EXCEPT ![e] = {}]
    BY <1>6 DEF Refused, HungUp, CloseDone, Dropped, Closed, closures, terms, server
  <2>2. CASE f # e
    BY <2>1, <2>2, KeptAside DEF UnderWay, TypesData
  <2>3. CASE f = e
    BY <2>1, <2>3 DEF Kept, Streams, TypesData
  <2> QED
    BY <2>2, <2>3
<1>7. CASE TypeKey
  BY <1>7, KeptAside DEF TypeKey, UnderWay, closures, terms, server
<1>8. ASSUME NEW s \in Sessions, AgentPrints(s) PROVE UnderWay'
  <2> SUFFICES ASSUME NEW f \in Effects PROVE Kept(f)'
    BY DEF UnderWay
  <2> DEFINE last == out[s] + 1
             new  == <<s, last>>
  <2>1. /\ UNCHANGED <<sidOf, screen, term, sock, peer, hup>> /\ srv[s] = "running"
        /\ out[s] \in Nat /\ out' = [out EXCEPT ![s] = last]
    BY <1>8 DEF AgentPrints, TypesRest, closures, terms
  <2>2. PICK full \in SUBSET Effects :
          /\ full \subseteq Viewers(s)
          /\ wire' = [e \in Effects |-> IF e \in Viewers(s) \ full
                                        THEN Append(wire[e], {new}) ELSE wire[e]]
          /\ lost' = [e \in Effects |-> IF e \in full THEN lost[e] \cup {last} ELSE lost[e]]
    BY <1>8 DEF AgentPrints, Viewers
  <2> SUFFICES ASSUME Streams(f), NEW n \in Whole(sidOf[f])'
               PROVE  Reached(f, <<sidOf[f], n>>)' \/ n \in lost'[f]
    BY <2>1 DEF Kept, Streams
  <2>3. sidOf[f] \in Sessions /\ wire[f] \in Seq(SUBSET Pieces)
    BY DEF TypesControl, TypesData, Scope, Held, Streams
  <2>4. CASE sidOf[f] # s
    <3>1. wire'[f] = wire[f] /\ lost'[f] = lost[f] /\ out'[sidOf[f]] = out[sidOf[f]]
      BY <2>1, <2>2, <2>3, <2>4 DEF Viewers, TypesRest
    <3>2. n \in Whole(sidOf[f])
      BY <2>1, <3>1 DEF Whole, InWindow, LineEnds
    <3> QED
      BY <2>1, <3>1, <3>2 DEF UnderWay, Kept, Reached
  <2>5. CASE sidOf[f] = s
    <3>1. f \in Viewers(s) /\ out'[s] = last
      BY <2>1, <2>5 DEF Viewers, HungIsQuiet, Streams, TypesRest
    <3>2. /\ f \in full => wire'[f] = wire[f] /\ lost'[f] = lost[f] \cup {last}
          /\ f \notin full => wire'[f] = Append(wire[f], {new}) /\ lost'[f] = lost[f]
      BY <2>2, <3>1
    <3>3. ASSUME f \notin full
          PROVE  /\ Len(wire[f]) \in Nat /\ Len(wire'[f]) = Len(wire[f]) + 1
                 /\ wire'[f][Len(wire[f]) + 1] = {new}
                 /\ \A i \in 1..Len(wire[f]) : i \in 1..Len(wire'[f]) /\ wire'[f][i] = wire[f][i]
      BY <2>3, <3>2, <3>3
    <3>4. n = last \/ n \in Whole(s)
      <4>1. /\ n \in 1..last /\ n + Window > last
            /\ \E m \in 1..last : m < n /\ m + Window > last /\ Output[s][m] = "line"
        BY <2>1, <2>5, <3>1 DEF Whole, InWindow, LineEnds
      <4>2. PICK m \in 1..last : m < n /\ m + Window > last /\ Output[s][m] = "line"
        BY <4>1
      <4>5. Window \in Nat /\ out[s] \in Nat
        BY <2>1, TerminalAssumption
      <4>3. n # last => /\ n \in 1..out[s] /\ n + Window > out[s]
                        /\ m \in 1..out[s] /\ m + Window > out[s]
        BY <4>1, <4>2, <4>5
      <4> QED
        BY <4>2, <4>3 DEF Whole, InWindow, LineEnds
    <3>5. CASE n = last
      <4>1. CASE f \in full
        BY <3>2, <3>5, <4>1
      <4>2. CASE f \notin full
        <5>1. Len(wire[f]) + 1 \in 1..Len(wire'[f]) /\ new \in wire'[f][Len(wire[f]) + 1]
          BY <3>3, <4>2
        <5>2. \E i \in 1..Len(wire'[f]) : new \in wire'[f][i]
          BY <5>1
        <5> QED
          BY <2>1, <2>5, <3>5, <5>2 DEF Reached
      <4> QED
        BY <4>1, <4>2
    <3>6. CASE n \in Whole(s)
      <4>1. Reached(f, <<s, n>>) \/ n \in lost[f]
        BY <2>5, <3>6 DEF UnderWay, Kept
      <4>2. CASE f \in full
        BY <2>1, <2>5, <3>2, <4>1, <4>2 DEF Reached
      <4>3. CASE f \notin full
        BY <2>1, <2>5, <3>2, <3>3, <4>1, <4>3 DEF Reached
      <4> QED
        BY <4>2, <4>3
    <3> QED
      BY <3>4, <3>5, <3>6
  <2> QED
    BY <2>4, <2>5
<1>9. ASSUME NEW s \in Sessions, NEW to \in {"exited", "stopped"}, StreamEnds(s, to)
      PROVE  UnderWay'
  BY <1>9, KeptAside DEF StreamEnds, UnderWay, closures, terms
<1>10. CASE UNCHANGED vars
  BY <1>10, KeptAside DEF vars, UnderWay, closures, terms, socks, server
<1> QED
  BY <1>1, <1>2, <1>3, <1>4, <1>5, <1>6, <1>7, <1>8, <1>9, <1>10, <1>11 DEF Next, Browser,
     User, Outside

\* A terminal the server streams to, and that has received what was sent,
\* shows what the buffer holds after the first end of a line in it, whenever
\* it was printed and however often the view was switched or reconnected; but
\* for the pieces dropped while Queue others were on their way to it (ws.go,
\* lines 94-114 and 207-228; broadcaster.go, line 155).
THEOREM NothingIsMissed == Spec => []CaughtUp
<1>1. Init => HungIsQuiet /\ UnderWay
  BY DEF Init, HungIsQuiet, UnderWay, Kept, Streams
<1>2. Shape /\ UnderWay => CaughtUp
  <2> SUFFICES ASSUME UnderWay, NEW e \in Effects, sock[e] = "open", peer[e] = "streaming",
                      wire[e] = <<>>, term[e] = "live", NEW m \in LineEnds(sidOf[e]),
                      NEW n \in InWindow(sidOf[e]), m < n
               PROVE  <<sidOf[e], n>> \in screen[e] \/ n \in lost[e]
    BY DEF CaughtUp, LineEnds
  <2>1. n \in Whole(sidOf[e])
    BY DEF Whole
  <2>2. (Reached(e, <<sidOf[e], n>>) \/ n \in lost[e]) /\ Len(wire[e]) = 0
    BY <2>1 DEF UnderWay, Kept, Streams
  <2> QED
    BY <2>2 DEF Reached
<1>3. Shape /\ HungIsQuiet /\ UnderWay /\ [Next]_vars => (HungIsQuiet /\ UnderWay)'
  BY HungStep, UnderWayStep
<1> QED
  BY <1>1, <1>2, <1>3, Strengthening, PTL DEF Spec
=============================================================================
