-------------------------- MODULE DashboardProofs --------------------------
(***************************************************************************)
(* What holds of the web console for any number of sessions, calls under   *)
(* way, clicks, other tabs and lost answers: its types with the bound on   *)
(* the calls, StoppedIsBacked, SpinnersAreTrue and NoForeignRead.  What    *)
(* the arguments rest on is that the answer to a call stays true: no       *)
(* session that was seen to be stopped runs again.  The last part shows    *)
(* that the server of this model keeps the promise of WorkspaceSessions.   *)
(***************************************************************************)
EXTENDS Dashboard, FiniteSetTheorems, TLAPS

Ops     == PageOps \cup ListOps
Ids     == 0..MaxSid
Numbers == 1..(MaxCalls + 1)
Names   == Workspaces \cup {NoWs}
Stages  == {"sent", "half", "rows", "vols", "back"}
Answers == {"none", "ok", "missing", "failed"}
Creates == {"restart", "page restart", "resume"}

CallType == [op : Ops, id : Ids, ws : Names, to : Names, prev : RowType,
             n : Numbers, live : BOOLEAN, at : Stages, ans : Answers,
             row : RowType, rows : SUBSET RowType, vols : SUBSET Workspaces]

\* A row names a session that was created, and it says that one is stopped
\* only if it is, for good.
Known(r) == r = NoRow \/ (r.id \in Sids /\ srv[r.id] # "none")
Honest(r) == Known(r) /\ (r # NoRow /\ r.st = "stopped" => srv[r.id] \in {"stopped", "gone"})

CallOK(c) ==
  /\ c \in CallType
  /\ c.op \in {"load", "poll"} => route # 0 /\ c.id = route /\ c.row.id \in {0, c.id}
  /\ c.op = "fetch" => c.live
  /\ c.op = "refetch" => c.live
  /\ c.live => (c.op \in ListOps <=> route = 0)
  /\ Honest(c.row) /\ Honest(c.prev)
  /\ \A r \in c.rows : r.id \in Sids
  /\ c.op \in Creates /\ c.ans = "ok" => c.row.id \in Sids
  /\ c.op = "resume" => c.ws \in Workspaces
  /\ c.op = "rename" => c.to \in Workspaces
  /\ c.op \in Creates /\ c.at = "half" => c.id \in Sids /\ srv[c.id] # "none"

\* One call more than MaxCalls only for the read of a navigation.
Reads == {"load", "fetch"}
Cap(cs) ==
  /\ IsFiniteSet(cs) /\ Cardinality(cs) <= MaxCalls + 1
  /\ Cardinality(cs) = MaxCalls + 1 => \E c \in cs : c.op \in Reads

CallsOK == Cap(calls) /\ \A c \in calls : CallOK(c)

ServerOK ==
  /\ srv \in [Sids -> {"none", "running", "stopped", "gone"}]
  /\ wsOf \in [Sids -> Names] /\ vols \subseteq Workspaces
  /\ \A i \in Sids : srv[i] # "none" => wsOf[i] \in Workspaces

RouterOK == route \in 0..MaxSid /\ nav \in 0..Here
BoundsOK == acts \in 0..MaxActs /\ others \in 0..MaxOthers /\ faults \in 0..MaxFaults

LiveOf(O) == {c \in calls : c.op \in O /\ c.live}

\* At most one, and exactly while b holds.
OneWhile(b, S) == (b <=> S # {}) /\ \A c, d \in S : c = d

\* The optimistic state is left before the next Stop can be confirmed.
PageOK ==
  /\ shown \in RowType /\ {loading, confirmStop, confirmDelete, restarting, deleting} \subseteq BOOLEAN
  /\ Known(shown)
  /\ confirmStop => Honest(shown)
  /\ StoppedIsBacked
  /\ OneWhile(restarting, LiveOf({"page restart"}))
  /\ OneWhile(deleting, LiveOf({"page delete", "refetch"}))

\* A list without a row of its own is not shown.
ListOK ==
  /\ rows \subseteq RowType /\ saved \subseteq Workspaces /\ {listLoading, blank} \subseteq BOOLEAN
  /\ confirmAction = <<>> \/ confirmAction \in {"stop", "delete"} \X Sids
  /\ {resumingId, renameTarget} \subseteq Names
  /\ \A r \in rows : (r = NoRow /\ blank) \/ r.id \in Sids
  /\ resumingId # NoWs => \E c \in LiveOf({"resume"}) : c.ws = resumingId

ConsoleInv == CallsOK /\ ServerOK /\ RouterOK /\ BoundsOK /\ PageOK /\ ListOK

----------------------------------------------------------------------------
(* The calls under way, counted.                                           *)

LEMMA Nats ==
  /\ MaxSid \in Nat /\ 1 \in Sids /\ MaxCalls \in Nat /\ MaxActs \in Nat /\ MaxOthers \in Nat /\ MaxFaults \in Nat
  /\ Here = MaxSid + 1 /\ Sids \subseteq 0..MaxSid /\ 0 \notin Sids /\ Here \notin Sids
  /\ NoWs \notin Workspaces /\ FirstWs \in Workspaces
  BY ApiAssumption DEF Here, Sids

LEMMA Pigeon ==
  ASSUME NEW S, IsFiniteSet(S)
  PROVE  \E m \in 1..(Cardinality(S) + 1) : m \notin S
<1> DEFINE k == Cardinality(S)
<1>1. k \in Nat
  BY FS_CardinalityType
<1>2. IsFiniteSet(1..(k + 1)) /\ Cardinality(1..(k + 1)) = k + 1
  BY <1>1, FS_Interval
<1>3. ASSUME 1..(k + 1) \subseteq S PROVE FALSE
  <2>1. Cardinality(1..(k + 1)) <= k
    BY <1>3, FS_Subset
  <2> QED
    BY <1>1, <1>2, <2>1
<1> QED
  BY <1>3

\* The image of a finite set.
LEMMA ImageIsNoLarger ==
  ASSUME NEW S, IsFiniteSet(S), NEW f, f = [x \in S |-> f[x]], NEW T, T = {f[x] : x \in S}
  PROVE  IsFiniteSet(T) /\ Cardinality(T) <= Cardinality(S)
<1>1. f \in Surjection(S, T)
  BY DEF Surjection
<1> QED
  BY <1>1, FS_Surjection

\* The parts of a call that its sender and With fill in.
Numbered(k, m) == [k EXCEPT !.n = m]
Remembering(k, p) == [k EXCEPT !.prev = p]
RenamingTo(k, w) == [k EXCEPT !.to = w]

\* A call that is sent differs from the others in its number.
LEMMA WithIs ==
  ASSUME NEW cs, IsFiniteSet(cs), NEW k
  PROVE  \E m \in 1..(Cardinality(cs) + 1) : With(cs, k) = cs \cup {Numbered(k, m)}
<1> DEFINE same == {e \in cs : e.op = k.op}
           taken == {d.n : d \in same}
           number == CHOOSE n \in 1..(Cardinality(taken) + 1) : n \notin taken
<1>1. IsFiniteSet(same) /\ Cardinality(same) <= Cardinality(cs)
  BY FS_Subset
<1>2. IsFiniteSet(taken) /\ Cardinality(taken) <= Cardinality(same)
  <2> DEFINE f == [d \in same |-> d.n]
  <2>1. taken = {f[d] : d \in same} /\ f = [d \in same |-> f[d]]
    OBVIOUS
  <2> HIDE DEF f, same, taken
  <2> QED
    BY <1>1, <2>1, ImageIsNoLarger
<1>3. Cardinality(cs) \in Nat /\ Cardinality(same) \in Nat /\ Cardinality(taken) \in Nat
  BY <1>1, <1>2, FS_CardinalityType
<1>4. number \in 1..(Cardinality(taken) + 1)
  BY <1>2, Pigeon
<1>5. number \in 1..(Cardinality(cs) + 1)
  BY <1>1, <1>2, <1>3, <1>4
<1>6. With(cs, k) = cs \cup {Numbered(k, number)}
  BY DEF With, Numbered
<1> QED
  BY <1>5, <1>6

LEMMA CapFacts ==
  ASSUME NEW cs, Cap(cs)
  PROVE  IsFiniteSet(cs) /\ Cardinality(cs) \in Nat
  BY FS_CardinalityType DEF Cap

\* A call is sent when there is room, or for a navigation.
LEMMA CapAdded ==
  ASSUME NEW cs, IsFiniteSet(cs), NEW d,
         Cardinality(cs) < MaxCalls \/ (Cardinality(cs) <= MaxCalls /\ d.op \in Reads)
  PROVE  Cap(cs \cup {d})
<1>1. Cardinality(cs) \in Nat /\ MaxCalls \in Nat
  BY FS_CardinalityType, Nats
<1>2. IsFiniteSet(cs \cup {d}) /\ Cardinality(cs \cup {d}) \in {Cardinality(cs), Cardinality(cs) + 1}
  BY FS_AddElement
<1>3. Cardinality(cs \cup {d}) <= MaxCalls + 1
  BY <1>1, <1>2
<1>4. Cardinality(cs \cup {d}) = MaxCalls + 1 => d.op \in Reads
  BY <1>1, <1>2
<1> QED
  BY <1>2, <1>3, <1>4 DEF Cap

LEMMA CapRemoved ==
  ASSUME NEW cs, Cap(cs), NEW c \in cs
  PROVE  /\ IsFiniteSet(cs \ {c}) /\ Cardinality(cs \ {c}) <= MaxCalls
         /\ Cardinality(cs \ {c}) = MaxCalls => Cardinality(cs) = MaxCalls + 1
         /\ Cap(cs \ {c})
<1>1. Cardinality(cs) \in Nat /\ MaxCalls \in Nat
  BY CapFacts, Nats
<1>2. IsFiniteSet(cs \ {c}) /\ Cardinality(cs \ {c}) = Cardinality(cs) - 1
  BY CapFacts, FS_RemoveElement
<1> QED
  BY <1>1, <1>2 DEF Cap

\* One call in the place of another.
LEMMA CapReplaced ==
  ASSUME NEW cs, Cap(cs), NEW c \in cs, NEW d, c.op \in Reads => d.op \in Reads
  PROVE  Cap((cs \ {c}) \cup {d})
<1>1. CASE Cardinality(cs \ {c}) < MaxCalls
  BY <1>1, CapRemoved, CapAdded
<1>2. CASE Cardinality(cs \ {c}) = MaxCalls
  <2>1. PICK l \in cs : l.op \in Reads
    BY <1>2, CapRemoved DEF Cap
  <2>2. CASE l = c
    BY <1>2, <2>1, <2>2, CapRemoved, CapAdded
  <2>3. CASE l # c
    <3>1. l \in (cs \ {c}) \cup {d}
      BY <2>3
    <3>2. IsFiniteSet((cs \ {c}) \cup {d}) /\ Cardinality((cs \ {c}) \cup {d}) \in {MaxCalls, MaxCalls + 1}
      BY <1>2, CapRemoved, FS_AddElement
    <3> QED
      BY <2>1, <3>1, <3>2, Nats DEF Cap
  <2> QED
    BY <2>2, <2>3
<1>3. Cardinality(cs \ {c}) \in Nat /\ MaxCalls \in Nat
  BY CapRemoved, FS_CardinalityType, Nats
<1> QED
  BY <1>1, <1>2, <1>3, CapRemoved

----------------------------------------------------------------------------
(* What one step does to the calls, and what it leaves as it is.           *)

\* No session that was created is forgotten, and none that ended runs again.
ServerMoves ==
  \A i \in Sids : /\ srv[i] # "none" => srv'[i] # "none"
                  /\ srv[i] \in {"stopped", "gone"} => srv'[i] \in {"stopped", "gone"}

LEMMA StillKnown ==
  ASSUME NEW r, ServerMoves
  PROVE  (Known(r) => Known(r)') /\ (Honest(r) => Honest(r)')
  BY DEF Known, Honest, ServerMoves, NoRow

LEMMA StillOK ==
  ASSUME NEW c, CallOK(c), ServerMoves, route' = route
  PROVE  CallOK(c)'
<1>1. Honest(c.row)' /\ Honest(c.prev)'
  BY StillKnown DEF CallOK
<1>2. c.op \in Creates /\ c.at = "half" => c.id \in Sids /\ srv'[c.id] # "none"
  BY DEF CallOK, ServerMoves
<1> QED
  BY <1>1, <1>2 DEF CallOK

LEMMA NoRowIs == NoRow \in RowType /\ Known(NoRow) /\ Honest(NoRow) /\ NoRow.id = 0 /\ NoRow.st = "none"
  BY Nats DEF NoRow, RowType, Known, Honest

\* What a component may send.
Fresh(c) == c \in CallType /\ c.live = TRUE /\ c.at = "sent" /\ c.ans = "none" /\ c.row = NoRow /\ c.rows = {}

LEMMA FieldsFresh ==
  ASSUME NEW c, c.live = TRUE, c.at = "sent", c.ans = "none", c.row = NoRow, c.rows = {}, c.vols = {},
         c.op \in Ops, c.id \in Ids, c.ws \in Names, c.n \in Numbers,
         c.to \in Names \/ c.to = NoWs, c.prev \in RowType \/ c.prev = NoRow,
         c = [op |-> c.op, id |-> c.id, ws |-> c.ws, to |-> c.to, prev |-> c.prev, n |-> c.n, live |-> c.live,
              at |-> c.at, ans |-> c.ans, row |-> c.row, rows |-> c.rows, vols |-> c.vols]
  PROVE  Fresh(c)
<1>1. c.to \in Names /\ c.prev \in RowType
  BY NoRowIs DEF Names
<1> QED
  BY <1>1, NoRowIs DEF Fresh, CallType, Stages, Answers

LEMMA PlainCallIs ==
  ASSUME NEW op \in Ops, NEW id \in Ids, NEW w \in Names, NEW m \in Numbers,
         NEW c, c = Numbered(Call(op, id, w), m)
  PROVE  Fresh(c) /\ c.op = op /\ c.id = id /\ c.ws = w /\ c.prev = NoRow
<1>1. /\ c.live = TRUE /\ c.at = "sent" /\ c.ans = "none" /\ c.row = NoRow /\ c.rows = {} /\ c.vols = {} /\ c.n = m
      /\ c.op = op /\ c.id = id /\ c.ws = w /\ c.to = NoWs /\ c.prev = NoRow
  BY DEF Call, Numbered, RenamingTo, Remembering
<1>2. c = [op |-> c.op, id |-> c.id, ws |-> c.ws, to |-> c.to, prev |-> c.prev, n |-> c.n, live |-> c.live,
           at |-> c.at, ans |-> c.ans, row |-> c.row, rows |-> c.rows, vols |-> c.vols]
  BY DEF Call, Numbered, RenamingTo, Remembering
<1>3. /\ c.op \in Ops /\ c.id \in Ids /\ c.ws \in Names /\ c.n \in Numbers
      /\ c.to \in Names \/ c.to = NoWs
      /\ c.prev \in RowType \/ c.prev = NoRow
  BY <1>1
<1>4. Fresh(c)
  BY ONLY <1>1, <1>2, <1>3, FieldsFresh
<1> QED
  BY <1>1, <1>4

LEMMA RenamingCallIs ==
  ASSUME NEW op \in Ops, NEW id \in Ids, NEW w \in Names, NEW m \in Numbers, NEW to \in Names,
         NEW c, c = Numbered(RenamingTo(Call(op, id, w), to), m)
  PROVE  Fresh(c) /\ c.op = op /\ c.id = id /\ c.ws = w /\ c.to = to /\ c.prev = NoRow
<1>1. /\ c.live = TRUE /\ c.at = "sent" /\ c.ans = "none" /\ c.row = NoRow /\ c.rows = {} /\ c.vols = {} /\ c.n = m
      /\ c.op = op /\ c.id = id /\ c.ws = w /\ c.to = to /\ c.prev = NoRow
  BY DEF Call, Numbered, RenamingTo, Remembering
<1>2. c = [op |-> c.op, id |-> c.id, ws |-> c.ws, to |-> c.to, prev |-> c.prev, n |-> c.n, live |-> c.live,
           at |-> c.at, ans |-> c.ans, row |-> c.row, rows |-> c.rows, vols |-> c.vols]
  BY DEF Call, Numbered, RenamingTo, Remembering
<1>3. /\ c.op \in Ops /\ c.id \in Ids /\ c.ws \in Names /\ c.n \in Numbers
      /\ c.to \in Names \/ c.to = NoWs
      /\ c.prev \in RowType \/ c.prev = NoRow
  BY <1>1
<1>4. Fresh(c)
  BY ONLY <1>1, <1>2, <1>3, FieldsFresh
<1> QED
  BY <1>1, <1>4

LEMMA StoppingCallIs ==
  ASSUME NEW op \in Ops, NEW id \in Ids, NEW w \in Names, NEW m \in Numbers, NEW prev \in RowType,
         NEW c, c = Numbered(Remembering(Call(op, id, w), prev), m)
  PROVE  Fresh(c) /\ c.op = op /\ c.id = id /\ c.ws = w /\ c.prev = prev
<1>1. /\ c.live = TRUE /\ c.at = "sent" /\ c.ans = "none" /\ c.row = NoRow /\ c.rows = {} /\ c.vols = {} /\ c.n = m
      /\ c.op = op /\ c.id = id /\ c.ws = w /\ c.to = NoWs /\ c.prev = prev
  BY DEF Call, Numbered, RenamingTo, Remembering
<1>2. c = [op |-> c.op, id |-> c.id, ws |-> c.ws, to |-> c.to, prev |-> c.prev, n |-> c.n, live |-> c.live,
           at |-> c.at, ans |-> c.ans, row |-> c.row, rows |-> c.rows, vols |-> c.vols]
  BY DEF Call, Numbered, RenamingTo, Remembering
<1>3. /\ c.op \in Ops /\ c.id \in Ids /\ c.ws \in Names /\ c.n \in Numbers
      /\ c.to \in Names \/ c.to = NoWs
      /\ c.prev \in RowType \/ c.prev = NoRow
  BY <1>1
<1>4. Fresh(c)
  BY ONLY <1>1, <1>2, <1>3, FieldsFresh
<1> QED
  BY <1>1, <1>4

LEMMA FreshOK ==
  ASSUME NEW c, Fresh(c), Honest(c.prev),
         c.op \in {"load", "poll"} => c.id = route,
         c.op \in ListOps <=> route = 0,
         c.op = "resume" => c.ws \in Workspaces, c.op = "rename" => c.to \in Workspaces
  PROVE  CallOK(c)
<1>1. Honest(c.row) /\ c.row.id = 0
  BY NoRowIs DEF Fresh
<1>2. c.op \in {"load", "poll"} => route # 0 /\ c.id = route /\ c.row.id \in {0, c.id}
  BY <1>1 DEF ListOps
<1>3. c.op \in Creates /\ c.ans = "ok" => c.row.id \in Sids
  BY DEF Fresh
<1>4. c.op \in Creates /\ c.at = "half" => c.id \in Sids /\ srv[c.id] # "none"
  BY DEF Fresh
<1>5. c \in CallType /\ c.live /\ \A r \in c.rows : r.id \in Sids
  BY DEF Fresh
<1> HIDE DEF Fresh
<1> QED
  BY <1>1, <1>2, <1>3, <1>4, <1>5 DEF CallOK

LEMMA Sent ==
  ASSUME Cap(calls), NEW k, Send(k)
  PROVE  /\ Cardinality(calls) < MaxCalls
         /\ \E m \in Numbers : calls' = calls \cup {Numbered(k, m)}
<1>1. PICK m \in 1..(Cardinality(calls) + 1) : With(calls, k) = calls \cup {Numbered(k, m)}
  BY CapFacts, WithIs
<1>2. m \in Numbers
  BY CapFacts, Nats DEF Cap, Send, Numbers
<1> QED
  BY <1>1, <1>2 DEF Send

LEMMA CallsKept ==
  ASSUME CallsOK, ServerMoves, route' = route, calls' = calls
  PROVE  CallsOK'
<1>1. \A c \in calls : CallOK(c)'
  BY StillOK DEF CallsOK
<1> QED
  BY <1>1 DEF CallsOK, Cap

LEMMA CallsAdded ==
  ASSUME CallsOK, ServerMoves, route' = route, Cardinality(calls) < MaxCalls,
         NEW d, CallOK(d), calls' = calls \cup {d}
  PROVE  CallsOK'
<1>1. \A c \in calls \cup {d} : CallOK(c)'
  BY StillOK DEF CallsOK
<1>2. Cap(calls \cup {d})
  BY CapFacts, CapAdded DEF CallsOK
<1> QED
  BY <1>1, <1>2 DEF CallsOK, Cap

LEMMA CallsRemoved ==
  ASSUME CallsOK, ServerMoves, route' = route, NEW c \in calls, calls' = calls \ {c}
  PROVE  CallsOK'
<1>1. \A e \in calls \ {c} : CallOK(e)'
  BY StillOK DEF CallsOK
<1>2. Cap(calls \ {c})
  BY CapRemoved DEF CallsOK
<1> QED
  BY <1>1, <1>2 DEF CallsOK, Cap

LEMMA CallsReplaced ==
  ASSUME CallsOK, ServerMoves, route' = route, NEW c \in calls, NEW d, CallOK(d)',
         c.op \in Reads => d.op \in Reads, calls' = (calls \ {c}) \cup {d}
  PROVE  CallsOK'
<1>1. \A e \in (calls \ {c}) \cup {d} : CallOK(e)'
  BY StillOK DEF CallsOK
<1>2. Cap((calls \ {c}) \cup {d})
  BY CapReplaced DEF CallsOK
<1> QED
  BY <1>1, <1>2 DEF CallsOK, Cap

\* A call whose answer makes its component send another one.
LEMMA Refilled ==
  ASSUME CallsOK, NEW c \in calls, NEW k
  PROVE  \E m \in Numbers : With(calls \ {c}, k) = (calls \ {c}) \cup {Numbered(k, m)}
<1>1. IsFiniteSet(calls \ {c}) /\ Cardinality(calls \ {c}) <= MaxCalls /\ Cardinality(calls \ {c}) \in Nat
  BY CapRemoved, FS_CardinalityType DEF CallsOK
<1>2. PICK m \in 1..(Cardinality(calls \ {c}) + 1) :
        With(calls \ {c}, k) = (calls \ {c}) \cup {Numbered(k, m)}
  BY <1>1, WithIs
<1>3. m \in Numbers
  BY <1>1, Nats DEF Numbers
<1> QED
  BY <1>2, <1>3

\* A call that goes on at the server, or is answered.
Keeps(c, d) ==
  d.op = c.op /\ d.id = c.id /\ d.ws = c.ws /\ d.live = c.live /\ d.prev = c.prev

PageActs == {"page stop", "page restart", "page delete", "refetch"}

\* The page is not concerned.
LEMMA PageAside ==
  ASSUME ServerOK, PageOK, UNCHANGED page, ServerMoves, LiveOf(PageActs)' = LiveOf(PageActs)
  PROVE  PageOK'
<1> PICK r : r = shown
  OBVIOUS
<1>1. shown' = r /\ Known(r)' /\ (confirmStop => Honest(r)')
  BY StillKnown DEF PageOK, page
<1>2. \A O \in SUBSET PageActs : LiveOf(O)' = LiveOf(O)
  BY DEF LiveOf
<1>3. {"page restart"} \in SUBSET PageActs /\ {"page delete", "refetch"} \in SUBSET PageActs
  BY DEF PageActs
<1>4. OneWhile(restarting, LiveOf({"page restart"}))' /\ OneWhile(deleting, LiveOf({"page delete", "refetch"}))'
  BY <1>2, <1>3 DEF PageOK, OneWhile, page
<1>5. ASSUME NEW i \in Sids, shown.id = i, shown.st = "stopped", srv'[i] = "running"
      PROVE  \E c \in calls' : c.op = "page stop" /\ c.live /\ c.prev.id = i
  <2>1. srv[i] = "running"
    <3>1. srv[i] \in {"none", "running", "stopped", "gone"}
      BY DEF ServerOK
    <3>2. srv[i] # "none"
      BY <1>5, Nats, NoRowIs DEF PageOK, Known
    <3> QED
      BY <1>5, <3>1, <3>2 DEF ServerMoves
  <2>2. PICK c \in calls : c.op = "page stop" /\ c.live /\ c.prev.id = i
    BY <1>5, <2>1 DEF PageOK, StoppedIsBacked
  <2>3. c \in LiveOf(PageActs)'
    BY <2>2 DEF LiveOf, PageActs
  <2> QED
    BY <2>2, <2>3 DEF LiveOf
<1> QED
  BY <1>1, <1>4, <1>5 DEF PageOK, page, StoppedIsBacked

LEMMA PageServed ==
  ASSUME ServerOK, PageOK, UNCHANGED page, ServerMoves,
         NEW c \in calls, NEW d, Keeps(c, d), calls' = (calls \ {c}) \cup {d}
  PROVE  PageOK'
<1> PICK r : r = shown
  OBVIOUS
<1>1. shown' = r /\ Known(r)' /\ (confirmStop => Honest(r)')
  BY StillKnown DEF PageOK, page
<1>2. \A O : LiveOf(O)' = IF c \in LiveOf(O) THEN (LiveOf(O) \ {c}) \cup {d}
                          ELSE LiveOf(O)
  BY DEF LiveOf, Keeps
<1>3. OneWhile(restarting, LiveOf({"page restart"}))'
  BY <1>2 DEF PageOK, OneWhile, page
<1>4. OneWhile(deleting, LiveOf({"page delete", "refetch"}))'
  BY <1>2 DEF PageOK, OneWhile, page
<1>5. ASSUME NEW i \in Sids, shown.id = i, shown.st = "stopped", srv'[i] = "running"
      PROVE  \E e \in calls' : e.op = "page stop" /\ e.live /\ e.prev.id = i
  <2>1. srv[i] = "running"
    <3>1. srv[i] \in {"none", "running", "stopped", "gone"}
      BY DEF ServerOK
    <3>2. srv[i] # "none"
      BY <1>5, Nats, NoRowIs DEF PageOK, Known
    <3> QED
      BY <1>5, <3>1, <3>2 DEF ServerMoves
  <2>2. PICK e \in calls : e.op = "page stop" /\ e.live /\ e.prev.id = i
    BY <1>5, <2>1 DEF PageOK, StoppedIsBacked
  <2> QED
    BY <2>2 DEF Keeps
<1> QED
  BY <1>1, <1>3, <1>4, <1>5 DEF PageOK, page, StoppedIsBacked

\* The list is not concerned.
LEMMA ListAside ==
  ASSUME ListOK, UNCHANGED list,
         \A c \in LiveOf({"resume"}) : \E d \in LiveOf({"resume"})' : d.ws = c.ws
  PROVE  ListOK'
  BY DEF ListOK, list

----------------------------------------------------------------------------
(* The page: what its user and its timer do.                               *)

LEMMA Kinds ==
  /\ PageActs \subseteq PageOps /\ PageOps \cap ListOps = {}
  /\ PageOps \subseteq Ops /\ ListOps \subseteq Ops /\ "load" \in PageOps /\ "poll" \in PageOps
  /\ PageOps = PageActs \cup {"load", "poll"}
  BY DEF PageActs, PageOps, ListOps, Ops

LEMMA ServerStays ==
  ASSUME ServerOK, UNCHANGED server
  PROVE  ServerMoves /\ ServerOK'
  BY DEF ServerOK, ServerMoves, server

LEMMA ActsOnce == ASSUME BoundsOK, Act PROVE BoundsOK'
  BY Nats DEF BoundsOK, Act

LEMMA BoundsStay == ASSUME BoundsOK, UNCHANGED bounds PROVE BoundsOK'
  BY DEF BoundsOK, bounds

LEMMA RouterStays == ASSUME RouterOK, UNCHANGED router PROVE RouterOK'
  BY DEF RouterOK, router

\* A call that is sent by the component that is mounted.
LEMMA SendsOK ==
  ASSUME CallsOK, ServerMoves, route' = route, NEW k, Send(k),
         \A m \in Numbers : CallOK(Numbered(k, m))
  PROVE  CallsOK'
<1>1. PICK m \in Numbers : calls' = calls \cup {Numbered(k, m)}
  BY Sent DEF CallsOK
<1>2. Cardinality(calls) < MaxCalls
  BY DEF Send
<1> QED
  BY <1>1, <1>2, CallsAdded

\* What is shown stays, or is read anew.
LEMMA PageMoves ==
  ASSUME ServerOK, PageOK, UNCHANGED server, {loading, confirmStop, confirmDelete, restarting, deleting}' \subseteq BOOLEAN,
         OneWhile(restarting, LiveOf({"page restart"}))',
         OneWhile(deleting, LiveOf({"page delete", "refetch"}))',
         \/ /\ \E r \in RowType : Honest(r) /\ shown' = r
         \/ /\ shown' = shown /\ (confirmStop' => Honest(shown))
            /\ \A e \in calls : e.op = "page stop" /\ e.live => e \in calls'
  PROVE  PageOK'
<1> PICK old : old = shown
  OBVIOUS
<1>1. ServerMoves
  BY ServerStays
<1>2. CASE \E r \in RowType : Honest(r) /\ shown' = r
  <2>1. PICK r \in RowType : Honest(r) /\ shown' = r
    BY <1>2
  <2>2. Honest(r)' /\ Known(r)'
    BY <1>1, <2>1, StillKnown DEF Honest
  <2>3. StoppedIsBacked'
    BY <2>1, <2>2, Nats, NoRowIs DEF StoppedIsBacked, Honest, Known
  <2> QED
    BY <2>1, <2>2, <2>3 DEF PageOK
<1>3. CASE /\ shown' = shown /\ (confirmStop' => Honest(shown))
           /\ \A e \in calls : e.op = "page stop" /\ e.live => e \in calls'
  <2>1. shown' = old /\ Known(old)' /\ (confirmStop' => Honest(old)') /\ old \in RowType
    BY <1>1, <1>3, StillKnown DEF PageOK
  <2>2. StoppedIsBacked'
    BY <1>3 DEF PageOK, StoppedIsBacked, server
  <2> QED
    BY <2>1, <2>2 DEF PageOK
<1> QED
  BY <1>2, <1>3

LEMMA Dialogs ==
  ASSUME ConsoleInv, AskStop \/ AskDelete \/ Cancel
  PROVE  CallsOK' /\ PageOK'
<1>1. UNCHANGED <<server, calls, route, shown, restarting, deleting>>
      /\ {loading, confirmStop, confirmDelete, restarting, deleting}' \subseteq BOOLEAN
  BY DEF ConsoleInv, PageOK, AskStop, AskDelete, Cancel, router
<1>2. confirmStop' => Honest(shown)
  BY DEF AskStop, AskDelete, Cancel, Offers, HeaderOffers, OverlayOffers, Start, IsRunning, ConsoleInv, PageOK, Honest
<1>3. CallsOK'
  BY <1>1, ServerStays, CallsKept DEF ConsoleInv
<1>4. OneWhile(restarting, LiveOf({"page restart"}))' /\ OneWhile(deleting, LiveOf({"page delete", "refetch"}))'
  BY <1>1 DEF ConsoleInv, PageOK, OneWhile, LiveOf
<1> QED
  BY <1>1, <1>2, <1>3, <1>4, PageMoves DEF ConsoleInv

LEMMA OnPage ==
  ASSUME RouterOK, route \in Sids
  PROVE  route \in Ids /\ route # 0
  BY Nats DEF RouterOK, Ids

\* A call about the session of the page.
LEMMA PageAsks ==
  ASSUME ConsoleInv, NEW op \in PageOps, NEW m \in Numbers, route \in Sids,
         NEW c, c = Numbered(Call(op, route, NoWs), m)
  PROVE  CallOK(c) /\ c.op = op /\ c.live
<1>1. op \in Ops /\ op \notin ListOps /\ op # "fetch" /\ op # "resume" /\ op # "rename"
  BY Kinds DEF ListOps
<1>2. NoWs \in Names /\ route \in Ids /\ route # 0
  BY OnPage DEF Names, ConsoleInv
<1>3. Fresh(c) /\ c.op = op /\ c.id = route /\ c.prev = NoRow
  BY <1>1, <1>2, PlainCallIs
<1> QED
  BY <1>1, <1>2, <1>3, NoRowIs, FreshOK DEF Fresh

LEMMA PageAsksWith ==
  ASSUME ConsoleInv, NEW op \in PageOps, NEW m \in Numbers, route \in Sids,
         NEW prev \in RowType, Honest(prev),
         NEW c, c = Numbered(Remembering(Call(op, route, NoWs), prev), m)
  PROVE  CallOK(c) /\ c.op = op /\ c.live /\ c.prev = prev
<1>1. op \in Ops /\ op \notin ListOps /\ op # "fetch" /\ op # "resume" /\ op # "rename"
  BY Kinds DEF ListOps
<1>2. NoWs \in Names /\ route \in Ids /\ route # 0
  BY OnPage DEF Names, ConsoleInv
<1>3. Fresh(c) /\ c.op = op /\ c.id = route /\ c.prev = prev
  BY <1>1, <1>2, StoppingCallIs
<1> QED
  BY <1>1, <1>2, <1>3, FreshOK DEF Fresh

LEMMA Stops ==
  ASSUME ConsoleInv, HandleStop
  PROVE  CallsOK' /\ PageOK'
<1> DEFINE k == Remembering(Call("page stop", route, NoWs), shown)
<1>0. route \in Sids /\ shown \in RowType /\ Honest(shown)
  BY DEF HandleStop, Displayed, ConsoleInv, PageOK
<1>1. route \in Sids /\ Send(k) /\ shown \in RowType /\ Honest(shown) /\ route' = route /\ UNCHANGED server
      /\ shown # NoRow
  BY DEF HandleStop, Displayed, ConsoleInv, PageOK, router, Remembering
<1>2. \A m \in Numbers : CallOK(Numbered(k, m)) /\ Numbered(k, m).op = "page stop"
                        /\ Numbered(k, m).live /\ Numbered(k, m).prev = shown
  <2> TAKE m \in Numbers
  <2>1. \A op \in PageOps : LET c == Numbered(Remembering(Call(op, route, NoWs), shown), m)
                            IN  CallOK(c) /\ c.op = op /\ c.live /\ c.prev = shown
    BY <1>0, PageAsksWith
  <2>2. "page stop" \in PageOps
    BY DEF PageOps
  <2> QED
    BY <2>1, <2>2, Zenon
<1> PICK old : old = shown
  OBVIOUS
<1>3. ServerMoves
  BY <1>1, ServerStays DEF ConsoleInv
<1>4. PICK m \in Numbers : calls' = calls \cup {Numbered(k, m)}
  BY <1>1, Sent DEF ConsoleInv, CallsOK
<1> PICK d : d = Numbered(k, m)
  OBVIOUS
<1>5. d.op = "page stop" /\ d.live /\ d.prev = old /\ calls' = calls \cup {d}
  BY <1>2, <1>4
<1>6. CallsOK'
  BY <1>1, <1>2, <1>3, SendsOK DEF ConsoleInv
<1> HIDE DEF k
<1>7. OneWhile(restarting, LiveOf({"page restart"}))' /\ OneWhile(deleting, LiveOf({"page delete", "refetch"}))'
  <2>1. LiveOf({"page restart"})' = LiveOf({"page restart"})
        /\ LiveOf({"page delete", "refetch"})' = LiveOf({"page delete", "refetch"})
    BY <1>5 DEF LiveOf
  <2> QED
    BY <2>1 DEF ConsoleInv, PageOK, OneWhile, HandleStop
<1>8. shown' = [old EXCEPT !.st = "stopped"] /\ confirmStop' = FALSE
      /\ UNCHANGED <<loading, confirmDelete, restarting, deleting>>
  BY DEF HandleStop
<1>9. shown' \in RowType /\ Known(shown)' /\ shown'.id = old.id
  <2>1. old.id \in Sids /\ srv[old.id] # "none" /\ old \in RowType
    BY <1>1 DEF Honest, Known
  <2>2. shown' \in RowType /\ shown'.id = old.id
    BY <1>8, <2>1 DEF RowType
  <2>3. srv'[old.id] # "none"
    BY <1>3, <2>1 DEF ServerMoves
  <2> QED
    BY <2>1, <2>2, <2>3 DEF Known
<1>10. StoppedIsBacked'
  BY <1>5, <1>9 DEF StoppedIsBacked
<1> QED
  BY <1>6, <1>7, <1>8, <1>9, <1>10 DEF PageOK, ConsoleInv

LEMMA Restarts ==
  ASSUME ConsoleInv, HandleRestart
  PROVE  CallsOK' /\ PageOK'
<1> DEFINE k == Call("page restart", route, NoWs)
<1>1. route \in Sids /\ Send(k) /\ route' = route /\ UNCHANGED server /\ ~restarting /\ restarting' = TRUE
      /\ UNCHANGED <<shown, loading, confirmStop, confirmDelete, deleting>>
  BY DEF HandleRestart, Offers, Uncovered, Displayed, HeaderOffers, OverlayOffers, Start, router
<1>2. \A m \in Numbers :
         CallOK(Numbered(k, m)) /\ Numbered(k, m).op = "page restart" /\ Numbered(k, m).live
  BY <1>1, PageAsks DEF PageOps
<1>3. ServerMoves
  BY <1>1, ServerStays DEF ConsoleInv
<1>4. PICK m \in Numbers : calls' = calls \cup {Numbered(k, m)}
  BY <1>1, Sent DEF ConsoleInv, CallsOK
<1> PICK d : d = Numbered(k, m)
  OBVIOUS
<1>5. d.op = "page restart" /\ d.live /\ calls' = calls \cup {d}
  BY <1>2, <1>4
<1>6. CallsOK'
  BY <1>1, <1>2, <1>3, SendsOK DEF ConsoleInv
<1> HIDE DEF k
<1>7. OneWhile(restarting, LiveOf({"page restart"}))' /\ OneWhile(deleting, LiveOf({"page delete", "refetch"}))'
  <2>1. LiveOf({"page restart"})' = LiveOf({"page restart"}) \cup {d}
        /\ LiveOf({"page delete", "refetch"})' = LiveOf({"page delete", "refetch"})
    BY <1>5 DEF LiveOf
  <2>2. LiveOf({"page restart"}) = {}
    BY <1>1 DEF ConsoleInv, PageOK, OneWhile
  <2> QED
    BY <1>1, <2>1, <2>2 DEF ConsoleInv, PageOK, OneWhile
<1>8. {loading, confirmStop, confirmDelete, restarting, deleting}' \subseteq BOOLEAN /\ (confirmStop' => Honest(shown))
  BY <1>1 DEF ConsoleInv, PageOK
<1> QED
  BY <1>1, <1>5, <1>6, <1>7, <1>8, PageMoves DEF ConsoleInv

LEMMA Deletes ==
  ASSUME ConsoleInv, HandleDelete
  PROVE  CallsOK' /\ PageOK'
<1> DEFINE k == Call("page delete", route, NoWs)
<1>1. route \in Sids /\ Send(k) /\ route' = route /\ UNCHANGED server /\ ~deleting /\ deleting' = TRUE
      /\ confirmDelete' = FALSE /\ UNCHANGED <<shown, loading, confirmStop, restarting>>
  BY DEF HandleDelete, Displayed, router
<1>2. \A m \in Numbers :
         CallOK(Numbered(k, m)) /\ Numbered(k, m).op = "page delete" /\ Numbered(k, m).live
  BY <1>1, PageAsks DEF PageOps
<1>3. ServerMoves
  BY <1>1, ServerStays DEF ConsoleInv
<1>4. PICK m \in Numbers : calls' = calls \cup {Numbered(k, m)}
  BY <1>1, Sent DEF ConsoleInv, CallsOK
<1> PICK d : d = Numbered(k, m)
  OBVIOUS
<1>5. d.op = "page delete" /\ d.live /\ calls' = calls \cup {d}
  BY <1>2, <1>4
<1>6. CallsOK'
  BY <1>1, <1>2, <1>3, SendsOK DEF ConsoleInv
<1> HIDE DEF k
<1>7. OneWhile(restarting, LiveOf({"page restart"}))' /\ OneWhile(deleting, LiveOf({"page delete", "refetch"}))'
  <2>1. LiveOf({"page restart"})' = LiveOf({"page restart"})
        /\ LiveOf({"page delete", "refetch"})' = LiveOf({"page delete", "refetch"}) \cup {d}
    BY <1>5 DEF LiveOf
  <2>2. LiveOf({"page delete", "refetch"}) = {}
    BY <1>1 DEF ConsoleInv, PageOK, OneWhile
  <2> QED
    BY <1>1, <2>1, <2>2 DEF ConsoleInv, PageOK, OneWhile
<1>8. {loading, confirmStop, confirmDelete, restarting, deleting}' \subseteq BOOLEAN /\ (confirmStop' => Honest(shown))
  BY <1>1 DEF ConsoleInv, PageOK
<1> QED
  BY <1>1, <1>5, <1>6, <1>7, <1>8, PageMoves DEF ConsoleInv

LEMMA Polls ==
  ASSUME ConsoleInv, PollPage
  PROVE  CallsOK' /\ PageOK'
<1> DEFINE k == Call("poll", route, NoWs)
<1>1. route \in Sids /\ Send(k) /\ route' = route /\ UNCHANGED <<server, page>>
  BY DEF PollPage, router
<1>2. \A m \in Numbers :
         CallOK(Numbered(k, m)) /\ Numbered(k, m).op = "poll"
  BY <1>1, PageAsks DEF PageOps
<1>3. ServerMoves
  BY <1>1, ServerStays DEF ConsoleInv
<1>4. PICK m \in Numbers : calls' = calls \cup {Numbered(k, m)}
  BY <1>1, Sent DEF ConsoleInv, CallsOK
<1> PICK d : d = Numbered(k, m)
  OBVIOUS
<1>5. d.op = "poll" /\ calls' = calls \cup {d}
  BY <1>2, <1>4
<1>6. CallsOK'
  BY <1>1, <1>2, <1>3, SendsOK DEF ConsoleInv
<1>7. LiveOf(PageActs)' = LiveOf(PageActs)
  BY <1>5 DEF LiveOf, PageActs
<1> QED
  BY <1>1, <1>3, <1>6, <1>7, PageAside DEF ConsoleInv

\* The list is not shown then; its calls stay as they are.
LEMMA PageUserOK ==
  ASSUME ConsoleInv, UNCHANGED list, PageUser \/ PollPage
  PROVE  ConsoleInv'
<1>1. CallsOK' /\ PageOK'
  BY Dialogs, Stops, Restarts, Deletes, Polls DEF PageUser
<1>2. UNCHANGED <<server, router>> /\ (Act \/ UNCHANGED bounds)
  BY DEF PageUser, PollPage, AskStop, AskDelete, Cancel, HandleStop, HandleRestart, HandleDelete
<1>3. calls \subseteq calls'
  BY DEF PageUser, PollPage, AskStop, AskDelete, Cancel, HandleStop, HandleRestart, HandleDelete, Send, With
<1>4. ListOK'
  BY <1>3, ListAside DEF ConsoleInv, LiveOf
<1> QED
  BY <1>1, <1>2, <1>4, ServerStays, RouterStays, BoundsStay, ActsOnce DEF ConsoleInv

----------------------------------------------------------------------------
(* The page: the answers it gets.                                          *)

LEMMA Goes ==
  ASSUME RouterOK, route' = route, NEW i, i \in Sids \cup {0}, nav' \in {nav, i}
  PROVE  RouterOK'
<1>1. Sids \cup {0} \subseteq 0..Here
  BY Nats DEF Sids
<1> QED
  BY <1>1 DEF RouterOK

LEMMA Taken ==
  ASSUME CallsOK, NEW c \in calls
  PROVE  /\ CallOK(c) /\ c \in CallType /\ c.row \in RowType /\ c.prev \in RowType /\ c.id \in Ids
         /\ c.rows \subseteq RowType /\ c.vols \subseteq Workspaces /\ c.ws \in Names /\ c.op \in Ops
         /\ Honest(c.row) /\ Honest(c.prev) /\ c.live \in BOOLEAN /\ c.at \in Stages /\ c.ans \in Answers
  BY DEF CallsOK, CallOK, CallType

\* No answer that comes back opens a dialog, and the calls of the others
\* stay as they are.
LEMMA ReadAnswered ==
  ASSUME ConsoleInv, NEW c \in calls, LoadDone(c) \/ PollDone(c)
  PROVE  CallsOK' /\ PageOK' /\ RouterOK'
<1>1. /\ calls' = calls \ {c} /\ UNCHANGED <<server, router, flags>> /\ c.op \notin PageActs
      /\ loading' \in BOOLEAN
      /\ shown' = shown \/ shown' = c.row
  BY DEF LoadDone, PollDone, PageActs, ConsoleInv, PageOK
<1>2. ServerMoves /\ CallsOK'
  BY <1>1, ServerStays, CallsRemoved DEF ConsoleInv, router
<1>3. LiveOf({"page restart"})' = LiveOf({"page restart"})
      /\ LiveOf({"page delete", "refetch"})' = LiveOf({"page delete", "refetch"})
  BY <1>1 DEF LiveOf, PageActs
<1>4. OneWhile(restarting, LiveOf({"page restart"}))' /\ OneWhile(deleting, LiveOf({"page delete", "refetch"}))'
  BY <1>1, <1>3 DEF ConsoleInv, PageOK, OneWhile, flags
<1>5. {loading, confirmStop, confirmDelete, restarting, deleting}' \subseteq BOOLEAN
      /\ (confirmStop' => Honest(shown))
  BY <1>1 DEF ConsoleInv, PageOK, flags
<1>6. c.row \in RowType /\ Honest(c.row)
  BY Taken DEF ConsoleInv
<1>7. \A e \in calls : e.op = "page stop" /\ e.live => e \in calls'
  BY <1>1 DEF PageActs
<1>8. PageOK'
  <2>1. CASE shown' = shown
    BY <1>1, <1>4, <1>5, <1>7, <2>1, PageMoves DEF ConsoleInv
  <2>2. CASE shown' = c.row
    BY <1>1, <1>4, <1>5, <1>6, <2>2, PageMoves DEF ConsoleInv
  <2> QED
    BY <1>1, <2>1, <2>2
<1> QED
  BY <1>1, <1>2, <1>8, RouterStays DEF ConsoleInv

LEMMA StopAnswered ==
  ASSUME ConsoleInv, NEW c \in calls, StopDone(c)
  PROVE  CallsOK' /\ PageOK' /\ RouterOK'
<1>1. /\ calls' = calls \ {c} /\ UNCHANGED <<server, router, loading, flags>> /\ c.op = "page stop"
      /\ IF ~c.live THEN shown' = shown ELSE shown' = c.row \/ shown' = c.prev
  BY DEF StopDone
<1>2. ServerMoves /\ CallsOK'
  BY <1>1, ServerStays, CallsRemoved DEF ConsoleInv, router
<1>3. LiveOf({"page restart"})' = LiveOf({"page restart"})
      /\ LiveOf({"page delete", "refetch"})' = LiveOf({"page delete", "refetch"})
  BY <1>1 DEF LiveOf
<1>4. OneWhile(restarting, LiveOf({"page restart"}))' /\ OneWhile(deleting, LiveOf({"page delete", "refetch"}))'
  BY <1>1, <1>3 DEF ConsoleInv, PageOK, OneWhile, flags
<1>5. {loading, confirmStop, confirmDelete, restarting, deleting}' \subseteq BOOLEAN
      /\ (confirmStop' => Honest(shown))
  BY <1>1 DEF ConsoleInv, PageOK, flags
<1>6. c.row \in RowType /\ Honest(c.row) /\ c.prev \in RowType /\ Honest(c.prev)
  BY Taken DEF ConsoleInv
<1>7. PageOK'
  <2>1. CASE ~c.live
    <3>1. shown' = shown /\ \A e \in calls : e.op = "page stop" /\ e.live => e \in calls'
      BY <1>1, <2>1
    <3> QED
      BY <1>1, <1>4, <1>5, <3>1, PageMoves DEF ConsoleInv
  <2>2. CASE c.live
    <3>1. \E r \in RowType : Honest(r) /\ shown' = r
      BY <1>1, <1>6, <2>2
    <3> QED
      BY <1>1, <1>4, <1>5, <3>1, PageMoves DEF ConsoleInv
  <2> QED
    BY <2>1, <2>2
<1> QED
  BY <1>1, <1>2, <1>7, RouterStays DEF ConsoleInv

LEMMA RestartAnswered ==
  ASSUME ConsoleInv, NEW c \in calls, RestartDone(c)
  PROVE  CallsOK' /\ PageOK' /\ RouterOK'
<1>1. /\ calls' = calls \ {c} /\ UNCHANGED <<server, route, shown, loading, confirmStop, confirmDelete, deleting>>
      /\ c.op = "page restart" /\ restarting' = (restarting /\ ~c.live)
      /\ nav' = IF c.ans = "ok" THEN c.row.id ELSE nav
  BY DEF RestartDone
<1>2. ServerMoves /\ CallsOK'
  BY <1>1, ServerStays, CallsRemoved DEF ConsoleInv
<1>3. LiveOf({"page restart"})' = LiveOf({"page restart"}) \ {c}
      /\ LiveOf({"page delete", "refetch"})' = LiveOf({"page delete", "refetch"})
  BY <1>1 DEF LiveOf
<1>4. OneWhile(deleting, LiveOf({"page delete", "refetch"}))'
  BY <1>1, <1>3 DEF ConsoleInv, PageOK, OneWhile
<1>5. OneWhile(restarting, LiveOf({"page restart"}))' /\ restarting' \in BOOLEAN
  <2>1. OneWhile(restarting, LiveOf({"page restart"})) /\ restarting \in BOOLEAN /\ c.live \in BOOLEAN
    BY Taken DEF ConsoleInv, PageOK
  <2>2. CASE c.live
    <3>1. c \in LiveOf({"page restart"})
      BY <1>1, <2>2 DEF LiveOf
    <3>2. LiveOf({"page restart"})' = {} /\ restarting' = FALSE
      BY <1>1, <1>3, <2>1, <2>2, <3>1 DEF OneWhile
    <3> QED
      BY <3>2 DEF OneWhile
  <2>3. CASE ~c.live
    <3>1. LiveOf({"page restart"})' = LiveOf({"page restart"}) /\ restarting' = restarting
      BY <1>1, <1>3, <2>1, <2>3 DEF LiveOf
    <3> QED
      BY <2>1, <3>1 DEF OneWhile
  <2> QED
    BY <2>2, <2>3
<1>6. {loading, confirmStop, confirmDelete, restarting, deleting}' \subseteq BOOLEAN
      /\ (confirmStop' => Honest(shown))
  BY <1>1, <1>5 DEF ConsoleInv, PageOK
<1>7. PageOK'
  <2>1. \A e \in calls : e.op = "page stop" /\ e.live => e \in calls'
    BY <1>1
  <2> QED
    BY <1>1, <1>4, <1>5, <1>6, <2>1, PageMoves DEF ConsoleInv
<1>8. c.ans = "ok" => c.row.id \in Sids
  BY <1>1, Taken DEF ConsoleInv, CallOK, Creates
<1>9. RouterOK'
  <2>1. CASE c.ans = "ok"
    BY <1>1, <1>8, <2>1, Goes DEF ConsoleInv
  <2>2. CASE c.ans # "ok"
    BY <1>1, <2>2, Goes DEF ConsoleInv
  <2> QED
    BY <2>1, <2>2
<1> QED
  BY <1>2, <1>7, <1>9

\* A read that a failure asks for.
LEMMA Rereads ==
  ASSUME ConsoleInv, NEW c \in calls, NEW op \in {"refetch", "fetch"}, NEW id \in Ids,
         op = "refetch" => route # 0, op = "fetch" => route = 0,
         ServerMoves, route' = route, calls' = With(calls \ {c}, Call(op, id, NoWs)),
         c.op \in Reads => op \in Reads
  PROVE  CallsOK' /\ \E d : d.op = op /\ d.live /\ calls' = (calls \ {c}) \cup {d}
<1> DEFINE k == Call(op, id, NoWs)
<1>1. PICK m \in Numbers : calls' = (calls \ {c}) \cup {Numbered(k, m)}
  BY Refilled DEF ConsoleInv
<1>2. PICK d : d = Numbered(k, m)
  OBVIOUS
<1>3. op \in Ops /\ NoWs \in Names /\ (op \in ListOps <=> route = 0)
  BY DEF Ops, PageOps, ListOps, Names
<1>4. Fresh(d) /\ d.op = op /\ d.prev = NoRow
  BY <1>2, <1>3, PlainCallIs
<1>5. d.op \notin {"load", "poll", "resume", "rename"}
  BY <1>4
<1>6. CallOK(d)
  BY <1>3, <1>4, <1>5, NoRowIs, FreshOK
<1>7. CallOK(d)'
  BY <1>6, StillOK
<1>8. calls' = (calls \ {c}) \cup {d} /\ d.live
  BY <1>1, <1>2, <1>4 DEF Fresh
<1> QED
  BY <1>4, <1>7, <1>8, CallsReplaced DEF ConsoleInv

LEMMA DeleteAnswered ==
  ASSUME ConsoleInv, NEW c \in calls, DeleteDone(c)
  PROVE  CallsOK' /\ PageOK' /\ RouterOK'
<1>1. /\ UNCHANGED <<server, route, shown, loading, confirmStop, confirmDelete, restarting>>
      /\ c.op = "page delete"
      /\ nav' = IF c.ans = "ok" THEN 0 ELSE nav
      /\ deleting' = (deleting /\ ~(c.live /\ c.ans = "ok"))
      /\ calls' = IF c.live /\ c.ans # "ok"
                  THEN With(calls \ {c}, Call("refetch", c.id, NoWs)) ELSE calls \ {c}
  BY DEF DeleteDone
<1>2. ServerMoves
  BY <1>1, ServerStays DEF ConsoleInv
<1>3. OneWhile(deleting, LiveOf({"page delete", "refetch"})) /\ deleting \in BOOLEAN /\ c.live \in BOOLEAN
      /\ c.id \in Ids /\ CallOK(c)
  BY Taken DEF ConsoleInv, PageOK
<1>4. RouterOK'
  BY <1>1, Goes DEF ConsoleInv
<1>5. ASSUME CallsOK', deleting' \in BOOLEAN, \A e \in calls : e # c => e \in calls',
             LiveOf({"page restart"})' = LiveOf({"page restart"}),
             OneWhile(deleting, LiveOf({"page delete", "refetch"}))'
      PROVE  CallsOK' /\ PageOK' /\ RouterOK'
  <2>1. OneWhile(restarting, LiveOf({"page restart"}))'
    BY <1>1, <1>5 DEF ConsoleInv, PageOK, OneWhile
  <2>2. {loading, confirmStop, confirmDelete, restarting, deleting}' \subseteq BOOLEAN
        /\ (confirmStop' => Honest(shown))
    BY <1>1, <1>5 DEF ConsoleInv, PageOK
  <2>3. \A e \in calls : e.op = "page stop" /\ e.live => e \in calls'
    BY <1>1, <1>5
  <2>4. PageOK'
    BY <1>1, <1>5, <2>1, <2>2, <2>3, PageMoves DEF ConsoleInv
  <2> QED
    BY <1>4, <1>5, <2>4
<1>6. CASE c.live /\ c.ans # "ok"
  <2>1. route # 0
    BY <1>1, <1>3, <1>6 DEF CallOK, PageOps, ListOps
  <2>2. calls' = With(calls \ {c}, Call("refetch", c.id, NoWs)) /\ c.op \notin Reads /\ deleting' = deleting
    BY <1>1, <1>3, <1>6 DEF Reads
  <2>3. CallsOK' /\ \E d : d.op = "refetch" /\ d.live /\ calls' = (calls \ {c}) \cup {d}
    BY <1>1, <1>2, <1>3, <2>1, <2>2, Rereads
  <2>4. PICK d : d.op = "refetch" /\ d.live /\ calls' = (calls \ {c}) \cup {d}
    BY <2>3
  <2>5. c \in LiveOf({"page delete", "refetch"})
    BY <1>1, <1>6 DEF LiveOf
  <2>6. LiveOf({"page delete", "refetch"})' = {d} /\ deleting' = TRUE
    <3>1. \A e \in LiveOf({"page delete", "refetch"}) : e = c
      BY <1>3, <2>5 DEF OneWhile
    <3>2. deleting
      BY <1>3, <2>5 DEF OneWhile
    <3> QED
      BY <1>3, <2>2, <2>4, <3>1, <3>2 DEF LiveOf
  <2>7. OneWhile(deleting, LiveOf({"page delete", "refetch"}))'
    BY <2>6 DEF OneWhile
  <2>8. LiveOf({"page restart"})' = LiveOf({"page restart"})
    BY <1>1, <2>4 DEF LiveOf
  <2> QED
    BY <1>5, <2>3, <2>4, <2>6, <2>7, <2>8
<1>7. CASE ~(c.live /\ c.ans # "ok")
  <2>1. calls' = calls \ {c}
    BY <1>1, <1>7
  <2>2. CallsOK'
    BY <1>1, <1>2, <2>1, CallsRemoved DEF ConsoleInv
  <2>3. LiveOf({"page restart"})' = LiveOf({"page restart"})
        /\ LiveOf({"page delete", "refetch"})' = LiveOf({"page delete", "refetch"}) \ {c}
    BY <1>1, <2>1 DEF LiveOf
  <2>4. OneWhile(deleting, LiveOf({"page delete", "refetch"}))' /\ deleting' \in BOOLEAN
    <3>1. CASE c.live
      <4>1. c \in LiveOf({"page delete", "refetch"}) /\ deleting' = FALSE
        BY <1>1, <1>3, <1>7, <3>1 DEF LiveOf
      <4>2. LiveOf({"page delete", "refetch"})' = {}
        BY <1>3, <2>3, <4>1 DEF OneWhile
      <4> QED
        BY <4>1, <4>2 DEF OneWhile
    <3>2. CASE ~c.live
      <4>1. LiveOf({"page delete", "refetch"})' = LiveOf({"page delete", "refetch"}) /\ deleting' = deleting
        BY <1>1, <1>3, <2>3, <3>2 DEF LiveOf
      <4> QED
        BY <1>3, <4>1 DEF OneWhile
    <3> QED
      BY <3>1, <3>2
  <2> QED
    BY <1>5, <2>1, <2>2, <2>3, <2>4
<1> QED
  BY <1>6, <1>7

LEMMA RefetchAnswered ==
  ASSUME ConsoleInv, NEW c \in calls, RefetchDone(c)
  PROVE  CallsOK' /\ PageOK' /\ RouterOK'
<1>1. /\ calls' = calls \ {c} /\ UNCHANGED <<server, router, loading, confirmStop, confirmDelete, restarting>>
      /\ c.op = "refetch" /\ deleting' = FALSE /\ (shown' = shown \/ shown' = c.row)
  BY DEF RefetchDone
<1>2. ServerMoves /\ CallsOK'
  BY <1>1, ServerStays, CallsRemoved DEF ConsoleInv, router
<1>3. c.row \in RowType /\ Honest(c.row) /\ c.live
  BY <1>1, Taken DEF ConsoleInv, CallOK
<1>4. LiveOf({"page restart"})' = LiveOf({"page restart"})
      /\ LiveOf({"page delete", "refetch"})' = LiveOf({"page delete", "refetch"}) \ {c}
  BY <1>1 DEF LiveOf
<1>5. LiveOf({"page delete", "refetch"})' = {}
  <2>1. c \in LiveOf({"page delete", "refetch"})
    BY <1>1, <1>3 DEF LiveOf
  <2> QED
    BY <1>4, <2>1 DEF ConsoleInv, PageOK, OneWhile
<1>6. OneWhile(restarting, LiveOf({"page restart"}))' /\ OneWhile(deleting, LiveOf({"page delete", "refetch"}))'
  BY <1>1, <1>4, <1>5 DEF ConsoleInv, PageOK, OneWhile
<1>7. {loading, confirmStop, confirmDelete, restarting, deleting}' \subseteq BOOLEAN
      /\ (confirmStop' => Honest(shown))
  BY <1>1 DEF ConsoleInv, PageOK
<1>8. \A e \in calls : e.op = "page stop" /\ e.live => e \in calls'
  BY <1>1
<1>9. PageOK'
  <2>1. CASE shown' = shown
    BY <1>1, <1>6, <1>7, <1>8, <2>1, PageMoves DEF ConsoleInv
  <2>2. CASE shown' = c.row
    BY <1>1, <1>3, <1>6, <1>7, <2>2, PageMoves DEF ConsoleInv
  <2> QED
    BY <1>1, <2>1, <2>2
<1> QED
  BY <1>1, <1>2, <1>9, RouterStays DEF ConsoleInv

LEMMA PageDoneOK ==
  ASSUME ConsoleInv, NEW c \in calls, PageDone(c), UNCHANGED list
  PROVE  ConsoleInv'
<1>1. CallsOK' /\ PageOK' /\ RouterOK'
  BY ReadAnswered, StopAnswered, RestartAnswered, DeleteAnswered, RefetchAnswered DEF PageDone
<1>2. UNCHANGED <<server, bounds>>
  BY DEF PageDone, LoadDone, PollDone, StopDone, RestartDone, DeleteDone, RefetchDone
<1>3. c.op # "resume" /\ \A e \in calls : e # c => e \in calls'
  BY DEF PageDone, LoadDone, PollDone, StopDone, RestartDone, DeleteDone, RefetchDone, With
<1>4. \A e \in LiveOf({"resume"}) : e \in LiveOf({"resume"})'
  BY <1>3 DEF LiveOf
<1>5. ListOK'
  BY <1>4, ListAside DEF ConsoleInv
<1> QED
  BY <1>1, <1>2, <1>5, ServerStays, BoundsStay DEF ConsoleInv

----------------------------------------------------------------------------
(* The list: what its user and its timer do.                               *)

\* The page of a session is not concerned by the calls of the list.
LEMMA PageStays ==
  ASSUME ConsoleInv, UNCHANGED <<server, page>>,
         \A e \in calls \cup calls' : e.op \in PageActs => (e \in calls <=> e \in calls')
  PROVE  PageOK'
<1>1. LiveOf(PageActs)' = LiveOf(PageActs)
  BY DEF LiveOf
<1> QED
  BY <1>1, ServerStays, PageAside DEF ConsoleInv

LEMMA Sends ==
  ASSUME ConsoleInv, UNCHANGED <<server, page>>, route' = route, NEW op \in ListOps, NEW k, Send(k),
         \A m \in Numbers : CallOK(Numbered(k, m)) /\ Numbered(k, m).op = op
                            /\ Numbered(k, m).live /\ Numbered(k, m).ws = k.ws
  PROVE  CallsOK' /\ PageOK' /\ \E d : calls' = calls \cup {d} /\ d.op = op /\ d.live /\ d.ws = k.ws
<1>1. ServerMoves
  BY ServerStays DEF ConsoleInv
<1>2. PICK m \in Numbers : calls' = calls \cup {Numbered(k, m)}
  BY Sent DEF ConsoleInv, CallsOK
<1> PICK d : d = Numbered(k, m)
  OBVIOUS
<1>3. calls' = calls \cup {d} /\ d.op = op /\ d.live /\ d.ws = k.ws
  BY <1>2
<1>4. CallsOK'
  BY <1>1, SendsOK DEF ConsoleInv
<1>5. d.op \notin PageActs
  BY <1>3, Kinds
<1>6. PageOK'
  BY <1>3, <1>5, PageStays
<1> QED
  BY <1>3, <1>4, <1>6

LEMMA ListAsks ==
  ASSUME ConsoleInv, UNCHANGED <<server, page>>, route' = route, route = 0,
         NEW op \in ListOps, op # "rename", NEW id \in Ids, NEW w \in Names, op = "resume" => w \in Workspaces,
         Send(Call(op, id, w))
  PROVE  CallsOK' /\ PageOK' /\ \E d : calls' = calls \cup {d} /\ d.op = op /\ d.live /\ d.ws = w
<1> PICK k : k = Call(op, id, w)
  OBVIOUS
<1>1. k.ws = w
  BY DEF Call
<1>2. ASSUME NEW m \in Numbers, NEW c, c = Numbered(k, m)
      PROVE  CallOK(c) /\ c.op = op /\ c.live /\ c.ws = w
  <2>1. op \in Ops /\ op \notin {"load", "poll"}
    BY Kinds DEF ListOps
  <2>2. Fresh(c) /\ c.op = op /\ c.ws = w /\ c.prev = NoRow
    BY <1>2, <2>1, PlainCallIs
  <2> QED
    BY <2>1, <2>2, NoRowIs, FreshOK DEF Fresh
<1> QED
  BY <1>1, <1>2, Sends

LEMMA RenameAsks ==
  ASSUME ConsoleInv, UNCHANGED <<server, page>>, route' = route, route = 0,
         NEW w \in Names, NEW to \in Workspaces, Send(RenamingTo(Call("rename", 0, w), to))
  PROVE  CallsOK' /\ PageOK' /\ \E d : calls' = calls \cup {d} /\ d.live
<1> PICK k : k = RenamingTo(Call("rename", 0, w), to)
  OBVIOUS
<1>1. "rename" \in ListOps /\ 0 \in Ids /\ to \in Names /\ k.ws = w
  BY Nats DEF ListOps, Ids, Names, Call, RenamingTo
<1>2. \A m \in Numbers, op \in ListOps :
        LET c == Numbered(RenamingTo(Call(op, 0, w), to), m)
        IN  Fresh(c) /\ c.op = op /\ c.ws = w /\ c.to = to /\ c.prev = NoRow
  BY <1>1, Kinds, RenamingCallIs
<1>3. ASSUME NEW m \in Numbers, NEW c, c = Numbered(k, m)
      PROVE  CallOK(c) /\ c.op = "rename" /\ c.live /\ c.ws = w
  <2>1. Fresh(c) /\ c.op = "rename" /\ c.ws = w /\ c.to = to /\ c.prev = NoRow
    BY <1>1, <1>2, <1>3, Zenon
  <2> QED
    BY <1>1, <2>1, NoRowIs, FreshOK DEF Fresh
<1> QED
  BY <1>1, <1>3, Sends

LEMMA ListSame ==
  ASSUME ListOK, UNCHANGED list, calls \subseteq calls'
  PROVE  ListOK'
  BY ListAside DEF LiveOf

LEMMA DrawnIs == Drawn => route = 0 /\ ~blank /\ (ConsoleInv => \A r \in rows : r.id \in Sids)
  BY DEF Drawn, InList, ConsoleInv, ListOK

LEMMA SavedAre == ConsoleInv => SavedWorkspaces \subseteq Workspaces
  BY DEF ConsoleInv, ListOK, SavedWorkspaces

\* What the user has asked is kept, or about to be sent; the rows change no id.
LEMMA ListMoves ==
  ASSUME ConsoleInv, Drawn, UNCHANGED <<saved, listLoading, blank>>, calls \subseteq calls',
         rows' \subseteq RowType, \A r \in rows' : r.id \in Sids,
         confirmAction' = <<>> \/ confirmAction' \in {"stop", "delete"} \X Sids,
         {resumingId, renameTarget}' \subseteq Names,
         resumingId' # NoWs => \/ resumingId' = resumingId
                               \/ \E c \in calls' : c.op = "resume" /\ c.live /\ c.ws = resumingId'
  PROVE  ListOK'
<1>1. saved' \subseteq Workspaces /\ {listLoading, blank}' \subseteq BOOLEAN
  BY DEF ConsoleInv, ListOK
<1>2. resumingId' # NoWs => \E c \in LiveOf({"resume"})' : c.ws = resumingId'
  BY DEF ConsoleInv, ListOK, LiveOf
<1> QED
  BY <1>1, <1>2 DEF ListOK

LEMMA ListDialogs ==
  ASSUME ConsoleInv, UNCHANGED page, AskAction \/ AskRename \/ CloseDialog
  PROVE  CallsOK' /\ PageOK' /\ ListOK'
<1>1. UNCHANGED <<server, calls, router, rows, saved, listLoading, blank, resumingId>> /\ Drawn
  BY DEF AskAction, AskRename, CloseDialog, ListUncovered, data
<1>2. CallsOK' /\ PageOK'
  BY <1>1, ServerStays, CallsKept, PageStays DEF ConsoleInv, router
<1>3. rows' \subseteq RowType /\ (\A r \in rows' : r.id \in Sids) /\ resumingId' \in Names
  BY <1>1, DrawnIs DEF ConsoleInv, ListOK
<1>4. confirmAction' = <<>> \/ confirmAction' \in {"stop", "delete"} \X Sids
  BY <1>1, DrawnIs DEF ConsoleInv, ListOK, AskAction, AskRename, CloseDialog
<1>5. renameTarget' \in Names
  <2>1. \A r \in rows : r.ws \in Names
    BY DEF ConsoleInv, ListOK, RowType, Names
  <2>2. renameTarget \in Names /\ NoWs \in Names /\ SavedWorkspaces \subseteq Names
    BY SavedAre DEF ConsoleInv, ListOK, Names
  <2> QED
    BY <2>1, <2>2 DEF AskAction, AskRename, CloseDialog
<1> QED
  BY <1>1, <1>2, <1>3, <1>4, <1>5, ListMoves

LEMMA ListConfirms ==
  ASSUME ConsoleInv, UNCHANGED page, ListStop \/ ListDelete
  PROVE  CallsOK' /\ PageOK' /\ ListOK'
<1>1. /\ UNCHANGED <<server, router, saved, listLoading, resumingId, renameTarget, blank>> /\ Drawn
      /\ confirmAction # <<>> /\ confirmAction' = <<>>
      /\ Send(Call("stop", confirmAction[2], NoWs)) \/ Send(Call("delete", confirmAction[2], NoWs))
      /\ \/ rows' = rows
         \/ rows' = {IF s.id = confirmAction[2] THEN [s EXCEPT !.st = "stopped"] ELSE s : s \in rows}
  BY DEF ListStop, ListDelete, data
<1>2. confirmAction[2] \in Ids /\ NoWs \in Names
  BY <1>1, Nats DEF ConsoleInv, ListOK, Ids, Names
<1>3. route = 0 /\ route' = route /\ \A r \in rows : r.id \in Sids
  BY <1>1, DrawnIs DEF router
<1>4. {"stop", "delete"} \subseteq ListOps \ {"rename", "resume"}
  BY DEF ListOps
<1>5. CallsOK' /\ PageOK' /\ calls \subseteq calls'
  <2>1. \A op \in ListOps \ {"rename", "resume"} :
          Send(Call(op, confirmAction[2], NoWs)) => CallsOK' /\ PageOK' /\ calls \subseteq calls'
    BY <1>1, <1>2, <1>3, ListAsks
  <2> QED
    BY <1>1, <1>4, <2>1, Zenon
<1>6. rows' \subseteq RowType /\ \A r \in rows' : r.id \in Sids
  <2>1. rows \subseteq RowType
    BY DEF ConsoleInv, ListOK
  <2>2. ASSUME NEW s \in rows
        PROVE  [s EXCEPT !.st = "stopped"] \in RowType /\ [s EXCEPT !.st = "stopped"].id = s.id
    BY <2>1, <2>2 DEF RowType
  <2> QED
    BY <1>1, <1>3, <2>1, <2>2
<1>7. {resumingId, renameTarget}' \subseteq Names
  BY <1>1 DEF ConsoleInv, ListOK
<1> QED
  BY <1>1, <1>5, <1>6, <1>7, ListMoves

LEMMA ListButtons ==
  ASSUME ConsoleInv, UNCHANGED page, ListRestart \/ HandleDeleteWorkspace \/ HandleRename \/ PollList
  PROVE  CallsOK' /\ PageOK' /\ ListOK'
<1>1. UNCHANGED <<server, router, list>> /\ InList
  BY DEF ListRestart, HandleDeleteWorkspace, HandleRename, PollList, ListUncovered, Drawn
<1>2. route = 0 /\ route' = route /\ \A r \in rows : r.id \in Sids
  BY <1>1 DEF InList, router, ConsoleInv, ListOK
<1>3. {"restart", "deletews", "fetch"} \subseteq ListOps \ {"rename", "resume"} /\ NoWs \in Names
      /\ 0 \in Ids /\ Sids \subseteq Ids /\ Workspaces \subseteq Names
  BY Nats DEF ListOps, Names, Ids
<1>4. \A op \in ListOps \ {"rename", "resume"}, id \in Ids, w \in Names :
        Send(Call(op, id, w)) => CallsOK' /\ PageOK' /\ calls \subseteq calls'
  BY <1>1, <1>2, ListAsks
<1>5. CallsOK' /\ PageOK' /\ calls \subseteq calls'
  <2>1. CASE ListRestart
    BY <1>2, <1>3, <1>4, <2>1, Zenon DEF ListRestart
  <2>2. CASE HandleDeleteWorkspace
    BY <1>3, <1>4, <2>2, SavedAre, Zenon DEF HandleDeleteWorkspace
  <2>3. CASE PollList
    BY <1>3, <1>4, <2>3, Zenon DEF PollList, Fetch, Send
  <2>4. CASE HandleRename
    <3>1. PICK w \in Workspaces : Send(RenamingTo(Call("rename", 0, renameTarget), w))
      BY <2>4 DEF HandleRename, ValidNames, RenamingTo
    <3>2. renameTarget \in Names
      BY DEF ConsoleInv, ListOK
    <3> QED
      BY <1>1, <1>2, <3>1, <3>2, RenameAsks
  <2> QED
    BY <2>1, <2>2, <2>3, <2>4
<1> QED
  BY <1>1, <1>5, ListSame DEF ConsoleInv

LEMMA Resumes ==
  ASSUME ConsoleInv, UNCHANGED page, HandleResume
  PROVE  CallsOK' /\ PageOK' /\ ListOK'
<1>1. PICK w \in SavedWorkspaces : resumingId' = w /\ Send(Call("resume", 0, w))
  BY DEF HandleResume
<1>2. UNCHANGED <<server, router, rows, saved, listLoading, blank, confirmAction, renameTarget>> /\ Drawn
  BY DEF HandleResume, data, ListUncovered
<1>3. w \in Workspaces /\ w \in Names /\ 0 \in Ids /\ "resume" \in ListOps
  BY SavedAre, Nats DEF Names, Ids, ListOps
<1>4. route = 0 /\ route' = route /\ \A r \in rows : r.id \in Sids
  BY <1>2, DrawnIs DEF router
<1>5. CallsOK' /\ PageOK' /\ \E d : calls' = calls \cup {d} /\ d.op = "resume" /\ d.live /\ d.ws = w
  <2>1. \A op \in ListOps : op # "rename" /\ Send(Call(op, 0, w)) =>
          CallsOK' /\ PageOK' /\ \E d : calls' = calls \cup {d} /\ d.op = op /\ d.live /\ d.ws = w
    BY <1>2, <1>3, <1>4, ListAsks
  <2>2. "resume" # "rename"
    OBVIOUS
  <2> QED
    BY <1>1, <1>3, <2>1, <2>2, Zenon
<1>6. rows' \subseteq RowType /\ (\A r \in rows' : r.id \in Sids) /\ {resumingId, renameTarget}' \subseteq Names
      /\ (confirmAction' = <<>> \/ confirmAction' \in {"stop", "delete"} \X Sids)
  BY <1>1, <1>2, <1>3, <1>4 DEF ConsoleInv, ListOK
<1>7. calls \subseteq calls' /\ \E c \in calls' : c.op = "resume" /\ c.live /\ c.ws = resumingId'
  BY <1>1, <1>5
<1> QED
  BY <1>2, <1>5, <1>6, <1>7, ListMoves

LEMMA ListUserOK ==
  ASSUME ConsoleInv, UNCHANGED page, ListUser \/ PollList
  PROVE  ConsoleInv'
<1>1. CallsOK' /\ PageOK' /\ ListOK'
  BY ListDialogs, ListConfirms, ListButtons, Resumes DEF ListUser
<1>2. UNCHANGED <<server, router>> /\ (Act \/ UNCHANGED bounds)
  BY DEF ListUser, PollList, AskAction, AskRename, CloseDialog, ListStop, ListRestart, ListDelete,
         HandleResume, HandleDeleteWorkspace, HandleRename
<1> QED
  BY <1>1, <1>2, ServerStays, RouterStays, BoundsStay, ActsOnce DEF ConsoleInv

----------------------------------------------------------------------------
(* The list: the answers it gets.                                          *)

LEMMA ListTakes ==
  ASSUME ConsoleInv, NEW c \in calls, c.op \in ListOps, UNCHANGED <<server, page>>, route' = route,
         calls' = calls \ {c} \/ (c.live /\ calls' = Fetch(calls \ {c}))
  PROVE  CallsOK' /\ PageOK' /\ \A e \in LiveOf({"resume"}) : e # c => e \in LiveOf({"resume"})'
<1>1. ServerMoves
  BY ServerStays DEF ConsoleInv
<1>2. c.op \notin PageActs
  BY Kinds
<1>3. CASE calls' = calls \ {c}
  <2>1. CallsOK'
    BY <1>1, <1>3, CallsRemoved DEF ConsoleInv
  <2>2. PageOK'
    BY <1>2, <1>3, PageStays
  <2> QED
    BY <1>3, <2>1, <2>2 DEF LiveOf
<1>4. CASE c.live /\ calls' = Fetch(calls \ {c})
  <2>1. route = 0 /\ 0 \in Ids
    BY <1>4, Taken, Nats DEF ConsoleInv, CallOK, Ids
  <2>2. \A op \in {"refetch", "fetch"} : op = "fetch" /\ calls' = With(calls \ {c}, Call(op, 0, NoWs)) =>
          CallsOK' /\ \E d : d.op = op /\ d.live /\ calls' = (calls \ {c}) \cup {d}
    BY <1>1, <2>1, Rereads DEF Reads
  <2>3. CallsOK' /\ \E d : d.op = "fetch" /\ d.live /\ calls' = (calls \ {c}) \cup {d}
    BY <1>4, <2>2, Zenon DEF Fetch
  <2>4. PICK d : d.op = "fetch" /\ d.live /\ calls' = (calls \ {c}) \cup {d}
    BY <2>3
  <2>5. d.op \notin PageActs
    BY <2>4 DEF PageActs
  <2>6. PageOK'
    BY <1>2, <2>4, <2>5, PageStays
  <2> QED
    BY <2>3, <2>4, <2>6 DEF LiveOf
<1> QED
  BY <1>3, <1>4

LEMMA ListShows ==
  ASSUME ConsoleInv, UNCHANGED confirmAction, rows' \subseteq RowType, saved' \subseteq Workspaces,
         {listLoading, blank}' \subseteq BOOLEAN, {resumingId, renameTarget}' \subseteq Names,
         \A r \in rows' : (r = NoRow /\ blank') \/ r.id \in Sids,
         resumingId' # NoWs => /\ resumingId' = resumingId
                               /\ \A e \in LiveOf({"resume"}) : e \in LiveOf({"resume"})'
  PROVE  ListOK'
<1>1. resumingId' # NoWs => \E c \in LiveOf({"resume"})' : c.ws = resumingId'
  BY DEF ConsoleInv, ListOK
<1>2. confirmAction' = <<>> \/ confirmAction' \in {"stop", "delete"} \X Sids
  BY DEF ConsoleInv, ListOK
<1> QED
  BY <1>1, <1>2 DEF ListOK

\* What the answers put into the list are the rows of sessions, or none.
LEMMA RowsShown ==
  ASSUME ConsoleInv, NEW c \in calls, FetchDone(c) \/ ListStopDone(c) \/ ListRestartDone(c) \/ ListDeleteDone(c)
  PROVE  /\ rows' \subseteq RowType /\ saved' \subseteq Workspaces /\ {listLoading, blank}' \subseteq BOOLEAN
         /\ \A r \in rows' : (r = NoRow /\ blank') \/ r.id \in Sids
<1>1. /\ rows \subseteq RowType /\ saved \subseteq Workspaces /\ {listLoading, blank} \subseteq BOOLEAN
      /\ \A r \in rows : (r = NoRow /\ blank) \/ r.id \in Sids
  BY DEF ConsoleInv, ListOK
<1>2. /\ c.row \in RowType /\ c.rows \subseteq RowType /\ c.vols \subseteq Workspaces
      /\ c.row = NoRow \/ c.row.id \in Sids
      /\ \A r \in c.rows : r.id \in Sids
      /\ c.op \in Creates /\ c.ans = "ok" => c.row.id \in Sids
  BY Taken DEF ConsoleInv, CallOK, Honest, Known
<1>3. CASE FetchDone(c)
  BY <1>1, <1>2, <1>3 DEF FetchDone
<1>4. CASE ListStopDone(c)
  <2>1. UNCHANGED <<saved, listLoading>>
    BY <1>4 DEF ListStopDone
  <2>2. CASE c.live /\ c.ans = "ok"
    <3>1. rows' = {IF s.id = c.id THEN c.row ELSE s : s \in rows} /\ blank' = (NoRow \in rows')
      BY <1>4, <2>2 DEF ListStopDone, Show, Replaced
    <3>2. blank' \in BOOLEAN /\ rows' \subseteq RowType
      BY <1>1, <1>2, <3>1
    <3>3. ASSUME NEW r \in rows'
          PROVE  (r = NoRow /\ blank') \/ r.id \in Sids
      <4>1. r = c.row \/ r \in rows
        BY <3>1
      <4>2. r = NoRow => blank'
        BY <3>1
      <4> QED
        BY <1>1, <1>2, <4>1, <4>2
    <3> QED
      BY <1>1, <2>1, <3>2, <3>3
  <2>3. CASE ~(c.live /\ c.ans = "ok")
    BY <1>1, <1>4, <2>1, <2>3 DEF ListStopDone
  <2> QED
    BY <2>2, <2>3
<1>5. CASE ListRestartDone(c)
  <2>1. UNCHANGED <<saved, listLoading, blank>> /\ c.op \in Creates
    BY <1>5 DEF ListRestartDone, Creates
  <2>2. CASE c.live /\ c.ans = "ok"
    <3>1. rows' = {IF s.id = c.id THEN c.row ELSE s : s \in rows}
      BY <1>5, <2>2 DEF ListRestartDone, Replaced
    <3> QED
      BY <1>1, <1>2, <2>1, <2>2, <3>1
  <2>3. CASE ~(c.live /\ c.ans = "ok")
    BY <1>1, <1>5, <2>1, <2>3 DEF ListRestartDone
  <2> QED
    BY <2>2, <2>3
<1>6. CASE ListDeleteDone(c)
  <2>1. UNCHANGED <<saved, listLoading, blank>> /\ rows' \subseteq rows
    BY <1>6 DEF ListDeleteDone
  <2> QED
    BY <1>1, <2>1
<1> QED
  BY <1>3, <1>4, <1>5, <1>6

LEMMA RowsAnswered ==
  ASSUME ConsoleInv, NEW c \in calls, FetchDone(c) \/ ListStopDone(c) \/ ListRestartDone(c) \/ ListDeleteDone(c),
         UNCHANGED page
  PROVE  CallsOK' /\ PageOK' /\ RouterOK' /\ ListOK'
<1>1. /\ UNCHANGED <<server, router, dialogs>> /\ c.op \in ListOps /\ c.op # "resume"
      /\ calls' = calls \ {c} \/ (c.live /\ calls' = Fetch(calls \ {c}))
  BY DEF FetchDone, ListStopDone, ListRestartDone, ListDeleteDone, ListOps
<1>2. CallsOK' /\ PageOK' /\ \A e \in LiveOf({"resume"}) : e # c => e \in LiveOf({"resume"})'
  BY <1>1, ListTakes DEF router
<1>3. \A e \in LiveOf({"resume"}) : e # c
  BY <1>1 DEF LiveOf
<1>4. /\ rows' \subseteq RowType /\ saved' \subseteq Workspaces /\ {listLoading, blank}' \subseteq BOOLEAN
      /\ \A r \in rows' : (r = NoRow /\ blank') \/ r.id \in Sids
  BY RowsShown
<1>5. UNCHANGED <<confirmAction, resumingId, renameTarget>> /\ {resumingId, renameTarget}' \subseteq Names
  BY <1>1 DEF dialogs, ConsoleInv, ListOK
<1>6. ListOK'
  BY <1>2, <1>3, <1>4, <1>5, ListShows
<1> QED
  BY <1>1, <1>2, <1>6, RouterStays DEF ConsoleInv

LEMMA ResumeAnswered ==
  ASSUME ConsoleInv, NEW c \in calls, HandleResumeDone(c), UNCHANGED page
  PROVE  CallsOK' /\ PageOK' /\ RouterOK' /\ ListOK'
<1>1. /\ UNCHANGED <<rows, saved, listLoading, blank, confirmAction, renameTarget, server, route>>
      /\ c.op = "resume" /\ calls' = calls \ {c}
      /\ nav' = IF c.ans = "ok" THEN c.row.id ELSE nav
      /\ resumingId' = IF c.live THEN NoWs ELSE resumingId
  BY DEF HandleResumeDone, data
<1>2. CallsOK' /\ PageOK' /\ \A e \in LiveOf({"resume"}) : e # c => e \in LiveOf({"resume"})'
  BY <1>1, ListTakes DEF ListOps
<1>3. resumingId' # NoWs => resumingId' = resumingId /\ \A e \in LiveOf({"resume"}) : e # c
  BY <1>1 DEF LiveOf
<1>4. /\ rows' \subseteq RowType /\ saved' \subseteq Workspaces /\ {listLoading, blank}' \subseteq BOOLEAN
      /\ \A r \in rows' : (r = NoRow /\ blank') \/ r.id \in Sids
  BY <1>1 DEF ConsoleInv, ListOK
<1>5. {resumingId, renameTarget}' \subseteq Names
  BY <1>1 DEF ConsoleInv, ListOK, Names
<1>6. ListOK'
  BY <1>1, <1>2, <1>3, <1>4, <1>5, ListShows
<1>7. c.ans = "ok" => c.row.id \in Sids
  BY <1>1, Taken DEF ConsoleInv, CallOK, Creates
<1>8. RouterOK'
  <2>1. CASE c.ans = "ok"
    BY <1>1, <1>7, <2>1, Goes DEF ConsoleInv
  <2>2. CASE c.ans # "ok"
    BY <1>1, <2>2, Goes DEF ConsoleInv
  <2> QED
    BY <2>1, <2>2
<1> QED
  BY <1>2, <1>6, <1>8

LEMMA VolumesAnswered ==
  ASSUME ConsoleInv, NEW c \in calls, HandleDeleteWorkspaceDone(c) \/ HandleRenameDone(c), UNCHANGED page
  PROVE  CallsOK' /\ PageOK' /\ RouterOK' /\ ListOK'
<1>1. /\ UNCHANGED <<rows, listLoading, blank, confirmAction, resumingId, server, router>>
      /\ c.op \in ListOps /\ c.op # "resume" /\ saved' \subseteq saved
      /\ calls' = calls \ {c} \/ (c.live /\ calls' = Fetch(calls \ {c}))
      /\ renameTarget' \in {renameTarget, NoWs}
  BY DEF HandleDeleteWorkspaceDone, HandleRenameDone, data, dialogs, ListOps
<1>2. CallsOK' /\ PageOK' /\ \A e \in LiveOf({"resume"}) : e # c => e \in LiveOf({"resume"})'
  BY <1>1, ListTakes DEF router
<1>3. \A e \in LiveOf({"resume"}) : e # c
  BY <1>1 DEF LiveOf
<1>4. /\ rows' \subseteq RowType /\ saved' \subseteq Workspaces /\ {listLoading, blank}' \subseteq BOOLEAN
      /\ \A r \in rows' : (r = NoRow /\ blank') \/ r.id \in Sids
  BY <1>1 DEF ConsoleInv, ListOK
<1>5. {resumingId, renameTarget}' \subseteq Names
  BY <1>1 DEF ConsoleInv, ListOK, Names
<1>6. ListOK'
  BY <1>1, <1>2, <1>3, <1>4, <1>5, ListShows
<1> QED
  BY <1>1, <1>2, <1>6, RouterStays DEF ConsoleInv

LEMMA ListDoneOK ==
  ASSUME ConsoleInv, NEW c \in calls, ListDone(c), UNCHANGED page
  PROVE  ConsoleInv'
<1>1. CallsOK' /\ PageOK' /\ RouterOK' /\ ListOK'
  BY RowsAnswered, ResumeAnswered, VolumesAnswered DEF ListDone
<1>2. UNCHANGED <<server, bounds>>
  BY DEF ListDone, FetchDone, ListStopDone, ListRestartDone, ListDeleteDone, HandleResumeDone,
         HandleDeleteWorkspaceDone, HandleRenameDone
<1> QED
  BY <1>1, <1>2, ServerStays, BoundsStay DEF ConsoleInv

----------------------------------------------------------------------------
(* The server.                                                             *)

\* What a step of the server has to show.
Served(c) ==
  /\ ServerOK' /\ ServerMoves
  /\ \E d : Keeps(c, d) /\ CallOK(d)' /\ calls' = (calls \ {c}) \cup {d}

LEMMA ServedOK ==
  ASSUME ConsoleInv, NEW c \in calls, Served(c), UNCHANGED <<router, page, list>>, BoundsOK'
  PROVE  ConsoleInv'
<1>1. ServerOK' /\ ServerMoves
  BY DEF Served
<1>2. PICK d : Keeps(c, d) /\ CallOK(d)' /\ calls' = (calls \ {c}) \cup {d}
  BY DEF Served
<1>3. CallsOK'
  BY <1>1, <1>2, CallsReplaced DEF ConsoleInv, router, Keeps
<1>4. PageOK'
  BY <1>1, <1>2, PageServed DEF ConsoleInv
<1>5. ListOK'
  <2>1. \A e \in LiveOf({"resume"}) : \E f \in LiveOf({"resume"})' : f.ws = e.ws
    BY <1>2 DEF LiveOf, Keeps
  <2> QED
    BY <2>1, ListAside DEF ConsoleInv
<1> QED
  BY <1>1, <1>3, <1>4, <1>5, RouterStays DEF ConsoleInv

Answered(c, ans, row) == [c EXCEPT !.at = "back", !.ans = ans, !.row = row]
Halfway(c) == [c EXCEPT !.at = "half"]

LEMMA AnsweredIs ==
  ASSUME NEW c \in CallType, NEW ans \in Answers, NEW row \in RowType,
         NEW d, d = Answered(c, ans, row)
  PROVE  /\ Keeps(c, d) /\ d \in CallType /\ d.at = "back" /\ d.ans = ans /\ d.row = row
         /\ d.rows = c.rows /\ d.to = c.to
<1>1. /\ d.op = c.op /\ d.id = c.id /\ d.ws = c.ws /\ d.to = c.to /\ d.prev = c.prev /\ d.n = c.n
      /\ d.live = c.live /\ d.at = "back" /\ d.ans = ans /\ d.row = row /\ d.rows = c.rows /\ d.vols = c.vols
  BY DEF Answered, CallType
<1>2. d \in CallType
  BY DEF Answered, CallType, Stages
<1> QED
  BY <1>1, <1>2 DEF Keeps

LEMMA AnswersOK ==
  ASSUME NEW c \in calls, CallOK(c), ServerOK', ServerMoves, route' = route,
         NEW ans \in Answers, NEW row \in RowType, Honest(row)', Answer(c, ans, row),
         c.op \in {"load", "poll"} => row.id \in {0, c.id},
         c.op \in Creates /\ ans = "ok" => row.id \in Sids
  PROVE  Served(c)
<1> PICK d : d = Answered(c, ans, row)
  OBVIOUS
<1>1. calls' = (calls \ {c}) \cup {d}
  BY DEF Answer, Becomes, Answered
<1>2. /\ Keeps(c, d) /\ d \in CallType /\ d.at = "back" /\ d.ans = ans /\ d.row = row
      /\ d.rows = c.rows /\ d.to = c.to
  BY AnsweredIs DEF CallOK
<1>3. CallOK(c)'
  BY StillOK
<1>4. CallOK(d)'
  BY <1>2, <1>3 DEF CallOK, Keeps
<1> QED
  BY <1>1, <1>2, <1>4 DEF Served

LEMMA Halves ==
  ASSUME NEW c \in calls, CallOK(c), ServerOK', ServerMoves, route' = route,
         Becomes(c, [c EXCEPT !.at = "half"]), c.at = "sent",
         c.op \in Creates => c.id \in Sids /\ srv'[c.id] # "none"
  PROVE  Served(c)
<1> PICK d : d = Halfway(c)
  OBVIOUS
<1>1. calls' = (calls \ {c}) \cup {d}
  BY DEF Becomes, Halfway
<1>2. /\ d.op = c.op /\ d.id = c.id /\ d.ws = c.ws /\ d.to = c.to /\ d.prev = c.prev /\ d.n = c.n
      /\ d.live = c.live /\ d.at = "half" /\ d.ans = c.ans /\ d.row = c.row /\ d.rows = c.rows
  BY DEF Halfway, CallType, CallOK
<1>3. d \in CallType
  BY DEF Halfway, CallType, Stages, CallOK
<1>4. CallOK(c)'
  BY StillOK
<1>5. CallOK(d)'
  BY <1>2, <1>3, <1>4 DEF CallOK
<1> QED
  BY <1>1, <1>2, <1>5 DEF Served, Keeps

LEMMA RowIs ==
  ASSUME ServerOK, NEW i
  PROVE  Row(i) \in RowType /\ Honest(Row(i)) /\ Row(i).id \in {0, i} /\ (i \in Listed => Row(i).id = i)
<1>1. CASE i \in Listed
  <2>1. i \in Sids /\ srv[i] \in {"running", "stopped"} /\ wsOf[i] \in Names /\ i \in 0..MaxSid
    BY <1>1, Nats DEF Listed, ServerOK
  <2>2. Row(i) = [id |-> i, ws |-> wsOf[i], st |-> srv[i]]
    BY <1>1 DEF Row
  <2>3. Row(i) \in RowType
    BY <2>1, <2>2 DEF RowType, Names
  <2> QED
    BY <2>1, <2>2, <2>3 DEF Honest, Known
<1>2. CASE i \notin Listed
  BY <1>2, NoRowIs DEF Row
<1> QED
  BY <1>1, <1>2

LEMMA Gets ==
  ASSUME ConsoleInv, NEW c \in calls, ServeGet(c), route' = route
  PROVE  Served(c)
<1>1. UNCHANGED server /\ c.op \notin Creates
      /\ (Answer(c, "ok", Row(c.id)) \/ Answer(c, "missing", Row(c.id)))
  BY DEF ServeGet, Creates
<1>2. ServerOK' /\ ServerMoves
  BY <1>1, ServerStays DEF ConsoleInv
<1> PICK row : row = Row(c.id)
  OBVIOUS
<1>3. row \in RowType /\ Honest(row) /\ row.id \in {0, c.id}
  BY RowIs DEF ConsoleInv
<1>4. Honest(row)'
  BY <1>2, <1>3, StillKnown
<1>5. {"ok", "missing"} \subseteq Answers
  BY DEF Answers
<1>6. CallOK(c)
  BY Taken DEF ConsoleInv
<1> QED
  BY <1>1, <1>2, <1>3, <1>4, <1>5, <1>6, AnswersOK

\* The session stops, if it runs.
LEMMA StopsServed ==
  ASSUME ConsoleInv, NEW c \in calls, ServeStop(c), route' = route
  PROVE  Served(c)
<1>1. UNCHANGED <<wsOf, vols>> /\ c.op \notin Creates /\ c.op \notin {"load", "poll"}
  BY DEF ServeStop, Creates
<1>2. CallOK(c) /\ {"ok", "failed"} \subseteq Answers
  BY Taken DEF ConsoleInv, Answers
<1>3. CASE c.at = "sent" /\ srv[c.id] = "running" /\ srv' = [srv EXCEPT ![c.id] = "stopped"]
           /\ Becomes(c, [c EXCEPT !.at = "half"])
  <2>1. ServerOK' /\ ServerMoves
    BY <1>1, <1>3 DEF ConsoleInv, ServerOK, ServerMoves
  <2> QED
    BY <1>1, <1>2, <1>3, <2>1, Halves
<1>4. CASE UNCHANGED srv /\ (Answer(c, "failed", NoRow) \/ Answer(c, "ok", Row(c.id)))
  <2>1. ServerOK' /\ ServerMoves
    BY <1>1, <1>4, ServerStays DEF ConsoleInv, server
  <2> PICK row : row = Row(c.id)
    OBVIOUS
  <2>2. row \in RowType /\ Honest(row)' /\ NoRow \in RowType /\ Honest(NoRow)'
    BY <2>1, RowIs, NoRowIs, StillKnown DEF ConsoleInv
  <2> QED
    BY <1>1, <1>2, <1>4, <2>1, <2>2, AnswersOK
<1> QED
  BY <1>3, <1>4 DEF ServeStop

LEMMA Ends ==
  ASSUME ServerOK, NEW i, srv' = [srv EXCEPT ![i] = "gone"], UNCHANGED <<wsOf, vols>>, srv[i] # "none"
  PROVE  ServerOK' /\ ServerMoves
  BY DEF ServerOK, ServerMoves

LEMMA DeletesServed ==
  ASSUME ConsoleInv, NEW c \in calls, ServeDelete(c), route' = route
  PROVE  Served(c)
<1>1. UNCHANGED <<wsOf, vols>> /\ c.op \notin Creates /\ c.op \notin {"load", "poll"}
      /\ (Answer(c, "ok", NoRow) \/ Answer(c, "missing", NoRow))
  BY DEF ServeDelete, Creates
<1>2. CallOK(c) /\ {"ok", "missing"} \subseteq Answers
  BY Taken DEF ConsoleInv, Answers
<1>3. ServerOK' /\ ServerMoves
  <2>1. CASE c.id \in Listed
    BY <1>1, <2>1, Ends DEF ServeDelete, Listed, ConsoleInv
  <2>2. CASE c.id \notin Listed
    BY <1>1, <2>2, ServerStays DEF ServeDelete, ConsoleInv, server
  <2> QED
    BY <2>1, <2>2
<1>4. NoRow \in RowType /\ Honest(NoRow)'
  BY <1>3, NoRowIs, StillKnown
<1> QED
  BY <1>1, <1>2, <1>3, <1>4, AnswersOK

\* The eviction of a stopped session, if there is one.
Evicted(w) ==
  LET of == {i \in Sids : wsOf[i] = w /\ srv[i] = "stopped"}
  IN  IF of = {} THEN srv ELSE [srv EXCEPT ![CHOOSE i \in of : TRUE] = "gone"]

LEMMA EvictedIs ==
  ASSUME ServerOK, NEW w, NEW e, e = Evicted(w)
  PROVE  /\ e \in [Sids -> {"none", "running", "stopped", "gone"}]
         /\ \A i \in Sids : e[i] = srv[i] \/ (srv[i] = "stopped" /\ e[i] = "gone")
<1> DEFINE of == {i \in Sids : wsOf[i] = w /\ srv[i] = "stopped"}
<1>1. CASE of = {}
  BY <1>1 DEF Evicted, ServerOK
<1>2. CASE of # {}
  <2>1. PICK i \in of : i = CHOOSE j \in of : TRUE
    BY <1>2
  <2>2. e = [srv EXCEPT ![i] = "gone"]
    BY <1>2, <2>1 DEF Evicted
  <2> QED
    BY <2>1, <2>2 DEF ServerOK
<1> QED
  BY <1>1, <1>2

\* What Create comes to.
LEMMA CreateIs ==
  ASSUME NEW c, NEW w, Create(c, w)
  PROVE  \/ /\ \E r \in Listed : Answer(c, "ok", Row(r))
            /\ UNCHANGED server
         \/ /\ \E new \in Sids : /\ srv[new] = "none" /\ srv' = [Evicted(w) EXCEPT ![new] = "running"]
                                 /\ wsOf' = [wsOf EXCEPT ![new] = w] /\ vols' = vols \cup {w}
                                 /\ Answer(c, "ok", [id |-> new, ws |-> w, st |-> "running"])
         \/ srv' = Evicted(w) /\ Answer(c, "failed", NoRow) /\ UNCHANGED <<wsOf, vols>>
<1> DEFINE running == {i \in Sids : wsOf[i] = w /\ srv[i] = "running"}
           free == {i \in Sids : srv[i] = "none"}
<1>1. CASE running # {}
  <2>1. PICK r \in running : r = CHOOSE i \in running : TRUE
    BY <1>1
  <2>2. Answer(c, "ok", Row(r)) /\ UNCHANGED server
    BY <1>1, <2>1 DEF Create
  <2> QED
    BY <2>1, <2>2 DEF Listed
<1>2. CASE running = {}
  <2>1. CASE /\ free # {} /\ srv' = [Evicted(w) EXCEPT ![CHOOSE i \in free : TRUE] = "running"]
             /\ wsOf' = [wsOf EXCEPT ![CHOOSE i \in free : TRUE] = w] /\ vols' = vols \cup {w}
             /\ Answer(c, "ok", [id |-> CHOOSE i \in free : TRUE, ws |-> w, st |-> "running"])
    <3>1. PICK new \in free : new = CHOOSE i \in free : TRUE
      BY <2>1
    <3> QED
      BY <2>1, <3>1
  <2>2. CASE srv' = Evicted(w) /\ Answer(c, "failed", NoRow) /\ UNCHANGED <<wsOf, vols>>
    BY <2>2
  <2> QED
    BY <1>2, <2>1, <2>2 DEF Create, Evicted
<1> QED
  BY <1>1, <1>2

LEMMA CreatesServed ==
  ASSUME ConsoleInv, NEW c \in calls, NEW w \in Workspaces, Create(c, w), route' = route,
         c.op \in Creates
  PROVE  Served(c)
<1>1. CallOK(c) /\ {"ok", "failed"} \subseteq Answers /\ ServerOK /\ c.op \notin {"load", "poll"}
  BY Taken DEF ConsoleInv, Answers, Creates
<1>2. ASSUME NEW r \in Listed, Answer(c, "ok", Row(r)), UNCHANGED server
      PROVE  Served(c)
  <2>1. ServerOK' /\ ServerMoves
    BY <1>1, <1>2, ServerStays
  <2> PICK row : row = Row(r)
    OBVIOUS
  <2>2. row \in RowType /\ Honest(row)' /\ row.id \in Sids
    BY <1>1, <2>1, RowIs, StillKnown DEF Listed
  <2> QED
    BY <1>1, <1>2, <2>1, <2>2, AnswersOK
<1> PICK e : e = Evicted(w)
  OBVIOUS
<1>3. /\ e \in [Sids -> {"none", "running", "stopped", "gone"}]
      /\ \A i \in Sids : e[i] = srv[i] \/ (srv[i] = "stopped" /\ e[i] = "gone")
  BY <1>1, EvictedIs
<1>4. ASSUME NEW new \in Sids, srv[new] = "none", srv' = [e EXCEPT ![new] = "running"],
             wsOf' = [wsOf EXCEPT ![new] = w], vols' = vols \cup {w},
             NEW row, row = [id |-> new, ws |-> w, st |-> "running"], Answer(c, "ok", row)
      PROVE  Served(c)
  <2>1. ServerOK'
    BY <1>1, <1>3, <1>4 DEF ServerOK, Names
  <2>2. ServerMoves
    BY <1>3, <1>4 DEF ServerMoves
  <2>3. row \in RowType /\ row.id = new /\ row.st = "running"
    BY <1>4, Nats DEF RowType
  <2>4. Honest(row)'
    BY <1>3, <1>4, <2>3 DEF Honest, Known
  <2> QED
    BY <1>1, <1>4, <2>1, <2>2, <2>3, <2>4, AnswersOK
<1>5. ASSUME srv' = e, Answer(c, "failed", NoRow), UNCHANGED <<wsOf, vols>>
      PROVE  Served(c)
  <2>1. ServerOK' /\ ServerMoves
    BY <1>1, <1>3, <1>5 DEF ServerOK, ServerMoves
  <2>2. NoRow \in RowType /\ Honest(NoRow)'
    BY <2>1, NoRowIs, StillKnown
  <2> QED
    BY <1>1, <1>5, <2>1, <2>2, AnswersOK
<1> QED
  BY <1>2, <1>4, <1>5, CreateIs

LEMMA RestartsServed ==
  ASSUME ConsoleInv, NEW c \in calls, ServeRestart(c), route' = route
  PROVE  Served(c)
<1>1. c.op \in Creates /\ c.op \notin {"load", "poll"} /\ CallOK(c) /\ ServerOK /\ "failed" \in Answers
  BY Taken DEF ServeRestart, Creates, ConsoleInv, Answers
<1>2. CASE c.at = "sent" /\ c.id \in Listed /\ srv' = [srv EXCEPT ![c.id] = "gone"]
           /\ Becomes(c, [c EXCEPT !.at = "half"]) /\ UNCHANGED <<wsOf, vols>>
  <2>1. ServerOK' /\ ServerMoves
    BY <1>1, <1>2, Ends DEF Listed
  <2>2. c.id \in Sids /\ srv'[c.id] # "none"
    BY <1>1, <1>2 DEF Listed, ServerOK
  <2> QED
    BY <1>1, <1>2, <2>1, <2>2, Halves
<1>3. CASE Answer(c, "failed", NoRow) /\ UNCHANGED server
  <2>1. ServerOK' /\ ServerMoves
    BY <1>1, <1>3, ServerStays
  <2>2. NoRow \in RowType /\ Honest(NoRow)'
    BY <2>1, NoRowIs, StillKnown
  <2> QED
    BY <1>1, <1>3, <2>1, <2>2, AnswersOK
<1>4. CASE c.at = "half" /\ Create(c, wsOf[c.id])
  <2>1. wsOf[c.id] \in Workspaces
    BY <1>1, <1>4 DEF CallOK, ServerOK
  <2> QED
    BY <1>1, <1>4, <2>1, CreatesServed
<1> QED
  BY <1>2, <1>3, <1>4 DEF ServeRestart

LEMMA ResumesServed ==
  ASSUME ConsoleInv, NEW c \in calls, ServeResume(c), route' = route
  PROVE  Served(c)
<1>1. c.op \in Creates /\ c.ws \in Workspaces /\ Create(c, c.ws)
  BY Taken DEF ServeResume, Creates, ConsoleInv, CallOK
<1> QED
  BY <1>1, CreatesServed

LEMMA VolumesServed ==
  ASSUME ConsoleInv, NEW c \in calls, ServeDeleteWorkspace(c) \/ ServeRename(c), route' = route
  PROVE  Served(c)
<1>1. UNCHANGED srv /\ c.op \notin Creates /\ c.op \notin {"load", "poll"}
      /\ (Answer(c, "ok", NoRow) \/ Answer(c, "failed", NoRow))
  BY DEF ServeDeleteWorkspace, ServeRename, Creates
<1>2. CallOK(c) /\ {"ok", "failed"} \subseteq Answers /\ ServerOK
      /\ (c.op = "rename" => c.to \in Workspaces)
  BY Taken DEF ConsoleInv, Answers, CallOK
<1>3. ServerMoves
  BY <1>1 DEF ServerMoves
<1>4. ServerOK'
  <2>1. CASE ServeDeleteWorkspace(c)
    BY <1>2, <2>1 DEF ServeDeleteWorkspace, ServerOK
  <2>2. CASE ServeRename(c) /\ UNCHANGED <<wsOf, vols>>
    BY <1>1, <1>2, <2>2 DEF ServerOK
  <2>3. CASE /\ vols' = (vols \ {c.ws}) \cup {c.to} /\ c.op = "rename"
             /\ wsOf' = [i \in Sids |-> IF wsOf[i] = c.ws /\ srv[i] = "stopped" THEN c.to ELSE wsOf[i]]
    BY <1>1, <1>2, <2>3 DEF ServerOK, Names
  <2> QED
    BY <2>1, <2>2, <2>3 DEF ServeRename
<1>5. NoRow \in RowType /\ Honest(NoRow)'
  BY <1>3, NoRowIs, StillKnown
<1> QED
  BY <1>1, <1>2, <1>3, <1>4, <1>5, AnswersOK

Gathered(c, rs, at, ans) == [c EXCEPT !.rows = rs, !.at = at, !.ans = ans]
Measured(c, vs, at, ans) == [c EXCEPT !.vols = vs, !.at = at, !.ans = ans]

LEMMA FetchesServed ==
  ASSUME ConsoleInv, NEW c \in calls, ServeFetch(c), route' = route
  PROVE  Served(c)
<1>1. UNCHANGED server /\ c.op = "fetch" /\ c.op \notin Creates /\ CallOK(c) /\ ServerOK
  BY Taken DEF ServeFetch, Creates, ConsoleInv
<1>2. ServerOK' /\ ServerMoves /\ CallOK(c)'
  BY <1>1, ServerStays, StillOK
<1>3. \E rs \in SUBSET RowType, vs \in SUBSET Workspaces, at \in Stages, ans \in Answers :
        /\ at # "half" /\ \A r \in rs : r.id \in Sids
        /\ \/ calls' = (calls \ {c}) \cup {Gathered(c, rs, at, ans)}
           \/ calls' = (calls \ {c}) \cup {Measured(c, vs, at, ans)}
  <2>1. {"none", "ok"} \subseteq Answers /\ {"rows", "vols", "back"} \subseteq Stages
    BY DEF Answers, Stages
  <2>2. PICK rs : rs = {Row(i) : i \in Listed}
    OBVIOUS
  <2>3. rs \subseteq RowType /\ \A r \in rs : r.id \in Sids
    BY <1>1, <2>2, RowIs DEF Listed
  <2>4. vols \subseteq Workspaces
    BY <1>1 DEF ServerOK
  <2>5. CASE calls' = (calls \ {c}) \cup {Gathered(c, rs, "rows", "none")}
    BY <2>1, <2>3, <2>4, <2>5
  <2>6. CASE calls' = (calls \ {c}) \cup {Gathered(c, rs, "back", "ok")}
    BY <2>1, <2>3, <2>4, <2>6
  <2>7. CASE calls' = (calls \ {c}) \cup {Measured(c, vols, "vols", "none")}
    BY <2>1, <2>3, <2>4, <2>7
  <2>8. CASE calls' = (calls \ {c}) \cup {Measured(c, vols, "back", "ok")}
    BY <2>1, <2>3, <2>4, <2>8
  <2> QED
    BY <2>2, <2>5, <2>6, <2>7, <2>8 DEF ServeFetch, Becomes, Gathered, Measured
<1>4. PICK rs \in SUBSET RowType, vs \in SUBSET Workspaces, at \in Stages, ans \in Answers :
        /\ at # "half" /\ \A r \in rs : r.id \in Sids
        /\ \/ calls' = (calls \ {c}) \cup {Gathered(c, rs, at, ans)}
           \/ calls' = (calls \ {c}) \cup {Measured(c, vs, at, ans)}
  BY <1>3
<1>5. PICK d : calls' = (calls \ {c}) \cup {d} /\ d \in {Gathered(c, rs, at, ans), Measured(c, vs, at, ans)}
  BY <1>4
<1>6. c \in CallType
  BY <1>1 DEF CallOK
<1>7. /\ d.op = c.op /\ d.id = c.id /\ d.ws = c.ws /\ d.to = c.to /\ d.prev = c.prev /\ d.live = c.live
      /\ d.at = at /\ d.row = c.row /\ d.rows \in {c.rows, rs}
  BY <1>5, <1>6 DEF Gathered, Measured, CallType
<1>8. d \in CallType
  <2>1. CASE d = Gathered(c, rs, at, ans)
    BY <1>6, <2>1 DEF Gathered, CallType
  <2>2. CASE d = Measured(c, vs, at, ans)
    BY <1>6, <2>2 DEF Measured, CallType
  <2> QED
    BY <1>5, <2>1, <2>2
<1>9. CallOK(d)'
  BY <1>1, <1>2, <1>4, <1>7, <1>8 DEF CallOK
<1> QED
  BY <1>2, <1>5, <1>7, <1>9 DEF Served, Keeps

LEMMA Spends ==
  ASSUME BoundsOK, UNCHANGED <<acts, others>>, faults' = faults \/ (faults < MaxFaults /\ faults' = faults + 1)
  PROVE  BoundsOK'
  BY Nats DEF BoundsOK

LEMMA ServeOK ==
  ASSUME ConsoleInv, NEW c \in calls, Serve(c), UNCHANGED <<page, list>>
  PROVE  ConsoleInv'
<1>1. UNCHANGED router /\ route' = route /\ UNCHANGED <<acts, others>>
  BY DEF Serve, router
<1>2. Served(c)
  BY <1>1, Gets, StopsServed, DeletesServed, RestartsServed, ResumesServed, VolumesServed, FetchesServed DEF Serve
<1>3. faults' = faults \/ (faults < MaxFaults /\ faults' = faults + 1)
  BY DEF Serve, ServeGet, ServeStop, ServeDelete, ServeRestart, ServeResume, ServeDeleteWorkspace,
         ServeRename, ServeFetch, Create
<1>4. BoundsOK'
  BY <1>1, <1>3, Spends DEF ConsoleInv
<1> QED
  BY <1>1, <1>2, <1>4, ServedOK

LEMMA LostOK ==
  ASSUME ConsoleInv, NEW c \in calls, Lost(c), UNCHANGED <<page, list>>
  PROVE  ConsoleInv'
<1>1. /\ UNCHANGED <<server, router, acts, others>> /\ Answer(c, "failed", NoRow) /\ route' = route
      /\ faults < MaxFaults /\ faults' = faults + 1
  BY DEF Lost, router
<1>2. ServerOK' /\ ServerMoves
  BY <1>1, ServerStays DEF ConsoleInv
<1>3. CallOK(c) /\ "failed" \in Answers /\ NoRow \in RowType /\ Honest(NoRow)' /\ NoRow.id = 0
  BY <1>2, Taken, NoRowIs, StillKnown DEF ConsoleInv, Answers
<1>4. Served(c)
  BY <1>1, <1>2, <1>3, AnswersOK
<1>5. BoundsOK'
  BY <1>1, Spends DEF ConsoleInv
<1> QED
  BY <1>1, <1>4, <1>5, ServedOK

LEMMA ElsewhereOK ==
  ASSUME ConsoleInv, Elsewhere, UNCHANGED <<page, list>>
  PROVE  ConsoleInv'
<1>1. UNCHANGED <<wsOf, vols, calls, router, acts, faults>> /\ others < MaxOthers /\ others' = others + 1
  BY DEF Elsewhere
<1>2. PICK i \in Listed, st \in {"stopped", "gone"} : srv' = [srv EXCEPT ![i] = st]
  BY DEF Elsewhere
<1>3. ServerOK' /\ ServerMoves
  BY <1>1, <1>2 DEF ConsoleInv, ServerOK, ServerMoves, Listed
<1>4. CallsOK' /\ PageOK' /\ ListOK'
  <2>1. LiveOf(PageActs)' = LiveOf(PageActs)
    BY <1>1 DEF LiveOf
  <2> QED
    BY <1>1, <1>3, <2>1, CallsKept, PageAside, ListSame DEF ConsoleInv, router
<1>5. BoundsOK'
  BY <1>1, Nats DEF ConsoleInv, BoundsOK
<1> QED
  BY <1>1, <1>3, <1>4, <1>5, RouterStays DEF ConsoleInv

----------------------------------------------------------------------------
(* Navigation.                                                             *)

\* The read of the component that is mounted, among the calls that are left.
LEMMA Navigates ==
  ASSUME NEW cs, IsFiniteSet(cs), Cardinality(cs) <= MaxCalls, \A e \in cs : CallOK(e)',
         NEW op \in {"load", "fetch"}, NEW id \in Ids,
         op = "load" => id = route', op = "fetch" <=> route' = 0,
         calls' = With(cs, Call(op, id, NoWs))
  PROVE  CallsOK' /\ \E d : d.op = op /\ d.live /\ calls' = cs \cup {d}
<1> DEFINE k == Call(op, id, NoWs)
<1>1. PICK m \in 1..(Cardinality(cs) + 1) : calls' = cs \cup {Numbered(k, m)}
  BY WithIs
<1>2. m \in Numbers
  BY <1>1, FS_CardinalityType, Nats DEF Numbers
<1> PICK d : d = Numbered(k, m)
  OBVIOUS
<1>3. op \in Ops /\ op \notin {"poll", "refetch", "resume", "rename"} /\ op \notin Creates /\ NoWs \in Names
      /\ (op \in ListOps <=> route' = 0)
  BY DEF Ops, PageOps, ListOps, Names, Creates
<1>4. Fresh(d) /\ d.op = op /\ d.id = id /\ d.prev = NoRow
  BY <1>2, <1>3, PlainCallIs
<1>5. d \in CallType /\ d.live /\ d.row = NoRow /\ d.rows = {}
  BY <1>4 DEF Fresh
<1>6. Honest(NoRow)' /\ NoRow.id = 0
  BY NoRowIs DEF Honest, Known
<1>7. CallOK(d)'
  <2>1. d.op \in {"load", "poll"} => route' # 0 /\ d.id = route' /\ d.row.id \in {0, d.id}
    BY <1>3, <1>4, <1>5, <1>6
  <2>2. d.live => (d.op \in ListOps <=> route' = 0)
    BY <1>3, <1>4
  <2> QED
    BY <1>3, <1>4, <1>5, <1>6, <2>1, <2>2 DEF CallOK
<1>8. Cap(cs \cup {d})
  <2>1. d.op \in Reads
    BY <1>4 DEF Reads
  <2> QED
    BY <2>1, CapAdded
<1> QED
  BY <1>1, <1>4, <1>5, <1>7, <1>8 DEF CallsOK, Cap

\* There is room for that read: the read of the component that goes is gone.
LEMMA RoomForRead ==
  ASSUME CallsOK, NEW S, S \subseteq calls, \A c \in S : c.op \notin Reads
  PROVE  IsFiniteSet(S) /\ Cardinality(S) <= MaxCalls
<1>1. IsFiniteSet(calls) /\ Cardinality(calls) \in Nat /\ Cardinality(calls) <= MaxCalls + 1 /\ MaxCalls \in Nat
  BY CapFacts, Nats DEF CallsOK, Cap
<1>2. IsFiniteSet(S) /\ Cardinality(S) \in Nat /\ Cardinality(S) <= Cardinality(calls)
  BY <1>1, FS_Subset, FS_CardinalityType
<1>3. CASE Cardinality(calls) <= MaxCalls
  BY <1>1, <1>2, <1>3
<1>4. CASE Cardinality(calls) = MaxCalls + 1
  <2>1. PICK r \in calls : r.op \in Reads
    BY <1>4 DEF CallsOK, Cap
  <2>2. S \subseteq calls \ {r}
    BY <2>1
  <2>3. IsFiniteSet(calls \ {r}) /\ Cardinality(calls \ {r}) <= MaxCalls /\ Cardinality(calls \ {r}) \in Nat
    BY <2>1, CapRemoved, FS_CardinalityType DEF CallsOK
  <2>4. Cardinality(S) <= Cardinality(calls \ {r})
    BY <2>2, <2>3, FS_Subset
  <2> QED
    BY <1>1, <1>2, <2>3, <2>4
<1> QED
  BY <1>1, <1>3, <1>4

\* The calls of a component that has gone.
Left(c) == [c EXCEPT !.live = FALSE]

LEMMA LeftIs == ASSUME NEW c \in CallType, ~c.live PROVE Left(c) = c
  BY DEF Left, CallType

LEMMA LeftOK ==
  ASSUME CallsOK, NEW c \in calls, UNCHANGED server, c.op \notin Reads \cup {"poll", "refetch"},
         NEW e, e = Left(c)
  PROVE  CallOK(e)' /\ ~e.live
<1>1. c \in CallType /\ CallOK(c)
  BY Taken
<1>2. /\ e.op = c.op /\ e.id = c.id /\ e.ws = c.ws /\ e.to = c.to /\ e.prev = c.prev /\ ~e.live
      /\ e.at = c.at /\ e.ans = c.ans /\ e.row = c.row /\ e.rows = c.rows
  BY <1>1 DEF Left, CallType
<1>3. e \in CallType
  BY <1>1 DEF Left, CallType
<1>4. Honest(c.row)' /\ Honest(c.prev)'
  BY <1>1 DEF CallOK, Honest, Known, server
<1> QED
  BY <1>1, <1>2, <1>3, <1>4 DEF CallOK, server, Reads

\* What remains of the calls when every call of the component goes or is left.
LEMMA LeftBehind ==
  ASSUME ConsoleInv, UNCHANGED server, NEW S, S \subseteq calls,
         \A c \in S : c.op \notin Reads \cup {"poll", "refetch"},
         NEW cs, \A e \in cs : \E c \in S : e = Left(c)
  PROVE  IsFiniteSet(cs) /\ Cardinality(cs) <= MaxCalls /\ \A e \in cs : CallOK(e)' /\ ~e.live
<1>1. IsFiniteSet(S) /\ Cardinality(S) <= MaxCalls
  BY RoomForRead DEF ConsoleInv
<1>2. IsFiniteSet(cs) /\ Cardinality(cs) <= Cardinality(S)
  <2> DEFINE f == [c \in S |-> Left(c)]
             T == {f[c] : c \in S}
  <2>1. f = [c \in S |-> f[c]] /\ cs \subseteq T
    OBVIOUS
  <2> HIDE DEF f
  <2>2. IsFiniteSet(T) /\ Cardinality(T) <= Cardinality(S)
    BY <1>1, <2>1, ImageIsNoLarger
  <2> HIDE DEF T
  <2>3. IsFiniteSet(cs) /\ Cardinality(cs) <= Cardinality(T)
    BY <2>1, <2>2, FS_Subset
  <2> QED
    BY <1>1, <2>2, <2>3, FS_CardinalityType
<1>3. Cardinality(cs) <= MaxCalls
  BY <1>1, <1>2, FS_CardinalityType, Nats
<1>4. ASSUME NEW e \in cs PROVE CallOK(e)' /\ ~e.live
  <2>1. PICK c \in S : e = Left(c)
    BY <1>4
  <2> QED
    BY <2>1, LeftOK DEF ConsoleInv
<1> QED
  BY <1>2, <1>3, <1>4

\* A component that is mounted anew has nothing under way but its read.
LEMMA Mounted ==
  ASSUME PageFresh, ListFresh, NEW cs, \A e \in cs : ~e.live, NEW d, d.op \in {"load", "fetch"}, calls' = cs \cup {d}
  PROVE  PageOK' /\ ListOK'
<1>1. LiveOf({"page restart"})' = {} /\ LiveOf({"page delete", "refetch"})' = {}
  BY DEF LiveOf
<1>2. OneWhile(restarting, LiveOf({"page restart"}))' /\ OneWhile(deleting, LiveOf({"page delete", "refetch"}))'
  BY <1>1 DEF OneWhile, PageFresh
<1>3. Known(NoRow)' /\ NoRow \in RowType /\ NoRow.id \notin Sids
  BY NoRowIs, Nats DEF Known
<1>4. StoppedIsBacked'
  BY <1>3 DEF StoppedIsBacked, PageFresh
<1>5. PageOK'
  BY <1>2, <1>3, <1>4 DEF PageOK, PageFresh
<1>6. ListOK'
  BY Nats DEF ListOK, ListFresh, Names
<1> QED
  BY <1>5, <1>6

LEMMA RouteOK ==
  ASSUME ConsoleInv, Route
  PROVE  ConsoleInv'
<1>1. nav # Here /\ nav' = Here /\ route' = nav /\ UNCHANGED <<server, bounds>>
  BY DEF Route
<1>2. nav \in Ids /\ RouterOK'
  <2>1. nav \in 0..Here /\ nav # Here
    BY <1>1 DEF ConsoleInv, RouterOK
  <2>2. nav \in 0..MaxSid /\ Here \in 0..Here
    BY <2>1, Nats
  <2> QED
    BY <1>1, <2>2 DEF RouterOK, Ids
<1>3. ServerOK' /\ ServerMoves /\ BoundsOK'
  BY <1>1, ServerStays, BoundsStay DEF ConsoleInv
<1>4. SUFFICES CallsOK' /\ PageOK' /\ ListOK'
  BY <1>2, <1>3 DEF ConsoleInv
<1>5. \A c \in calls : /\ CallOK(c)
                       /\ c.op \in {"load", "poll", "refetch"} => route # 0
                       /\ c.op = "fetch" => route = 0
  BY Taken DEF ConsoleInv, CallOK, ListOps
<1>6. \A S, cs : /\ S \subseteq calls /\ \A c \in S : c.op \notin Reads \cup {"poll", "refetch"}
                 /\ \A e \in cs : \E c \in S : e = Left(c)
                 => IsFiniteSet(cs) /\ Cardinality(cs) <= MaxCalls /\ \A e \in cs : CallOK(e)' /\ ~e.live
  <2> TAKE S, cs
  <2> QED
    BY <1>1, LeftBehind
<1>7. CASE route = 0 /\ nav # 0 /\ PageFresh /\ ListFresh /\ calls' = Effect(ListUnmount(calls), nav)
  <2> PICK S : S = {c \in calls : c.op # "fetch"}
    OBVIOUS
  <2> PICK cs : cs = ListUnmount(calls)
    OBVIOUS
  <2>1. \A c \in S : c.op \notin Reads \cup {"poll", "refetch"}
    BY <1>5, <1>7 DEF Reads
  <2>2. \A e \in cs : \E c \in S : e = Left(c)
    <3>1. \A e \in cs : \E c \in S : e = IF c.op \in ListOps THEN Left(c) ELSE c
      BY DEF ListUnmount, Left
    <3>2. \A c \in S : c \in CallType /\ (c.op \notin ListOps => ~c.live)
      BY <1>5, <1>7 DEF CallOK, CallType, Ops
    <3> QED
      BY <3>1, <3>2, LeftIs
  <2>3. IsFiniteSet(cs) /\ Cardinality(cs) <= MaxCalls /\ \A e \in cs : CallOK(e)' /\ ~e.live
    <3>1. S \subseteq calls
      OBVIOUS
    <3> QED
      BY <1>6, <2>1, <2>2, <3>1, ZenonT(60)
  <2>4. calls' = With(cs, Call("load", nav, NoWs))
    BY <1>7 DEF Effect
  <2>5. \A op \in {"load", "fetch"} : op = "load" /\ calls' = With(cs, Call(op, nav, NoWs)) =>
          CallsOK' /\ \E d : d.op = op /\ d.live /\ calls' = cs \cup {d}
    BY <1>1, <1>2, <1>7, <2>3, Navigates
  <2>6. CallsOK' /\ \E d : d.op = "load" /\ d.live /\ calls' = cs \cup {d}
    BY <2>4, <2>5, Zenon
  <2>7. PICK d : d.op \in {"load", "fetch"} /\ calls' = cs \cup {d}
    BY <2>6
  <2>8. \A e \in cs : ~e.live
    BY <2>3
  <2>9. PageFresh /\ ListFresh
    BY <1>7
  <2>10. PageOK' /\ ListOK'
    BY <2>7, <2>8, <2>9, Mounted
  <2> QED
    BY <2>6, <2>10
<1>8. CASE route # 0 /\ nav = 0 /\ PageFresh /\ ListFresh /\ calls' = Fetch(PageUnmount(calls))
  <2> PICK S : S = {c \in calls : c.op \notin {"load", "poll"} /\ c.op # "refetch"}
    OBVIOUS
  <2> PICK cs : cs = PageUnmount(calls)
    OBVIOUS
  <2>1. \A c \in S : c.op \notin Reads \cup {"poll", "refetch"}
    BY <1>5, <1>8 DEF Reads
  <2>2. \A e \in cs : \E c \in S : e = Left(c)
    <3>1. \A e \in cs : \E c \in S : e = IF c.op \in PageOps THEN Left(c) ELSE c
      BY DEF PageUnmount, Left, EffectCleanup
    <3>2. \A c \in S : c \in CallType /\ (c.op \notin PageOps => ~c.live)
      BY <1>5, <1>8 DEF CallOK, CallType, Ops
    <3> QED
      BY <3>1, <3>2, LeftIs
  <2>3. IsFiniteSet(cs) /\ Cardinality(cs) <= MaxCalls /\ \A e \in cs : CallOK(e)' /\ ~e.live
    <3>1. S \subseteq calls
      OBVIOUS
    <3> QED
      BY <1>6, <2>1, <2>2, <3>1, Zenon
  <2>4. calls' = With(cs, Call("fetch", 0, NoWs))
    BY <1>8 DEF Fetch
  <2>5. \A op \in {"load", "fetch"} : op = "fetch" /\ calls' = With(cs, Call(op, 0, NoWs)) =>
          CallsOK' /\ \E d : d.op = op /\ d.live /\ calls' = cs \cup {d}
    BY <1>1, <1>2, <1>8, <2>3, Navigates
  <2>6. CallsOK' /\ \E d : d.op = "fetch" /\ d.live /\ calls' = cs \cup {d}
    BY <2>4, <2>5, Zenon
  <2>7. PICK d : d.op \in {"load", "fetch"} /\ calls' = cs \cup {d}
    BY <2>6
  <2>8. \A e \in cs : ~e.live
    BY <2>3
  <2>9. PageFresh /\ ListFresh
    BY <1>8
  <2>10. PageOK' /\ ListOK'
    BY <2>7, <2>8, <2>9, Mounted
  <2> QED
    BY <2>6, <2>10
<1>9. CASE /\ 0 \notin {route, nav} /\ nav # route
           /\ calls' = Effect(EffectCleanup(calls), nav) /\ UNCHANGED <<page, list>>
  <2> PICK cs : cs = EffectCleanup(calls)
    OBVIOUS
  <2>1. cs = {c \in calls : c.op \notin {"load", "poll"}}
    BY DEF EffectCleanup
  <2>2. \A c \in cs : c.op \notin Reads
    BY <1>5, <1>9, <2>1 DEF Reads
  <2>3. IsFiniteSet(cs) /\ Cardinality(cs) <= MaxCalls
    BY <2>1, <2>2, RoomForRead DEF ConsoleInv
  <2>4. ASSUME NEW e \in cs PROVE CallOK(e)'
    <3>1. CallOK(e) /\ e.op \notin {"load", "poll"}
      BY <1>5, <2>1
    <3>2. Honest(e.row)' /\ Honest(e.prev)'
      BY <1>3, <3>1, StillKnown DEF CallOK
    <3> QED
      BY <1>1, <1>9, <3>1, <3>2 DEF CallOK, server
  <2>5. calls' = With(cs, Call("load", nav, NoWs))
    BY <1>9 DEF Effect
  <2>6. \A op \in {"load", "fetch"} : op = "load" /\ calls' = With(cs, Call(op, nav, NoWs)) =>
          CallsOK' /\ \E d : d.op = op /\ d.live /\ calls' = cs \cup {d}
    BY <1>1, <1>2, <1>9, <2>3, <2>4, Navigates
  <2>7. CallsOK' /\ \E d : d.op = "load" /\ d.live /\ calls' = cs \cup {d}
    BY <2>5, <2>6, Zenon
  <2>8. PICK d : d.op = "load" /\ calls' = cs \cup {d}
    BY <2>7
  <2>9. \A e \in calls \cup calls' : e.op \notin {"load", "poll"} => (e \in calls <=> e \in calls')
    BY <2>1, <2>8
  <2>10. PageOK'
    BY <1>1, <1>9, <2>9, PageStays DEF PageActs
  <2>11. ListOK'
    BY <1>9, <2>9, ListAside DEF LiveOf, ConsoleInv
  <2> QED
    BY <2>7, <2>10, <2>11
<1>10. CASE nav = route /\ UNCHANGED <<calls, page, list>>
  <2>1. route' = route
    BY <1>1, <1>10
  <2> QED
    BY <1>1, <1>3, <1>10, <2>1, CallsKept, PageStays, ListSame DEF ConsoleInv
<1> QED
  BY <1>7, <1>8, <1>9, <1>10 DEF Route

LEMMA FollowOK ==
  ASSUME ConsoleInv, Follow
  PROVE  ConsoleInv'
<1>1. UNCHANGED <<server, calls, route, page, list>> /\ Act /\ ~blank
  BY DEF Follow
<1>2. RouterOK'
  <2>1. nav' \in Sids \cup {0}
    BY <1>1 DEF Follow, ConsoleInv, ListOK
  <2> QED
    BY <1>1, <2>1, Goes DEF ConsoleInv
<1> QED
  BY <1>1, <1>2, ServerStays, CallsKept, PageStays, ListSame, ActsOnce DEF ConsoleInv

----------------------------------------------------------------------------
(* The theorems.                                                           *)

LEMMA InitOK == Init => ConsoleInv
<1> SUFFICES ASSUME Init PROVE ConsoleInv
  OBVIOUS
<1>1. ServerOK
  <2>1. PICK st \in {"running", "stopped"} : srv = [i \in Sids |-> IF i = 1 THEN st ELSE "none"]
    BY DEF Init, ApiInit
  <2>2. wsOf = [i \in Sids |-> IF i = 1 THEN FirstWs ELSE NoWs] /\ vols = {FirstWs}
    BY DEF Init, ApiInit
  <2> QED
    BY <2>1, <2>2, Nats DEF ServerOK, Names
<1>2. RouterOK /\ BoundsOK
  <2>1. route \in {0, 1} /\ nav = Here /\ acts = 0 /\ others = 0 /\ faults = 0
    BY DEF Init, ApiInit
  <2>2. {0, 1} \subseteq 0..MaxSid /\ Here \in 0..Here
    BY Nats
  <2> QED
    BY <2>1, <2>2, Nats DEF RouterOK, BoundsOK
<1>3. \E op \in {"load", "fetch"} : /\ calls = With({}, Call(op, route, NoWs))
                                    /\ op = "fetch" <=> route = 0
  <2>1. CASE route = 0 /\ calls = Fetch({})
    BY <2>1 DEF Fetch
  <2>2. CASE route = 1 /\ calls = Effect({}, 1)
    BY <2>2 DEF Effect
  <2> QED
    BY <2>1, <2>2 DEF Init
<1>4. PICK op \in {"load", "fetch"} : calls = With({}, Call(op, route, NoWs)) /\ (op = "fetch" <=> route = 0)
  BY <1>3
<1>5. IsFiniteSet({}) /\ Cardinality({}) = 0
  BY FS_EmptySet
<1>6. PICK m \in 1..(Cardinality({}) + 1) : calls = {} \cup {Numbered(Call(op, route, NoWs), m)}
  BY <1>4, <1>5, WithIs
<1> PICK d : d = Numbered(Call(op, route, NoWs), m)
  OBVIOUS
<1>7. m \in Numbers /\ route \in Ids
  BY <1>2, <1>5, <1>6, Nats DEF Numbers, Ids, RouterOK
<1>8. op \in Ops /\ op \notin {"poll", "refetch", "resume", "rename"} /\ NoWs \in Names /\ (op \in ListOps <=> route = 0)
  BY <1>4 DEF Ops, PageOps, ListOps, Names
<1>9. Fresh(d) /\ d.op = op /\ d.id = route /\ d.prev = NoRow
  BY <1>7, <1>8, PlainCallIs
<1>10. CallOK(d)
  BY <1>8, <1>9, NoRowIs, FreshOK
<1>11. calls = {d}
  BY <1>6
<1>12. Cap({} \cup {d})
  BY <1>5, <1>9, Nats, CapAdded DEF Reads
<1>13. CallsOK
  BY <1>10, <1>11, <1>12 DEF CallsOK
<1>14. LiveOf({"page restart"}) = {} /\ LiveOf({"page delete", "refetch"}) = {}
  BY <1>9, <1>11 DEF LiveOf
<1>15. PageOK
  <2>1. OneWhile(restarting, LiveOf({"page restart"})) /\ OneWhile(deleting, LiveOf({"page delete", "refetch"}))
    BY <1>14 DEF OneWhile, Init, PageBlank
  <2>2. StoppedIsBacked
    BY NoRowIs, Nats DEF StoppedIsBacked, Init, PageBlank
  <2> QED
    BY <2>1, <2>2, NoRowIs DEF PageOK, Init, PageBlank
<1>16. ListOK
  BY Nats DEF ListOK, Init, ListBlank, Names
<1> QED
  BY <1>1, <1>2, <1>13, <1>15, <1>16 DEF ConsoleInv

LEMMA NextOK == ConsoleInv /\ [Next]_vars => ConsoleInv'
<1> SUFFICES ASSUME ConsoleInv, [Next]_vars PROVE ConsoleInv'
  OBVIOUS
<1>1. CASE Next
  <2>1. CASE (PageUser \/ PollPage) /\ UNCHANGED list
    BY <2>1, PageUserOK
  <2>2. CASE (ListUser \/ PollList) /\ UNCHANGED page
    BY <2>2, ListUserOK
  <2>3. CASE \E c \in calls : PageDone(c) /\ UNCHANGED list
    BY <2>3, PageDoneOK
  <2>4. CASE \E c \in calls : ListDone(c) /\ UNCHANGED page
    BY <2>4, ListDoneOK
  <2>5. CASE \E c \in calls : Serve(c) /\ UNCHANGED <<page, list>>
    BY <2>5, ServeOK
  <2>6. CASE \E c \in calls : Lost(c) /\ UNCHANGED <<page, list>>
    BY <2>6, LostOK
  <2>7. CASE (Elsewhere /\ UNCHANGED <<page, list>>) \/ Route \/ Follow
    BY <2>7, ElsewhereOK, RouteOK, FollowOK
  <2> QED
    BY <1>1, <2>1, <2>2, <2>3, <2>4, <2>5, <2>6, <2>7 DEF Next
<1>2. CASE UNCHANGED vars
  <2>1. UNCHANGED <<server, calls, router, bounds, page, list>> /\ route' = route
    BY <1>2 DEF vars, router
  <2> QED
    BY <2>1, ServerStays, CallsKept, RouterStays, BoundsStay, PageStays, ListSame DEF ConsoleInv
<1> QED
  BY <1>1, <1>2

\* The inductive invariant of the console.
THEOREM ConsoleInvariance == Spec => []ConsoleInv
  BY InitOK, NextOK, PTL DEF Spec

\* The types, and the bound on the calls under way, the read of a navigation
\* included; the reads that are listened to are those of the component that
\* is mounted.
THEOREM ConsoleTypes == Spec => []TypeOK
<1>1. ASSUME ConsoleInv PROVE TypeOK
  <2>1. ASSUME NEW c \in calls
        PROVE  /\ c.op \in PageOps \cup ListOps /\ c.at \in {"sent", "half", "rows", "vols", "back"}
               /\ c.id \in 0..MaxSid /\ c.n \in 1..(MaxCalls + 1) /\ c.live \in BOOLEAN
               /\ {c.ws, c.to} \subseteq Workspaces \cup {NoWs}
               /\ c.ans \in {"none", "ok", "missing", "failed"} /\ {c.prev, c.row} \cup c.rows \subseteq RowType
               /\ c.vols \subseteq Workspaces
               /\ c.op \in {"load", "poll"} => route # 0 /\ c.id = route
               /\ c.op = "fetch" => route = 0
    <3>1. CallOK(c) /\ c \in CallType
      BY <1>1, <2>1, Taken DEF ConsoleInv
    <3>2. c.op = "fetch" => route = 0
      BY <3>1 DEF CallOK, ListOps
    <3>3. c.op \in {"load", "poll"} => route # 0 /\ c.id = route
      BY <3>1 DEF CallOK
    <3> QED
      BY <3>1, <3>2, <3>3 DEF CallType, Ops, Stages, Answers, Names, Ids, Numbers
  <2>2. Cardinality(calls) <= MaxCalls + 1
    BY <1>1 DEF ConsoleInv, CallsOK, Cap
  <2> QED
    BY <1>1, <2>1, <2>2 DEF ConsoleInv, ServerOK, RouterOK, BoundsOK, PageOK, ListOK, TypeOK, Names
<1> QED
  BY <1>1, ConsoleInvariance, PTL

\* The optimistic "stopped" of the page never outlives its request, whatever
\* answers are late, lost or overtaken.
THEOREM StopsAreBacked == Spec => []StoppedIsBacked
<1>1. ConsoleInv => StoppedIsBacked
  BY DEF ConsoleInv, PageOK
<1> QED
  BY <1>1, ConsoleInvariance, PTL

\* A button spins exactly while the one request of its page is under way.
THEOREM SpinnersNeverStick == Spec => []SpinnersAreTrue
<1>1. ASSUME ConsoleInv PROVE SpinnersAreTrue
  <2>1. Live("page restart") = LiveOf({"page restart"}) /\ Live("resume") = LiveOf({"resume"})
        /\ Live("page delete") \cup Live("refetch") = LiveOf({"page delete", "refetch"})
    BY DEF Live, LiveOf
  <2>2. OneWhile(restarting, LiveOf({"page restart"})) /\ OneWhile(deleting, LiveOf({"page delete", "refetch"}))
        /\ (resumingId # NoWs => \E c \in LiveOf({"resume"}) : c.ws = resumingId)
    BY <1>1 DEF ConsoleInv, PageOK, ListOK
  <2>3. ASSUME NEW S, \A c, d \in S : c = d PROVE Cardinality(S) <= 1
    <3>1. CASE S = {}
      BY <3>1, FS_EmptySet
    <3>2. CASE S # {}
      <4>1. PICK c : S = {c}
        BY <2>3, <3>2
      <4>2. Cardinality(S) = 1
        BY <4>1, FS_Singleton
      <4> QED
        BY <4>2
    <3> QED
      BY <3>1, <3>2
  <2>4. Cardinality(Live("page restart")) <= 1
    BY <2>1, <2>2, <2>3 DEF OneWhile
  <2>5. Cardinality(Live("page delete")) <= 1
    <3>1. \A c, d \in Live("page delete") : c = d
      BY <2>1, <2>2 DEF OneWhile
    <3> QED
      BY <2>3, <3>1
  <2> QED
    BY <2>1, <2>2, <2>4, <2>5 DEF SpinnersAreTrue, OneWhile
<1> QED
  BY <1>1, ConsoleInvariance, PTL

\* A read whose answer is still listened to is of the session of the page,
\* so only a Stop or the read after a failed Remove brings another one back.
THEOREM NoForeignReads == Spec => NoForeignRead
<1> DEFINE A == shown'.id \notin {0, shown.id, route'} =>
                  \E c \in calls \ calls' : c.op \in {"page stop", "refetch"}
<1>1. ASSUME ConsoleInv, [Next]_vars PROVE A
  <2>1. CASE shown' = shown
    BY <2>1
  <2>2. CASE shown' = NoRow
    BY <2>2, NoRowIs
  <2>3. CASE HandleStop
    <3>1. shown' = [shown EXCEPT !.st = "stopped"] /\ shown \in RowType
      BY <1>1, <2>3 DEF HandleStop, ConsoleInv, PageOK
    <3>2. shown'.id = shown.id
      BY <3>1 DEF RowType
    <3> QED
      BY <3>2
  <2>4. CASE \E c \in calls : LoadDone(c) \/ PollDone(c)
    <3>1. PICK c \in calls : LoadDone(c) \/ PollDone(c)
      BY <2>4
    <3>2. c.op \in {"load", "poll"} /\ route' = route /\ (shown' = shown \/ shown' = c.row)
      BY <3>1 DEF LoadDone, PollDone, router
    <3>3. c.row.id \in {0, route}
      BY <1>1, <3>2, Taken DEF ConsoleInv, CallOK
    <3> QED
      BY <3>2, <3>3
  <2>5. CASE \E c \in calls : StopDone(c) \/ RefetchDone(c)
    <3>1. PICK c \in calls : StopDone(c) \/ RefetchDone(c)
      BY <2>5
    <3>2. c \in calls \ calls' /\ c.op \in {"page stop", "refetch"}
      BY <3>1 DEF StopDone, RefetchDone
    <3> QED
      BY <3>2
  <2>6. ASSUME shown' # shown, shown' # NoRow, ~HandleStop
        PROVE  \E c \in calls : LoadDone(c) \/ PollDone(c) \/ StopDone(c) \/ RefetchDone(c)
    <3>1. ~UNCHANGED page
      BY <2>6 DEF page
    <3>2. ~PageFresh
      BY <2>6 DEF PageFresh
    <3>3. PageUser \/ PollPage \/ \E c \in calls : PageDone(c)
      BY <1>1, <3>1, <3>2 DEF Next, Route, Follow, vars
    <3>4. ~(PageUser \/ PollPage)
      BY <2>6 DEF PageUser, PollPage, page, AskStop, AskDelete, Cancel, HandleRestart, HandleDelete
    <3>5. PICK c \in calls : PageDone(c)
      BY <3>3, <3>4
    <3>6. ~RestartDone(c) /\ ~DeleteDone(c)
      BY <2>6 DEF RestartDone, DeleteDone
    <3> QED
      BY <3>5, <3>6 DEF PageDone
  <2> QED
    BY <2>1, <2>2, <2>3, <2>4, <2>5, <2>6
<1>2. ConsoleInv /\ [Next]_vars => [A]_vars
  BY <1>1
<1> QED
  BY <1>2, ConsoleInvariance, PTL DEF Spec, NoForeignRead

----------------------------------------------------------------------------
(* The server of the console's model keeps the promise of the manager.     *)

Home == [i \in Sids |-> IF i \in Listed THEN wsOf[i] ELSE NoWs]

\* The sessions in out go.
Without(out) == [i \in Sids |-> IF i \in out THEN "gone" ELSE srv[i]]

LEMMA HomeIs ==
  ASSUME ServerOK, NEW i \in Sids
  PROVE  /\ i \in Listed <=> srv[i] \in {"running", "stopped"}
         /\ i \in Listed => wsOf[i] \in Workspaces /\ wsOf[i] # NoWs
  BY Nats DEF ServerOK, Listed

\* Sessions go, and nothing else happens.
LEMMA RemovesThem ==
  ASSUME ServerOK, ServerOK', NEW out \in SUBSET Listed, srv' = Without(out), UNCHANGED wsOf
  PROVE  \E o \in SUBSET Sids : WS!Remove(o)
<1>1. out \in SUBSET Sids /\ \A i \in out : WS!There(i)
  BY HomeIs DEF Listed, WS!There
<1>2. Listed' = Listed \ out
  BY DEF Listed, Without, ServerOK
<1>3. Home' = [i \in Sids |-> IF i \in out THEN NoWs ELSE Home[i]]
  BY <1>2 DEF Home
<1>4. srv' = [i \in Sids |-> IF i \in out THEN "gone" ELSE srv[i]]
  BY DEF Without
<1>5. WS!Remove(out)
  BY <1>1, <1>2, <1>3, <1>4, Zenon DEF WS!Remove, Home
<1> QED
  BY <1>1, <1>5

LEMMA StopsIt ==
  ASSUME ServerOK, NEW i \in Sids, srv[i] = "running", srv' = [srv EXCEPT ![i] = "stopped"],
         UNCHANGED wsOf
  PROVE  WS!Stop(i)
<1>1. Listed' = Listed
  BY DEF Listed, ServerOK
<1>2. Home' = Home
  BY <1>1 DEF Home
<1> QED
  BY <1>1, <1>2, Zenon DEF WS!Stop, Home

LEMMA EndsIt ==
  ASSUME ServerOK, ServerOK', NEW i \in Listed, srv' = [srv EXCEPT ![i] = "gone"], UNCHANGED wsOf
  PROVE  \E o \in SUBSET Sids : WS!Remove(o)
<1>1. srv' = Without({i})
  BY DEF Without, ServerOK
<1> QED
  BY <1>1, RemovesThem

LEMMA EvictedAre ==
  ASSUME ServerOK, NEW w
  PROVE  \E out \in SUBSET Listed :
           Evicted(w) = Without(out) /\ \A j \in out : srv[j] = "stopped" /\ wsOf[j] = w
<1> DEFINE of == {i \in Sids : wsOf[i] = w /\ srv[i] = "stopped"}
<1>1. CASE of = {}
  <2>1. Evicted(w) = Without({})
    BY <1>1 DEF Evicted, Without, ServerOK
  <2> QED
    BY <2>1
<1>2. CASE of # {}
  <2>1. PICK i \in of : i = CHOOSE j \in of : TRUE
    BY <1>2
  <2>2. Evicted(w) = [srv EXCEPT ![i] = "gone"]
    BY <1>2, <2>1 DEF Evicted
  <2>3. Evicted(w) = Without({i})
    BY <2>2 DEF Without, ServerOK
  <2>4. {i} \in SUBSET Listed /\ \A j \in {i} : srv[j] = "stopped" /\ wsOf[j] = w
    BY DEF Listed
  <2> QED
    BY <2>3, <2>4
<1> QED
  BY <1>1, <1>2

LEMMA OpensOne ==
  ASSUME ServerOK, ServerOK', NEW w \in Workspaces, NEW new \in Sids, srv[new] = "none",
         srv' = [Evicted(w) EXCEPT ![new] = "running"], wsOf' = [wsOf EXCEPT ![new] = w],
         \A i \in Sids : ~(wsOf[i] = w /\ srv[i] = "running")
  PROVE  \E i \in Sids, v \in Workspaces, mine \in BOOLEAN, out \in SUBSET Sids :
           WS!Open(i, v, mine, out)
<1>1. PICK out \in SUBSET Listed :
        Evicted(w) = Without(out) /\ \A j \in out : srv[j] = "stopped" /\ wsOf[j] = w
  BY EvictedAre
<1>2. /\ out \subseteq Sids /\ new \notin out /\ new \notin Listed
      /\ \A j \in out : srv[j] = "stopped" /\ Home[j] = w
  BY <1>1, HomeIs DEF Listed, Home
<1>3. srv' = [j \in Sids |-> IF j = new THEN "running" ELSE IF j \in out THEN "gone" ELSE srv[j]]
  BY <1>1 DEF Without
<1>4. Listed' = (Listed \ out) \cup (IF TRUE THEN {new} ELSE {})
  BY <1>2, <1>3 DEF Listed
<1>5. Home' = [j \in Sids |-> IF j = new THEN w ELSE IF j \in out THEN NoWs ELSE Home[j]]
  BY <1>2, <1>4 DEF Home, ServerOK
<1>6. WS!Unused(w) /\ WS!Settled(w)
  <2>1. \A i \in Listed : srv[i] = "running" => Home[i] # w
    BY DEF Home, Listed
  <2> QED
    BY <2>1, Zenon DEF WS!Unused, WS!Settled, Home
<1>7. WS!Open(new, w, TRUE, out)
  BY <1>2, <1>3, <1>4, <1>5, <1>6, Zenon DEF WS!Open, Home
<1> QED
  BY <1>2, <1>7

\* What a step does to the sessions: the list above, or nothing.
Allowed == WS!Next \/ UNCHANGED WS!vars

LEMMA SameSessions ==
  ASSUME UNCHANGED <<srv, wsOf>>
  PROVE  Allowed
  BY DEF Allowed, WS!vars, Listed

LEMMA CreateAllowed ==
  ASSUME ServerOK, ServerOK', NEW w \in Workspaces, NEW c, Create(c, w)
  PROVE  Allowed
<1>1. CASE UNCHANGED server
  BY <1>1, SameSessions DEF server
<1>2. CASE \E i \in Sids : wsOf[i] = w /\ srv[i] = "running"
  <2>1. UNCHANGED server
    BY <1>2 DEF Create
  <2> QED
    BY <1>1, <2>1
<1>3. ASSUME \A i \in Sids : ~(wsOf[i] = w /\ srv[i] = "running"), NEW new \in Sids,
             srv[new] = "none", srv' = [Evicted(w) EXCEPT ![new] = "running"],
             wsOf' = [wsOf EXCEPT ![new] = w]
      PROVE  Allowed
  BY <1>3, OpensOne, Zenon DEF Allowed, WS!Next
<1>4. ASSUME srv' = Evicted(w), UNCHANGED wsOf PROVE Allowed
  <2>1. PICK out \in SUBSET Listed : Evicted(w) = Without(out)
    BY EvictedAre
  <2>2. \E o \in SUBSET Sids : WS!Remove(o)
    BY <1>4, <2>1, RemovesThem
  <2> QED
    BY <2>2, Zenon DEF Allowed, WS!Next
<1> QED
  BY <1>1, <1>2, <1>3, <1>4, CreateIs

LEMMA RenameAllowed ==
  ASSUME ServerOK, NEW c, c.to \in Workspaces, ServeRename(c)
  PROVE  Allowed
<1>1. CASE UNCHANGED wsOf
  BY <1>1, SameSessions DEF ServeRename
<1>2. ASSUME \A i \in Sids : ~(wsOf[i] = c.ws /\ srv[i] = "running"),
             wsOf' = [i \in Sids |-> IF wsOf[i] = c.ws /\ srv[i] = "stopped" THEN c.to ELSE wsOf[i]]
      PROVE  Allowed
  <2>1. UNCHANGED srv /\ Listed' = Listed
    BY DEF ServeRename, Listed
  <2>2. CASE c.ws \in Workspaces
    <3>1. PICK old, new \in Workspaces : old = c.ws /\ new = c.to
      BY <2>2
    <3>2. Home' = [i \in Sids |-> IF Home[i] = old THEN new ELSE Home[i]]
      BY <1>2, <2>1, <3>1, Nats DEF Home, Listed
    <3>3. \A i \in Listed : srv[i] = "running" => Home[i] # old
      BY <1>2, <3>1 DEF Home, Listed
    <3>4. WS!Unused(old) /\ WS!Settled(old) /\ WS!Settled(new)
      BY <3>3, Zenon DEF WS!Unused, WS!Settled, Home
    <3>5. {} = {} \ {<<old, new>>}
      OBVIOUS
    <3>6. WS!Move(old, new)
      BY <2>1, <3>2, <3>4, <3>5, Zenon DEF WS!Move, Home
    <3> QED
      BY <3>6, Zenon DEF Allowed, WS!Next
  <2>3. CASE c.ws \notin Workspaces
    <3>1. Home' = Home
      BY <1>2, <2>1, <2>3, HomeIs DEF Home, Listed
    <3> QED
      BY <2>1, <3>1, Zenon DEF Allowed, WS!vars, Home
  <2> QED
    BY <2>2, <2>3
<1> QED
  BY <1>1, <1>2 DEF ServeRename

LEMMA ServeAllowed ==
  ASSUME ConsoleInv, ConsoleInv', NEW c \in calls, Serve(c)
  PROVE  Allowed
<1>1. ServerOK /\ ServerOK' /\ CallOK(c)
  BY Taken DEF ConsoleInv
<1>2. CASE ServeGet(c) \/ ServeDeleteWorkspace(c) \/ ServeFetch(c)
  BY <1>2, SameSessions DEF ServeGet, ServeDeleteWorkspace, ServeFetch, server
<1>3. CASE ServeStop(c)
  <2>1. CASE UNCHANGED srv
    BY <1>3, <2>1, SameSessions DEF ServeStop
  <2>2. ASSUME srv[c.id] = "running", srv' = [srv EXCEPT ![c.id] = "stopped"] PROVE Allowed
    <3>1. CASE c.id \in Sids
      <4>1. \E i \in Sids : WS!Stop(i)
        BY <1>1, <1>3, <2>2, <3>1, StopsIt DEF ServeStop
      <4> QED
        BY <4>1, Zenon DEF Allowed, WS!Next
    <3>2. CASE c.id \notin Sids
      BY <1>1, <1>3, <2>2, <3>2, SameSessions DEF ServeStop, ServerOK
    <3> QED
      BY <3>1, <3>2
  <2> QED
    BY <1>3, <2>1, <2>2 DEF ServeStop
<1>4. ASSUME c.id \in Listed, srv' = [srv EXCEPT ![c.id] = "gone"], UNCHANGED wsOf PROVE Allowed
  <2>1. \E o \in SUBSET Sids : WS!Remove(o)
    BY <1>1, <1>4, EndsIt
  <2> QED
    BY <2>1, Zenon DEF Allowed, WS!Next
<1>5. CASE ServeDelete(c)
  BY <1>4, <1>5, SameSessions DEF ServeDelete
<1>6. CASE ServeRestart(c)
  <2>1. c.at = "half" => wsOf[c.id] \in Workspaces
    BY <1>1, <1>6 DEF ServeRestart, CallOK, Creates, ServerOK
  <2> QED
    BY <1>1, <1>4, <1>6, <2>1, SameSessions, CreateAllowed DEF ServeRestart, server
<1>7. CASE ServeResume(c)
  BY <1>1, <1>7, CreateAllowed DEF ServeResume, CallOK
<1>8. CASE ServeRename(c)
  BY <1>1, <1>8, RenameAllowed DEF ServeRename, CallOK
<1> QED
  BY <1>2, <1>3, <1>5, <1>6, <1>7, <1>8 DEF Serve

LEMMA ElsewhereAllowed ==
  ASSUME ConsoleInv, ConsoleInv', Elsewhere
  PROVE  Allowed
<1>1. ServerOK /\ ServerOK' /\ UNCHANGED wsOf
  BY DEF ConsoleInv, Elsewhere
<1>2. PICK i \in Listed, st \in {"stopped", "gone"} :
        (st = "stopped" => srv[i] = "running") /\ srv' = [srv EXCEPT ![i] = st]
  BY DEF Elsewhere
<1>3. (\E j \in Sids : WS!Stop(j)) \/ (\E o \in SUBSET Sids : WS!Remove(o))
  BY <1>1, <1>2, StopsIt, EndsIt DEF Listed
<1> QED
  BY <1>3, Zenon DEF Allowed, WS!Next

LEMMA InitAllowed == Init => WS!Init
<1> SUFFICES ASSUME Init PROVE WS!Init
  OBVIOUS
<1>1. ConsoleInv /\ ServerOK /\ \A i \in Sids : i # 1 => srv[i] = "none"
  BY InitOK DEF ConsoleInv, Init, ApiInit
<1>2. Listed \subseteq {1}
  BY <1>1 DEF Listed
<1>3. Home \in [Sids -> Workspaces \cup {NoWs}] /\ \A i \in Sids : i \in Listed <=> Home[i] # NoWs
  BY <1>1, HomeIs DEF Home
<1>4. \A i \in Sids : WS!There(i) <=> i \in Listed
  BY DEF WS!There, Listed
<1>5. Listed = {i \in Sids : WS!There(i)}
  BY <1>4 DEF Listed
<1>6. \A i, j \in Listed : srv[i] = "running" /\ srv[j] = "running" /\ Home[i] = Home[j] => i = j
  BY <1>2
<1>7. srv \in [Sids -> WS!States]
  BY <1>1 DEF ServerOK, WS!States
<1>8. WS!Apart
  BY <1>6, Zenon DEF WS!Apart, Home
<1>9. \A i \in Sids : WS!There(i) <=> Home[i] # NoWs
  BY <1>3, <1>4
<1> QED
  BY <1>3, <1>5, <1>7, <1>8, <1>9, Zenon DEF WS!Init, Home

\* Only a call changes the sessions.
LEMMA PageKeepsServer ==
  ASSUME PageUser \/ PollPage \/ \E c \in calls : PageDone(c)
  PROVE  UNCHANGED server
  BY DEF PageUser, PollPage, PageDone, AskStop, AskDelete, Cancel, HandleStop, HandleRestart,
     HandleDelete, LoadDone, PollDone, StopDone, RestartDone, DeleteDone, RefetchDone

LEMMA ListKeepsServer ==
  ASSUME ListUser \/ PollList \/ \E c \in calls : ListDone(c)
  PROVE  UNCHANGED server
  BY DEF ListUser, PollList, ListDone, AskAction, AskRename, CloseDialog, ListStop, ListRestart,
     ListDelete, HandleResume, HandleDeleteWorkspace, HandleRename, FetchDone, ListStopDone,
     ListRestartDone, ListDeleteDone, HandleResumeDone, HandleDeleteWorkspaceDone, HandleRenameDone

\* The server of the console's model implements WorkspaceSessions, as the
\* manager does (ManagerImplements): the console is not shown correct for a
\* server that manager.go could not be (sessions.go:19-166).
THEOREM ServerImplements == Spec => ServesSessions
<1>1. ConsoleInv /\ ConsoleInv' /\ [Next]_vars => [WS!Next]_(WS!vars)
  <2> SUFFICES ASSUME ConsoleInv, ConsoleInv', [Next]_vars PROVE Allowed
    BY DEF Allowed
  <2>1. CASE UNCHANGED server
    BY <2>1, SameSessions DEF server
  <2>2. ASSUME NEW c \in calls, Serve(c) PROVE Allowed
    BY <2>2, ServeAllowed
  <2>3. CASE Elsewhere
    BY <2>3, ElsewhereAllowed
  <2>4. CASE UNCHANGED vars
    BY <2>1, <2>4 DEF vars
  <2>5. CASE PageUser \/ PollPage \/ \E c \in calls : PageDone(c)
    BY <2>1, <2>5, PageKeepsServer
  <2>6. CASE ListUser \/ PollList \/ \E c \in calls : ListDone(c)
    BY <2>1, <2>6, ListKeepsServer
  <2>7. CASE (\E c \in calls : Lost(c)) \/ Route \/ Follow
    BY <2>1, <2>7 DEF Lost, Route, Follow
  <2> QED
    BY <2>2, <2>3, <2>4, <2>5, <2>6, <2>7 DEF Next
<1> QED
  BY <1>1, InitAllowed, ConsoleInvariance, PTL DEF Spec, ServesSessions, WS!Spec

=============================================================================
