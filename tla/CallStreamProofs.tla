--------------------------- MODULE CallStreamProofs ---------------------------
(***************************************************************************)
(* Theorems about what the console is shown of calls: the live view of one *)
(* call, for any number of rows, connections, replays and faults, and the  *)
(* paged lists.                                                            *)
(***************************************************************************)
EXTENDS CallStream, Listings, FiniteSetTheorems, TLAPS

LEMMA ContentFacts ==
  /\ Blank \in Content
  /\ NoConn \in Conn /\ FreshConn \in Conn
  /\ NoConn.wire = <<>> /\ FreshConn.wire = <<>> /\ ~NoConn.open /\ FreshConn.open
  /\ NoConn.state = "none" /\ FreshConn.state = "idle"
  /\ NoConn.seen = Blank /\ FreshConn.seen = Blank
  /\ Rows \subseteq Nat \ {0} /\ Conns \subseteq Nat \ {0}
<1>1. Blank \in Content
  BY DEF Blank, Content, RowStates
<1>2. /\ Rows \subseteq Nat \ {0} /\ Conns \subseteq Nat \ {0}
  BY StreamBounds DEF Rows, Conns
<1>3. NoConn \in Conn
  BY <1>1, StreamBounds DEF NoConn, Conn, Parts
<1>4. FreshConn \in Conn
  BY <1>3 DEF FreshConn, Conn
<1> QED
  BY <1>1, <1>2, <1>3, <1>4 DEF NoConn, FreshConn, Conn

LEMMA FetchType ==
  ASSUME db \in Content, NEW seen \in Content, NEW part \in Parts
  PROVE  Fetch(seen, part) \in Content
BY DEF Content, Fetch, Parts

(* A connection that is closed has nothing on its way.                     *)
LEMMA ClosedConn ==
  ASSUME NEW c
  PROVE  /\ Closed(c) \in Conn /\ ~Closed(c).open /\ Closed(c).wire = <<>>
         /\ Closed(c).seen = Blank /\ Closed(c).state \in {"closing", "ended"}
BY ContentFacts DEF Closed, Conn

-----------------------------------------------------------------------------
(* Types, and who listens to what.                                         *)

PageInv == TypeOK /\ OneSource /\ NoStreamIsReopened

LEMMA RequestsAreFinite == IsFiniteSet(Requests) /\ Cardinality(Requests) = MaxReplays
BY FS_Interval, StreamBounds DEF Requests

LEMMA OverIsFinite ==
  ASSUME TypeOK
  PROVE  /\ IsFiniteSet({k \in Requests : requests[k].state = "over"})
         /\ Cardinality({k \in Requests : requests[k].state = "over"}) \in 0..MaxReplays
         /\ Reconnections \in 0..(MaxReplays + MaxFaults)
<1>1. IsFiniteSet(Requests) /\ Cardinality(Requests) = MaxReplays
  BY RequestsAreFinite
<1>2. {k \in Requests : requests[k].state = "over"} \subseteq Requests
  OBVIOUS
<1>3. /\ IsFiniteSet({k \in Requests : requests[k].state = "over"})
      /\ Cardinality({k \in Requests : requests[k].state = "over"}) \in Nat
      /\ Cardinality({k \in Requests : requests[k].state = "over"}) <= MaxReplays
  BY <1>1, <1>2, FS_Subset, FS_CardinalityType
<1> QED
  BY <1>3, StreamBounds DEF Reconnections, TypeOK

LEMMA OverGrows ==
  ASSUME TypeOK, NEW k \in Requests, requests[k].state # "over",
         requests' = [requests EXCEPT ![k].state = "over"]
  PROVE  /\ Cardinality({j \in Requests : requests'[j].state = "over"}) =
              Cardinality({j \in Requests : requests[j].state = "over"}) + 1
         /\ Cardinality({j \in Requests : requests[j].state = "over"}) + 1 <= MaxReplays
<1>1. {j \in Requests : requests'[j].state = "over"} =
      {j \in Requests : requests[j].state = "over"} \cup {k}
  BY DEF TypeOK
<1>2. k \notin {j \in Requests : requests[j].state = "over"}
  OBVIOUS
<1>3. Cardinality({j \in Requests : requests[j].state = "over"} \cup {k}) =
      Cardinality({j \in Requests : requests[j].state = "over"}) + 1
  BY <1>2, OverIsFinite, FS_AddElement
<1>4. IsFiniteSet(Requests) /\ Cardinality(Requests) = MaxReplays
  BY RequestsAreFinite
<1>5. Cardinality({j \in Requests : requests[j].state = "over"} \cup {k}) <= MaxReplays
  <2>1. {j \in Requests : requests[j].state = "over"} \cup {k} \subseteq Requests
    OBVIOUS
  <2> QED
    BY <1>4, <2>1, FS_Subset
<1> QED
  BY <1>1, <1>3, <1>5

(* What a new connection may rely on, and what it leads to.                *)
ConnsOK(cs) == cs \in [Conns -> Conn] /\ \A c \in Conns : Len(cs[c].wire) <= MaxWire

Listening(cs, cur, src) ==
  /\ \A c \in Conns : cs[c].open => c = cur
  /\ src = "open" => cur # 0 /\ cs[cur].open
  /\ \A c \in Conns : cs[c].open => src = "open"
  /\ \A c \in Conns : c > cur => cs[c] = NoConn

LEMMA ConnectStep ==
  ASSUME TypeOK, current < 1 + MaxReplays + MaxFaults,
         NEW others, ConnsOK(others), \A c \in Conns : ~others[c].open,
         \A c \in Conns : c > current => others[c] = NoConn,
         Connect(others)
  PROVE  /\ ConnsOK(conns') /\ Listening(conns', current', source')
         /\ current' \in {0} \cup Conns /\ source' \in {"open", "failed"}
         /\ current' <= current + 1
<1>1. current \in Nat /\ current + 1 \in Conns
  BY StreamBounds DEF TypeOK, Conns
<1>2. CASE apiUp
  <2>1. current' = current + 1 /\ source' = "open"
        /\ conns' = [others EXCEPT ![current + 1] = FreshConn]
    BY <1>2 DEF Connect
  <2>2. Len(FreshConn.wire) <= MaxWire
    BY ContentFacts, StreamBounds
  <2>3. ConnsOK(conns')
    BY <1>1, <2>1, <2>2, ContentFacts DEF ConnsOK
  <2>4. Listening(conns', current', source')
    BY <1>1, <2>1, ContentFacts DEF Listening, ConnsOK
  <2> QED
    BY <1>1, <2>1, <2>3, <2>4
<1>3. CASE ~apiUp
  <2>1. source' = "failed" /\ conns' = others /\ current' = current
    BY <1>3 DEF Connect
  <2> QED
    BY <1>1, <2>1 DEF Listening, TypeOK
<1> QED
  BY <1>2, <1>3

LEMMA CleanupStep ==
  ASSUME TypeOK, OneSource
  PROVE  /\ ConnsOK(Cleanup) /\ \A c \in Conns : ~Cleanup[c].open
         /\ \A c \in Conns : c > current => Cleanup[c] = NoConn
         /\ \A c \in Conns : Cleanup[c] = conns[c] \/ Cleanup[c] = Closed(c)
<1>1. \A c \in Conns : Len(Closed(c).wire) <= MaxWire
  BY ClosedConn, StreamBounds
<1>2. ConnsOK(Cleanup)
  BY <1>1, ClosedConn DEF Cleanup, ConnsOK, TypeOK
<1> QED
  BY <1>2, ClosedConn, ContentFacts DEF Cleanup, OneSource

LEMMA InitPage == Init => PageInv
<1> SUFFICES ASSUME Init PROVE PageInv
  OBVIOUS
<1>1. TypeOK
  <2>1. \A c \in Conns : Len(conns[c].wire) <= MaxWire
    BY ContentFacts, StreamBounds DEF Init
  <2>2. conns \in [Conns -> Conn]
    BY ContentFacts DEF Init
  <2>3. db \in Content /\ shown \in Content /\ load \in [reading: SUBSET Parts, seen: Content]
    BY ContentFacts DEF Init, FreshLoad
  <2>4. requests \in [Requests -> [row: {0} \cup Rows, state: {"unused", "sent", "answered", "over"}]]
    BY DEF Init
  <2>5. /\ apiUp \in BOOLEAN /\ mounted \in BOOLEAN /\ faults \in 0..MaxFaults
        /\ source \in {"none", "open", "waiting", "closed", "failed"}
        /\ current \in {0} \cup Conns /\ replayingId \in {0} \cup Rows
    <3>1. 0 \in 0..MaxFaults
      BY StreamBounds
    <3> QED
      BY <3>1 DEF Init
  <2> QED
    BY <2>1, <2>2, <2>3, <2>4, <2>5 DEF TypeOK
<1>2. OneSource
  BY ContentFacts DEF Init, OneSource
<1>3. NoStreamIsReopened
  BY DEF Init, NoStreamIsReopened
<1> QED
  BY <1>1, <1>2, <1>3 DEF PageInv

(* What the worker and the dispatcher write leaves every part as new as it *)
(* was.                                                                    *)
StoreStep ==
  EndCall \/ WriteCostsAndRecording \/ \E r \in Rows : CreateRow(r) \/ RetryRow(r) \/ SettleRow(r)

LEMMA StoredType ==
  ASSUME db \in Content, StoreStep \/ \E k \in Requests : requests[k].row \in Rows /\ ReplayRow(k)
  PROVE  db' \in Content
<1>1. ASSUME NEW r \in Rows, NEW status \in RowStates, SetRow(r, status) PROVE db' \in Content
  BY <1>1 DEF SetRow, Content
<1> QED
  BY <1>1 DEF StoreStep, EndCall, WriteCostsAndRecording, CreateRow, RetryRow, SettleRow, ReplayRow,
     Content, RowStates, OpenStatuses, TerminalOutboxStatuses

(* A step of a tick: connection c, whether it is open or not, goes on.     *)
LEMMA TickType ==
  ASSUME TypeOK, NEW c \in Conns, Stream(c)
  PROVE  /\ ConnsOK(conns')
         /\ \A d \in Conns : conns'[d].open = conns[d].open /\ (d # c => conns'[d] = conns[d])
         /\ conns[c].state # "none"
         /\ UNCHANGED <<db, apiUp, faults, page>>
<1>1. conns[c] \in Conn /\ conns \in [Conns -> Conn] /\ Len(conns[c].wire) \in Nat
  BY DEF TypeOK, Conn
<1>2. CASE StartTick(c)
  BY <1>1, <1>2, ContentFacts DEF StartTick, ConnsOK, TypeOK, Conn
<1>3. ASSUME NEW part \in Parts, ReadPart(c, part)
      PROVE  /\ ConnsOK(conns')
             /\ \A d \in Conns : conns'[d].open = conns[d].open /\ (d # c => conns'[d] = conns[d])
             /\ conns[c].state # "none"
             /\ UNCHANGED <<db, apiUp, faults, page>>
  <2>1. Fetch(conns[c].seen, part) \in Content
    BY <1>1, FetchType DEF TypeOK, Conn
  <2>2. conns' = [conns EXCEPT ![c].seen = Fetch(conns[c].seen, part),
                               ![c].reading = conns[c].reading \ {part}]
    BY <1>3 DEF ReadPart
  <2> HIDE DEF Fetch
  <2> QED
    BY <1>1, <1>3, <2>1, <2>2 DEF ReadPart, ConnsOK, TypeOK, Conn
<1>4. CASE SendSnapshot(c)
  <2> DEFINE seen == conns[c].seen
             grace == GraceAfter(conns[c].grace, seen)
             final == shouldStop(seen, grace)
  <2>1. grace \in 0..GraceTicks
    BY <1>1, StreamBounds DEF GraceAfter, Conn
  <2>2. final \in BOOLEAN
    BY <1>1, <2>1 DEF shouldStop, Conn, Content
  <2>3. /\ Append(conns[c].wire, <<seen, final>>) \in Seq(Content \X BOOLEAN)
        /\ Len(Append(conns[c].wire, <<seen, final>>)) <= MaxWire
    BY <1>1, <1>4, <2>2, StreamBounds DEF SendSnapshot, Conn
  <2>4. /\ conns' = [conns EXCEPT ![c].grace = grace,
                       ![c].wire = Append(conns[c].wire, <<seen, final>>),
                       ![c].state = IF final THEN "ended" ELSE "idle"]
        /\ conns[c].state = "reading" /\ UNCHANGED <<db, apiUp, faults, page>>
    BY <1>4 DEF SendSnapshot
  <2> HIDE DEF grace, final
  <2> QED
    BY <1>1, <2>1, <2>2, <2>3, <2>4 DEF ConnsOK, TypeOK, Conn
<1>5. CASE ReturnWhenClosed(c)
  BY <1>1, <1>5 DEF ReturnWhenClosed, ConnsOK, TypeOK, Conn
<1> QED
  BY <1>2, <1>3, <1>4, <1>5 DEF Stream

LEMMA PageStep ==
  ASSUME PageInv, [Next]_vars
  PROVE  PageInv'
<1> USE DEF PageInv
<1>1. /\ TypeOK /\ OneSource /\ NoStreamIsReopened /\ ConnsOK(conns)
      /\ \A c \in Conns : conns[c] \in Conn
  BY DEF ConnsOK, TypeOK
<1>2. CASE StoreStep
  <2>1. db' \in Content /\ UNCHANGED <<apiUp, faults, conns, page>>
    BY <1>2, StoredType
    DEF TypeOK, StoreStep, EndCall, WriteCostsAndRecording, CreateRow, RetryRow, SettleRow
  <2> QED
    BY <1>1, <2>1 DEF page, TypeOK, OneSource, NoStreamIsReopened, Reconnections
<1>3. ASSUME NEW c \in Conns, Stream(c) PROVE PageInv'
  <2>1. /\ ConnsOK(conns')
        /\ \A d \in Conns : conns'[d].open = conns[d].open /\ (d # c => conns'[d] = conns[d])
        /\ conns[c].state # "none"
        /\ UNCHANGED <<db, apiUp, faults, load, mounted, shown, source, current, replayingId, requests>>
    BY <1>1, <1>3, TickType DEF page
  <2>2. TypeOK'
    BY <1>1, <2>1 DEF TypeOK, ConnsOK
  <2>3. OneSource'
    BY <1>1, <2>1, ContentFacts DEF OneSource, TypeOK
  <2> QED
    BY <1>1, <2>1, <2>2, <2>3 DEF NoStreamIsReopened, Reconnections
<1>4. ASSUME NEW part \in Parts, LoadPart(part) PROVE PageInv'
  <2>1. Fetch(load.seen, part) \in Content
    BY FetchType DEF TypeOK
  <2>2. load' \in [reading: SUBSET Parts, seen: Content]
    BY <1>4, <2>1 DEF LoadPart, TypeOK
  <2> QED
    BY <1>1, <1>4, <2>2 DEF LoadPart, TypeOK, OneSource, NoStreamIsReopened, Reconnections
<1>5. CASE Mount
  <2>1. /\ ~mounted /\ mounted' = TRUE /\ shown' = load.seen /\ source = "none" /\ current = 0
        /\ UNCHANGED <<db, apiUp, faults, load, replayingId, requests>>
    BY <1>5 DEF Mount, OneSource
  <2>2. current < 1 + Reconnections
    BY <2>1, OverIsFinite
  <2>3. /\ ConnsOK(conns') /\ Listening(conns', current', source')
        /\ current' \in {0} \cup Conns /\ source' \in {"none", "open", "failed"}
        /\ current' <= current + 1
    <3>1. CASE load.seen.ended
      <4>1. UNCHANGED <<conns, source, current>>
        BY <1>5, <3>1 DEF Mount
      <4> QED
        BY <1>1, <2>1, <4>1 DEF OneSource, Listening
    <3>2. CASE ~load.seen.ended
      <4>1. Connect(conns)
        BY <1>5, <3>2 DEF Mount
      <4>2. \A c \in Conns : ~conns[c].open
        BY <1>1, <2>1 DEF OneSource
      <4>3. current < 1 + MaxReplays + MaxFaults
        BY <1>1, <2>2, OverIsFinite, StreamBounds, <2>1
      <4> QED
        BY <1>1, <4>1, <4>2, <4>3, ConnectStep DEF OneSource
    <3> QED
      BY <3>1, <3>2
  <2>4. TypeOK'
    BY <1>1, <2>1, <2>3 DEF TypeOK, ConnsOK
  <2>5. OneSource'
    BY <2>1, <2>3 DEF OneSource, Listening
  <2>6. Reconnections' = Reconnections /\ current' \in Nat
    <3>1. Reconnections' = Reconnections
      BY <2>1 DEF Reconnections
    <3>2. current' \in Nat
      BY <2>3, ContentFacts
    <3> QED
      BY <3>1, <3>2
  <2>7. NoStreamIsReopened'
    BY <2>1, <2>2, <2>3, <2>6, OverIsFinite, StreamBounds DEF NoStreamIsReopened
  <2> QED
    BY <2>4, <2>5, <2>7
<1>6. ASSUME NEW c \in Conns, Receive(c) PROVE PageInv'
  <2> DEFINE final == Head(conns[c].wire)[2]
  <2>1. /\ conns[c].open /\ conns[c].wire # <<>> /\ conns[c].wire \in Seq(Content \X BOOLEAN)
        /\ c = current /\ source = "open" /\ mounted
    BY <1>1, <1>6 DEF Receive, OneSource, Conn
  <2>2. /\ Head(conns[c].wire)[1] \in Content
        /\ Tail(conns[c].wire) \in Seq(Content \X BOOLEAN)
        /\ Len(Tail(conns[c].wire)) <= MaxWire
    BY <1>1, <2>1, StreamBounds DEF ConnsOK
  <2>3. /\ shown' \in Content
        /\ UNCHANGED <<db, apiUp, faults, load, mounted, current, replayingId, requests>>
    BY <1>6, <2>2 DEF Receive
  <2>4. /\ ConnsOK(conns') /\ Listening(conns', current', source') /\ source' \in {"open", "closed"}
    <3>1. CASE final
      <4>1. source' = "closed" /\ conns' = [conns EXCEPT ![c] = Closed(c)]
        BY <1>6, <3>1 DEF Receive
      <4> QED
        BY <1>1, <2>1, <2>3, <4>1, ClosedConn, StreamBounds DEF ConnsOK, Listening, OneSource, TypeOK
    <3>2. CASE ~final
      <4>1. source' = source /\ conns' = [conns EXCEPT ![c].wire = Tail(conns[c].wire)]
        BY <1>6, <3>2 DEF Receive
      <4>2. ConnsOK(conns')
        BY <1>1, <2>2, <4>1 DEF ConnsOK, Conn
      <4>3. \A d \in Conns : conns'[d].open = conns[d].open /\ (d # c => conns'[d] = conns[d])
        BY <1>1, <2>2, <4>1 DEF ConnsOK, Conn
      <4>4. conns'[current'].open /\ current' # 0
        BY <2>1, <2>3, <4>3 DEF OneSource
      <4>5. \A d \in Conns : d > current' => conns'[d] = NoConn
        BY <1>1, <2>1, <2>3, <4>3, ContentFacts DEF OneSource
      <4> QED
        BY <1>1, <2>1, <2>3, <4>1, <4>2, <4>3, <4>4, <4>5 DEF Listening, OneSource
    <3> QED
      BY <3>1, <3>2
  <2>5. TypeOK'
    BY <1>1, <2>3, <2>4 DEF TypeOK, ConnsOK
  <2>6. OneSource'
    BY <2>1, <2>3, <2>4 DEF OneSource, Listening
  <2> QED
    BY <1>1, <2>1, <2>3, <2>4, <2>5, <2>6 DEF NoStreamIsReopened, Reconnections
<1>7. CASE Reconnect
  <2>1. /\ source = "waiting" /\ Connect(conns) /\ mounted
        /\ UNCHANGED <<db, apiUp, faults, load, mounted, shown, replayingId, requests>>
    BY <1>1, <1>7 DEF Reconnect, OneSource
  <2>2. current < 1 + Reconnections /\ \A c \in Conns : ~conns[c].open
    BY <1>1, <2>1 DEF NoStreamIsReopened, OneSource
  <2>3. /\ ConnsOK(conns') /\ Listening(conns', current', source')
        /\ current' \in {0} \cup Conns /\ source' \in {"open", "failed"}
        /\ current' <= current + 1
    BY <1>1, <2>1, <2>2, ConnectStep, OverIsFinite, StreamBounds DEF OneSource, TypeOK
  <2>4. TypeOK'
    BY <1>1, <2>1, <2>3 DEF TypeOK, ConnsOK
  <2>5. OneSource'
    BY <2>1, <2>3 DEF OneSource, Listening
  <2>6. current \in Nat /\ current' \in Nat
    BY <1>1, <2>3, ContentFacts DEF TypeOK
  <2>7. Reconnections' = Reconnections
    BY <2>1 DEF Reconnections
  <2>8. current' <= 1 + Reconnections'
    BY <2>2, <2>3, <2>6, <2>7, OverIsFinite
  <2> QED
    BY <2>3, <2>4, <2>5, <2>8 DEF NoStreamIsReopened
<1>8. ASSUME NEW k \in Requests, NEW r \in Rows, ClickReplay(k, r) PROVE PageInv'
  <2>1. /\ mounted /\ requests' = [requests EXCEPT ![k] = [row |-> r, state |-> "sent"]] /\ replayingId' = r
        /\ requests[k].state = "unused"
        /\ UNCHANGED <<db, apiUp, faults, conns, load, mounted, shown, source, current>>
    BY <1>8 DEF ClickReplay
  <2>2. TypeOK'
    BY <1>1, <2>1 DEF TypeOK
  <2>3. {j \in Requests : requests'[j].state = "over"} = {j \in Requests : requests[j].state = "over"}
    BY <1>1, <2>1 DEF TypeOK
  <2> QED
    BY <1>1, <2>1, <2>2, <2>3 DEF OneSource, NoStreamIsReopened, Reconnections
<1>9. ASSUME NEW k \in Requests, ReplayRow(k) PROVE PageInv'
  <2>1. /\ requests[k].state = "sent" /\ requests' = [requests EXCEPT ![k].state = "answered"]
        /\ UNCHANGED <<apiUp, faults, conns, load, mounted, shown, source, current, replayingId>>
    BY <1>9 DEF ReplayRow
  <2>2. db' \in Content
    BY <1>1, <1>9 DEF ReplayRow, SetRow, TypeOK, Content, RowStates, OpenStatuses
  <2>3. TypeOK'
    BY <1>1, <2>1, <2>2 DEF TypeOK
  <2>4. {j \in Requests : requests'[j].state = "over"} = {j \in Requests : requests[j].state = "over"}
    BY <1>1, <2>1 DEF TypeOK
  <2>5. mounted
    BY <1>1, <2>1 DEF OneSource
  <2> QED
    BY <1>1, <2>1, <2>3, <2>4, <2>5 DEF OneSource, NoStreamIsReopened, Reconnections
<1>10. ASSUME NEW k \in Requests, ReplayFailed(k) PROVE PageInv'
  <2>1. /\ requests[k].state # "over" /\ requests[k].state # "unused"
        /\ requests' = [requests EXCEPT ![k].state = "over"] /\ replayingId' = 0
        /\ faults' \in {faults, faults + 1} /\ faults' \in 0..MaxFaults
        /\ UNCHANGED <<db, apiUp, conns, load, mounted, shown, source, current>>
    BY <1>1, <1>10, StreamBounds DEF ReplayFailed, TypeOK
  <2>2. TypeOK'
    BY <1>1, <2>1 DEF TypeOK
  <2>3. Reconnections' > Reconnections /\ Reconnections' \in Int
    <3> DEFINE over == Cardinality({j \in Requests : requests[j].state = "over"})
    <3>1. over' = over + 1 /\ over \in Nat
      <4>1. over \in 0..MaxReplays
        BY <1>1, OverIsFinite
      <4>2. over' = over + 1 /\ over + 1 <= MaxReplays
        BY <1>1, <2>1, OverGrows
      <4> QED
        BY <4>1, <4>2, StreamBounds
    <3>2. Reconnections = faults + over /\ Reconnections' = faults' + over'
      BY DEF Reconnections
    <3> HIDE DEF over
    <3> QED
      BY <1>1, <2>1, <3>1, <3>2, StreamBounds DEF TypeOK
  <2>4. mounted
    BY <1>1, <2>1 DEF OneSource
  <2>5. current \in Nat
    BY <1>1, ContentFacts DEF TypeOK
  <2>6. NoStreamIsReopened'
    BY <1>1, <2>1, <2>3, <2>5, OverIsFinite DEF NoStreamIsReopened
  <2> QED
    BY <1>1, <2>1, <2>2, <2>4, <2>6 DEF OneSource
<1>11. ASSUME NEW k \in Requests, ReplayAnswered(k) PROVE PageInv'
  <2>1. /\ requests[k].state = "answered"
        /\ requests' = [requests EXCEPT ![k].state = "over"] /\ replayingId' = 0
        /\ shown' = [shown EXCEPT !.rows[requests[k].row] = "PENDING"]
        /\ Connect(Cleanup)
        /\ UNCHANGED <<db, apiUp, faults, load, mounted>>
    BY <1>11 DEF ReplayAnswered
  <2>2. Reconnections' = Reconnections + 1 /\ Reconnections' <= MaxReplays + MaxFaults
    <3> DEFINE over == Cardinality({j \in Requests : requests[j].state = "over"})
    <3>1. over' = over + 1 /\ over \in Nat /\ over + 1 <= MaxReplays
      <4>1. over \in 0..MaxReplays
        BY <1>1, OverIsFinite
      <4>2. over' = over + 1 /\ over + 1 <= MaxReplays
        BY <1>1, <2>1, OverGrows
      <4> QED
        BY <4>1, <4>2, StreamBounds
    <3>2. Reconnections = faults + over /\ Reconnections' = faults' + over'
      BY DEF Reconnections
    <3> HIDE DEF over
    <3> QED
      BY <1>1, <2>1, <3>1, <3>2, StreamBounds DEF TypeOK
  <2>3. mounted /\ current \in Nat /\ current < Reconnections' + 1
    BY <1>1, <2>1, <2>2, ContentFacts, OverIsFinite, StreamBounds
    DEF OneSource, NoStreamIsReopened, TypeOK
  <2>4. current < 1 + MaxReplays + MaxFaults
    BY <2>2, <2>3, OverIsFinite, StreamBounds
  <2>5. /\ ConnsOK(conns') /\ Listening(conns', current', source')
        /\ current' \in {0} \cup Conns /\ source' \in {"open", "failed"}
        /\ current' <= current + 1
    BY <1>1, <2>1, <2>4, CleanupStep, ConnectStep
  <2>6. requests[k].row \in {0} \cup Rows /\ shown' \in Content
    BY <1>1, <2>1 DEF TypeOK, Content, RowStates, OpenStatuses
  <2>7. TypeOK'
    BY <1>1, <2>1, <2>5, <2>6 DEF TypeOK, ConnsOK
  <2>8. OneSource'
    BY <2>1, <2>3, <2>5 DEF OneSource, Listening
  <2>9. current' \in Nat
    BY <2>5, ContentFacts
  <2>10. NoStreamIsReopened'
    BY <2>1, <2>2, <2>3, <2>5, <2>9, OverIsFinite, StreamBounds DEF NoStreamIsReopened
  <2> QED
    BY <2>7, <2>8, <2>10
<1>12. CASE DropConnection
  <2>1. /\ faults < MaxFaults /\ source = "open" /\ faults' = faults + 1 /\ source' = "waiting"
        /\ conns' = [conns EXCEPT ![current] = Closed(current)]
        /\ UNCHANGED <<db, apiUp, load, mounted, shown, current, replayingId, requests>>
    BY <1>12 DEF DropConnection
  <2>2. current \in Conns /\ conns[current].open /\ mounted
    BY <1>1, <2>1 DEF OneSource, TypeOK
  <2>3. ConnsOK(conns') /\ \A c \in Conns : ~conns'[c].open
    BY <1>1, <2>1, <2>2, ClosedConn, StreamBounds DEF ConnsOK, OneSource
  <2>4. TypeOK'
    BY <1>1, <2>1, <2>3, StreamBounds DEF TypeOK, ConnsOK
  <2>5. OneSource'
    BY <1>1, <2>1, <2>2, <2>3, ContentFacts DEF OneSource, ConnsOK
  <2>6. faults \in Nat /\ current \in Nat
        /\ Cardinality({j \in Requests : requests[j].state = "over"}) \in Nat
    BY <1>1, <2>2, OverIsFinite, ContentFacts, StreamBounds DEF TypeOK
  <2>7. Reconnections' = Reconnections + 1 /\ Reconnections \in Nat
    BY <2>1, <2>6 DEF Reconnections
  <2>8. NoStreamIsReopened'
    BY <1>1, <2>1, <2>2, <2>6, <2>7 DEF NoStreamIsReopened
  <2> QED
    BY <2>4, <2>5, <2>8
<1>13. ASSUME NEW c \in Conns, TickRejects(c) PROVE PageInv'
  <2>1. /\ faults < MaxFaults /\ faults' = faults + 1 /\ apiUp' = FALSE
        /\ conns' = [d \in Conns |-> IF Live(d) THEN [NoConn EXCEPT !.state = "ended"] ELSE conns[d]]
        /\ source' = (IF source = "open" /\ Live(current) THEN "waiting" ELSE source)
        /\ load' = (IF mounted THEN load ELSE FreshLoad)
        /\ UNCHANGED <<db, mounted, shown, current, replayingId, requests>>
    BY <1>13 DEF TickRejects
  <2> DEFINE Lost == [NoConn EXCEPT !.state = "ended"]
  <2>2. Lost \in Conn /\ ~Lost.open /\ Len(Lost.wire) <= MaxWire
    <3>1. Lost \in Conn
      BY ContentFacts DEF Conn
    <3>2. Lost.wire = NoConn.wire /\ Lost.open = NoConn.open
      BY DEF NoConn
    <3> QED
      BY <3>1, <3>2, ContentFacts, StreamBounds
  <2>3. /\ ConnsOK(conns')
        /\ \A d \in Conns : conns'[d].open => conns[d].open /\ ~Live(d) /\ conns'[d] = conns[d]
        /\ \A d \in Conns : ~Live(d) => conns'[d] = conns[d]
    <3> HIDE DEF Lost
    <3> QED
      BY <1>1, <2>1, <2>2 DEF ConnsOK, Lost
  <2>4. load' \in [reading: SUBSET Parts, seen: Content]
    BY <1>1, <2>1, ContentFacts DEF TypeOK, FreshLoad
  <2>5. TypeOK'
    <3>1. faults' \in 0..MaxFaults
      BY <1>1, <2>1, StreamBounds DEF TypeOK
    <3>2. source' \in {"none", "open", "waiting", "closed", "failed"}
      BY <1>1, <2>1 DEF TypeOK
    <3> QED
      BY <1>1, <2>1, <2>3, <2>4, <3>1, <3>2 DEF TypeOK, ConnsOK
  <2>6. OneSource'
    <3>1. \A d \in Conns : conns'[d].open => d = current' /\ source' = "open"
      BY <1>1, <2>1, <2>3 DEF OneSource
    <3>2. source' = "open" => current' # 0 /\ conns'[current'].open
      BY <1>1, <2>1, <2>3 DEF OneSource, TypeOK
    <3>3. \A d \in Conns : d > current' => conns'[d] = NoConn
      BY <1>1, <2>1, <2>3, ContentFacts DEF OneSource, Live
    <3>4. ~mounted' => source' = "none" /\ current' = 0
                       /\ \A k \in Requests : requests'[k].state = "unused"
      BY <1>1, <2>1 DEF OneSource
    <3> QED
      BY <3>1, <3>2, <3>3, <3>4 DEF OneSource
  <2>7. faults \in Nat /\ current \in Nat
        /\ Cardinality({j \in Requests : requests[j].state = "over"}) \in Nat
    BY <1>1, OverIsFinite, ContentFacts, StreamBounds DEF TypeOK
  <2>8. Reconnections' = Reconnections + 1 /\ Reconnections \in Nat
    BY <2>1, <2>7 DEF Reconnections
  <2>9. source' = "waiting" => mounted
    BY <1>1, <2>1 DEF OneSource
  <2>10. NoStreamIsReopened'
    BY <1>1, <2>1, <2>7, <2>8, <2>9 DEF NoStreamIsReopened
  <2> QED
    BY <2>5, <2>6, <2>10
<1>14. CASE RestartApi
  BY <1>1, <1>14 DEF RestartApi, page, TypeOK, OneSource, NoStreamIsReopened, Reconnections
<1>15. CASE UNCHANGED vars
  BY <1>1, <1>15 DEF vars, page, TypeOK, OneSource, NoStreamIsReopened, Reconnections
<1> QED
  BY <1>2, <1>3, <1>4, <1>5, <1>6, <1>7, <1>8, <1>9, <1>10, <1>11, <1>12, <1>13, <1>14, <1>15
  DEF Next, StoreStep, Loading, Replaying

(* The state stays within its types, whatever is lost.                     *)
THEOREM StreamTypes == Spec => []TypeOK
<1>1. PageInv => TypeOK
  BY DEF PageInv
<1> QED
  BY <1>1, InitPage, PageStep, PTL DEF Spec

(* A page opens a stream for its mount, a fault or a replay, and never     *)
(* because a stream has ended (call-stream-snapshot.ts:53-56), for any     *)
(* number of rows, faults and replays.                                     *)
THEOREM EndedStreamsStayEnded == Spec => []NoStreamIsReopened
<1>1. PageInv => NoStreamIsReopened
  BY DEF PageInv
<1> QED
  BY <1>1, InitPage, PageStep, PTL DEF Spec

-----------------------------------------------------------------------------
(* What is shown, sent, read and stored is ever newer, in this order.      *)

LEMMA NotOlderFacts ==
  ASSUME NEW part \in Parts, NEW a \in Content, NEW b \in Content, NEW c \in Content
  PROVE  /\ NotOlder(part, a, a) /\ NotOlder(part, Blank, a)
         /\ NotOlder(part, a, b) /\ NotOlder(part, b, c) => NotOlder(part, a, c)
BY DEF NotOlder, Parts, Blank, Present, Content

LEMMA PrecedesFacts ==
  ASSUME NEW a \in Content, NEW b \in Content, NEW c \in Content
  PROVE  /\ Precedes(a, a) /\ Precedes(Blank, a)
         /\ Precedes(a, b) /\ Precedes(b, c) => Precedes(a, c)
BY NotOlderFacts DEF Precedes

(* A part that is fetched is as new as what is stored, the others are what *)
(* they were.                                                              *)
LEMMA FetchIsNewest ==
  ASSUME db \in Content, NEW seen \in Content, NEW part \in Parts, NEW a \in Content
  PROVE  /\ NotOlder(part, a, db) => NotOlder(part, a, Fetch(seen, part))
         /\ \A q \in Parts \ {part} : NotOlder(q, a, seen) => NotOlder(q, a, Fetch(seen, part))
         /\ Precedes(seen, db) => Precedes(Fetch(seen, part), db)
<1>1. CASE part = "call"
  BY <1>1 DEF Fetch, NotOlder, Precedes, Parts, Present, Content
<1>2. CASE part = "deliveries"
  BY <1>2 DEF Fetch, NotOlder, Precedes, Parts, Present, Content
<1>3. CASE part = "recording"
  BY <1>3 DEF Fetch, NotOlder, Precedes, Parts, Present, Content
<1> QED
  BY <1>1, <1>2, <1>3 DEF Parts

LEMMA StoreGrows ==
  ASSUME db \in Content, StoreStep \/ \E k \in Requests : requests[k].row \in Rows /\ ReplayRow(k)
  PROVE  Precedes(db, db')
<1>1. ASSUME NEW r \in Rows, NEW status \in RowStates \ {"absent"}, SetRow(r, status)
      PROVE  Precedes(db, db')
  BY <1>1 DEF SetRow, Content, Precedes, NotOlder, Parts, Present
<1>2. "PENDING" \in RowStates \ {"absent"} /\ "RETRY_PENDING" \in RowStates \ {"absent"}
      /\ TerminalOutboxStatuses \subseteq RowStates \ {"absent"}
  BY DEF RowStates, OpenStatuses, TerminalOutboxStatuses
<1>3. CASE EndCall \/ WriteCostsAndRecording
  BY <1>3 DEF EndCall, WriteCostsAndRecording, Content, Precedes, NotOlder, Parts, Present
<1> QED
  BY <1>1, <1>2, <1>3 DEF StoreStep, CreateRow, RetryRow, SettleRow, ReplayRow

LEMMA InitViews == Init => ViewsInOrder
<1> SUFFICES ASSUME Init PROVE ViewsInOrder
  OBVIOUS
<1>1. Precedes(Blank, Blank)
  BY PrecedesFacts, ContentFacts
<1> QED
  BY <1>1, ContentFacts DEF Init, ViewsInOrder, StoredIsNewest, FreshLoad

(* Nothing that is shown or under way changes, and what is stored only     *)
(* becomes newer.                                                          *)
LEMMA NewerStore ==
  ASSUME TypeOK, ViewsInOrder, db' \in Content, Precedes(db, db'),
         UNCHANGED <<shown, load, conns>>,
         \A k \in Requests : requests'[k].state # "unused" =>
            requests[k].state # "unused" /\ requests'[k].row = requests[k].row
  PROVE  ViewsInOrder'
<1>1. /\ db \in Content /\ shown \in Content /\ load.seen \in Content
      /\ \A c \in Conns : /\ conns[c].seen \in Content
                          /\ \A i \in DOMAIN conns[c].wire : conns[c].wire[i][1] \in Content
  BY DEF TypeOK, Conn
<1>2. \A a \in Content : Precedes(a, db) => Precedes(a, db')
  BY <1>1, PrecedesFacts
<1>3. Present(db) \subseteq Present(db')
  BY DEF Precedes, NotOlder, Parts
<1>4. StoredIsNewest'
  BY <1>1, <1>2, <1>3 DEF ViewsInOrder, StoredIsNewest
<1>5. ASSUME NEW c \in Conns, conns'[c].open PROVE WireIsNewer(c)' /\ ReadIsNewer(c)'
  <2>1. WireIsNewer(c) /\ ReadIsNewer(c)
    BY <1>5 DEF ViewsInOrder
  <2> QED
    BY <1>1, <1>2, <2>1 DEF WireIsNewer, ReadIsNewer
<1> QED
  BY <1>4, <1>5 DEF ViewsInOrder

Quiet(c) == \/ conns'[c] = conns[c] /\ ~conns[c].open
            \/ conns'[c].wire = <<>> /\ conns'[c].seen = Blank /\ conns'[c].state # "reading"

(* After connections are closed, lost or opened there is nothing on its    *)
(* way, and any view that is not newer than what is stored may be shown.   *)
LEMMA NothingUnderWay ==
  ASSUME TypeOK, ViewsInOrder, shown' \in Content, Precedes(shown', db),
         load' = load \/ load' = FreshLoad, UNCHANGED db,
         \A k \in Requests : requests'[k].state # "unused" =>
            requests[k].state # "unused" /\ requests'[k].row = requests[k].row,
         \A c \in Conns : Quiet(c)
  PROVE  ViewsInOrder'
<1>1. db \in Content /\ Precedes(Blank, db)
  BY ContentFacts, PrecedesFacts DEF TypeOK
<1>2. Precedes(load'.seen, db)
  BY <1>1 DEF ViewsInOrder, StoredIsNewest, FreshLoad
<1>3. StoredIsNewest'
  BY <1>1, <1>2 DEF ViewsInOrder, StoredIsNewest, Quiet
<1>4. ASSUME NEW c \in Conns, conns'[c].open PROVE WireIsNewer(c)' /\ ReadIsNewer(c)'
  <2>1. conns'[c].wire = <<>> /\ conns'[c].state # "reading"
    BY <1>4 DEF Quiet
  <2> QED
    BY <2>1 DEF WireIsNewer, ReadIsNewer
<1> QED
  BY <1>3, <1>4 DEF ViewsInOrder

LEMMA TickKeepsOrder ==
  ASSUME TypeOK, ViewsInOrder, NEW c \in Conns, Stream(c)
  PROVE  ViewsInOrder'
<1>1. /\ conns \in [Conns -> Conn] /\ conns[c] \in Conn /\ db \in Content /\ shown \in Content
      /\ conns[c].wire \in Seq(Content \X BOOLEAN) /\ conns[c].seen \in Content
      /\ \A i \in DOMAIN conns[c].wire : conns[c].wire[i][1] \in Content
  BY DEF TypeOK, Conn
<1>2. /\ UNCHANGED <<db, shown, load, requests>> /\ \A d \in Conns : d # c => conns'[d] = conns[d]
      /\ \A d \in Conns : conns'[d].open = conns[d].open
  BY TickType DEF page
<1>3. SUFFICES /\ Precedes(conns'[c].seen, db)
               /\ conns[c].open => WireIsNewer(c)' /\ ReadIsNewer(c)'
  <2>1. StoredIsNewest'
    BY <1>2, <1>3 DEF ViewsInOrder, StoredIsNewest
  <2>2. ASSUME NEW d \in Conns, d # c, conns'[d].open PROVE WireIsNewer(d)' /\ ReadIsNewer(d)'
    <3>1. WireIsNewer(d) /\ ReadIsNewer(d) /\ conns'[d] = conns[d]
      BY <1>2, <2>2 DEF ViewsInOrder
    <3> QED
      BY <1>2, <3>1 DEF WireIsNewer, ReadIsNewer
  <2> QED
    BY <1>2, <1>3, <2>1, <2>2 DEF ViewsInOrder
<1>4. /\ Precedes(conns[c].seen, db) /\ Precedes(shown, db) /\ Precedes(Blank, db)
      /\ conns[c].open => WireIsNewer(c) /\ ReadIsNewer(c)
  BY <1>1, PrecedesFacts, ContentFacts DEF ViewsInOrder, StoredIsNewest
<1>5. CASE StartTick(c)
  <2>1. conns'[c].wire = conns[c].wire /\ conns'[c].seen = Blank /\ conns'[c].reading = Parts
    BY <1>1, <1>5 DEF StartTick, Conn
  <2> QED
    BY <1>2, <1>4, <2>1 DEF WireIsNewer, ReadIsNewer
<1>6. ASSUME NEW part \in Parts, ReadPart(c, part)
      PROVE  /\ Precedes(conns'[c].seen, db)
             /\ conns[c].open => WireIsNewer(c)' /\ ReadIsNewer(c)'
  <2>1. /\ conns[c].state = "reading" /\ part \in conns[c].reading
        /\ conns' = [conns EXCEPT ![c].seen = Fetch(conns[c].seen, part),
                                  ![c].reading = conns[c].reading \ {part}]
    BY <1>6 DEF ReadPart
  <2> HIDE DEF Fetch
  <2>2. /\ conns'[c].wire = conns[c].wire /\ conns'[c].seen = Fetch(conns[c].seen, part)
        /\ conns'[c].reading = conns[c].reading \ {part}
    BY <1>1, <2>1 DEF Conn
  <2>3. Precedes(conns'[c].seen, db)
    BY <1>1, <1>4, <2>2, FetchIsNewest
  <2>4. ASSUME conns[c].open PROVE WireIsNewer(c)' /\ ReadIsNewer(c)'
    <3>1. WireIsNewer(c)'
      BY <1>2, <1>4, <2>2, <2>4 DEF WireIsNewer
    <3>2. ASSUME NEW a \in Content, Precedes(a, db),
                 \A q \in Parts \ conns[c].reading : NotOlder(q, a, conns[c].seen)
          PROVE  \A q \in Parts \ conns'[c].reading : NotOlder(q, a, conns'[c].seen)
      <4>1. NotOlder(part, a, conns'[c].seen)
        BY <1>1, <2>2, <3>2, FetchIsNewest DEF Precedes
      <4>2. ASSUME NEW q \in Parts \ conns'[c].reading, q # part
            PROVE  NotOlder(q, a, conns'[c].seen)
        <5>1. q \in Parts \ conns[c].reading /\ q \in Parts \ {part}
          BY <2>2, <4>2
        <5>2. NotOlder(q, a, conns[c].seen)
          BY <3>2, <5>1
        <5> QED
          BY <1>1, <2>2, <5>1, <5>2, FetchIsNewest
      <4> QED
        BY <4>1, <4>2
    <3>3. /\ \A q \in Parts \ conns[c].reading : NotOlder(q, shown, conns[c].seen)
          /\ \A i \in DOMAIN conns[c].wire :
               /\ Precedes(conns[c].wire[i][1], db)
               /\ \A q \in Parts \ conns[c].reading : NotOlder(q, conns[c].wire[i][1], conns[c].seen)
      BY <1>4, <2>1, <2>4 DEF WireIsNewer, ReadIsNewer
    <3>4. \A q \in Parts \ conns'[c].reading : NotOlder(q, shown, conns'[c].seen)
      BY <1>1, <1>4, <3>2, <3>3
    <3>5. \A i \in DOMAIN conns[c].wire : \A q \in Parts \ conns'[c].reading :
            NotOlder(q, conns[c].wire[i][1], conns'[c].seen)
      BY <1>1, <3>2, <3>3
    <3>6. ReadIsNewer(c)'
      BY <1>2, <2>2, <3>4, <3>5 DEF ReadIsNewer
    <3> QED
      BY <3>1, <3>6
  <2> QED
    BY <2>3, <2>4
<1>7. CASE SendSnapshot(c)
  <2> DEFINE seen == conns[c].seen
             grace == GraceAfter(conns[c].grace, seen)
             final == shouldStop(seen, grace)
             wire == conns[c].wire
  <2>1. /\ conns[c].state = "reading" /\ conns[c].reading = {}
        /\ conns' = [conns EXCEPT ![c].grace = grace, ![c].wire = Append(wire, <<seen, final>>),
                                  ![c].state = IF final THEN "ended" ELSE "idle"]
    BY <1>7 DEF SendSnapshot
  <2> HIDE DEF grace, final
  <2>2. /\ conns'[c].wire = Append(wire, <<seen, final>>) /\ conns'[c].seen = seen
        /\ conns'[c].state # "reading"
    BY <1>1, <2>1 DEF Conn
  <2>3. /\ DOMAIN conns'[c].wire = DOMAIN wire \cup {Len(wire) + 1}
        /\ \A i \in DOMAIN wire : conns'[c].wire[i] = wire[i] /\ i < Len(wire) + 1
        /\ conns'[c].wire[Len(wire) + 1] = <<seen, final>>
        /\ DOMAIN wire = 1..Len(wire) /\ Len(wire) \in Nat
    BY <1>1, <2>2
  <2>4. ASSUME conns[c].open PROVE WireIsNewer(c)'
    <3>1. Precedes(shown, seen) /\ \A i \in DOMAIN wire : Precedes(wire[i][1], seen)
      BY <1>4, <2>1, <2>4 DEF ReadIsNewer, Precedes
    <3>2. <<seen, final>>[1] = seen
      OBVIOUS
    <3>3. /\ \A i \in DOMAIN wire : Precedes(shown, wire[i][1]) /\ Precedes(wire[i][1], db)
          /\ \A i, j \in DOMAIN wire : i < j => Precedes(wire[i][1], wire[j][1])
      BY <1>4, <2>4 DEF WireIsNewer
    <3>4. \A i \in DOMAIN conns'[c].wire :
            Precedes(shown, conns'[c].wire[i][1]) /\ Precedes(conns'[c].wire[i][1], db)
      BY <1>4, <2>3, <3>1, <3>2, <3>3
    <3>5. \A i, j \in DOMAIN conns'[c].wire :
            i < j => Precedes(conns'[c].wire[i][1], conns'[c].wire[j][1])
      BY <2>3, <3>1, <3>2, <3>3
    <3> QED
      BY <1>2, <3>4, <3>5 DEF WireIsNewer
  <2> QED
    BY <1>4, <2>2, <2>4 DEF ReadIsNewer
<1>8. CASE ReturnWhenClosed(c)
  <2>1. conns'[c].wire = conns[c].wire /\ conns'[c].seen = conns[c].seen /\ conns'[c].state = "ended"
    BY <1>1, <1>8 DEF ReturnWhenClosed, Conn
  <2> QED
    BY <1>2, <1>4, <2>1 DEF WireIsNewer, ReadIsNewer
<1> QED
  BY <1>5, <1>6, <1>7, <1>8 DEF Stream

LEMMA ViewsStep ==
  ASSUME PageInv, PageInv', ViewsInOrder, [Next]_vars
  PROVE  ViewsInOrder' /\ (mounted => Precedes(shown, shown'))
<1>1. /\ TypeOK /\ OneSource /\ db \in Content /\ db' \in Content
      /\ shown \in Content /\ shown' \in Content /\ \A c \in Conns : conns[c] \in Conn
      /\ conns \in [Conns -> Conn]
  BY DEF PageInv, TypeOK
<1>2. ASSUME UNCHANGED shown PROVE Precedes(shown, shown')
  BY <1>1, <1>2, PrecedesFacts
<1>3. Precedes(db, db)
  BY <1>1, PrecedesFacts
<1>4. \A others \in [Conns -> Conn] : Connect(others) => \A c \in Conns :
        \/ conns'[c] = others[c]
        \/ conns'[c] = FreshConn
  BY DEF Connect
<1>closed. \A c : Closed(c).wire = <<>> /\ Closed(c).seen = Blank /\ Closed(c).state # "reading"
  BY DEF Closed, NoConn
<1>5. CASE StoreStep
  <2>1. UNCHANGED <<apiUp, faults, conns, page>>
    BY <1>5 DEF StoreStep, EndCall, WriteCostsAndRecording, CreateRow, RetryRow, SettleRow
  <2> QED
    BY <1>1, <1>2, <1>5, <2>1, StoreGrows, NewerStore DEF page
<1>6. ASSUME NEW c \in Conns, Stream(c) PROVE ViewsInOrder' /\ UNCHANGED shown
  BY <1>1, <1>6, TickKeepsOrder, TickType DEF page
<1>7. ASSUME NEW part \in Parts, LoadPart(part) PROVE ViewsInOrder' /\ UNCHANGED shown
  <2>1. load'.seen = Fetch(load.seen, part) /\ UNCHANGED <<db, conns, shown, requests>>
    BY <1>7 DEF LoadPart
  <2>2. load.seen \in Content /\ Precedes(load.seen, db)
    BY <1>1 DEF TypeOK, ViewsInOrder, StoredIsNewest
  <2>3. Precedes(load'.seen, db)
    BY <1>1, <2>1, <2>2, FetchIsNewest
  <2>4. StoredIsNewest'
    BY <2>1, <2>3 DEF ViewsInOrder, StoredIsNewest
  <2> QED
    BY <2>1, <2>4 DEF ViewsInOrder, WireIsNewer, ReadIsNewer
<1>8. CASE Mount
  <2>1. /\ ~mounted /\ shown' = load.seen /\ UNCHANGED <<db, load, requests>>
        /\ conns' = conns \/ Connect(conns)
    BY <1>8 DEF Mount
  <2>2. \A c \in Conns : ~conns[c].open
    BY <1>1, <2>1 DEF OneSource
  <2>3. \A c \in Conns : \/ conns'[c] = conns[c] /\ ~conns[c].open
                         \/ conns'[c] = FreshConn
    BY <1>1, <1>4, <2>1, <2>2
  <2>4. Precedes(shown', db)
    BY <2>1 DEF ViewsInOrder, StoredIsNewest
  <2> QED
    BY <1>1, <2>1, <2>3, <2>4, NothingUnderWay, ContentFacts DEF Quiet
<1>9. ASSUME NEW c \in Conns, Receive(c) PROVE ViewsInOrder' /\ Precedes(shown, shown')
  <2>1. /\ conns[c].open /\ conns[c].wire # <<>> /\ shown' = Head(conns[c].wire)[1]
        /\ UNCHANGED <<db, load, requests>>
        /\ \/ conns' = [conns EXCEPT ![c] = Closed(c)]
           \/ conns' = [conns EXCEPT ![c].wire = Tail(conns[c].wire)]
    BY <1>9 DEF Receive
  <2>2. conns[c].wire \in Seq(Content \X BOOLEAN) /\ Head(conns[c].wire) = conns[c].wire[1]
        /\ 1 \in DOMAIN conns[c].wire /\ conns[c].seen \in Content
    BY <1>1, <2>1 DEF Conn
  <2>3. WireIsNewer(c) /\ ReadIsNewer(c)
    BY <2>1 DEF ViewsInOrder
  <2>4. Precedes(shown, shown') /\ Precedes(shown', db)
    BY <2>1, <2>2, <2>3 DEF WireIsNewer
  <2>5. \A d \in Conns : d # c => ~conns[d].open
    BY <1>1, <2>1 DEF OneSource
  <2>6. CASE conns' = [conns EXCEPT ![c] = Closed(c)]
    <3>1. \A d \in Conns : conns'[d] = IF d = c THEN Closed(c) ELSE conns[d]
      BY <1>1, <2>6
    <3>2. \A d \in Conns : Quiet(d)
      BY <1>closed, <2>5, <3>1 DEF Quiet
    <3> QED
      BY <1>1, <2>1, <2>4, <3>2, NothingUnderWay
  <2>7. CASE conns' = [conns EXCEPT ![c].wire = Tail(conns[c].wire)]
    <3>1. /\ conns'[c].wire = Tail(conns[c].wire) /\ conns'[c].seen = conns[c].seen
          /\ conns'[c].reading = conns[c].reading /\ conns'[c].state = conns[c].state
          /\ \A d \in Conns : d # c => conns'[d] = conns[d]
      BY <1>1, <2>7 DEF Conn
    <3>2. \A i \in DOMAIN conns'[c].wire :
            i \in Nat /\ i + 1 \in DOMAIN conns[c].wire /\ i + 1 > 1
              /\ conns'[c].wire[i] = conns[c].wire[i + 1]
      BY <2>2, <3>1
    <3>3. WireIsNewer(c)'
      <4>1. \A i \in DOMAIN conns'[c].wire :
              Precedes(shown', conns'[c].wire[i][1]) /\ Precedes(conns'[c].wire[i][1], db)
        BY <2>1, <2>2, <2>3, <3>2 DEF WireIsNewer
      <4>2. \A i, j \in DOMAIN conns'[c].wire :
              i < j => Precedes(conns'[c].wire[i][1], conns'[c].wire[j][1])
        BY <2>3, <3>2 DEF WireIsNewer
      <4> QED
        BY <2>1, <4>1, <4>2 DEF WireIsNewer
    <3>4. ReadIsNewer(c)'
      BY <2>1, <2>2, <2>3, <3>1, <3>2 DEF ReadIsNewer
    <3>5. StoredIsNewest'
      BY <2>1, <2>4, <3>1 DEF ViewsInOrder, StoredIsNewest
    <3>6. \A d \in Conns : conns'[d].open => d = c
      BY <2>5, <3>1
    <3> QED
      BY <2>4, <3>3, <3>4, <3>5, <3>6 DEF ViewsInOrder
  <2> QED
    BY <2>1, <2>4, <2>6, <2>7
<1>10. CASE Reconnect
  <2>1. source = "waiting" /\ Connect(conns) /\ UNCHANGED <<db, load, mounted, shown, requests>>
    BY <1>10 DEF Reconnect
  <2>2. \A c \in Conns : \/ conns'[c] = conns[c] /\ ~conns[c].open
                         \/ conns'[c] = FreshConn
    BY <1>1, <1>4, <2>1 DEF OneSource
  <2>3. Precedes(shown', db)
    BY <2>1 DEF ViewsInOrder, StoredIsNewest
  <2> QED
    BY <1>1, <1>2, <2>1, <2>2, <2>3, NothingUnderWay, ContentFacts DEF Quiet
<1>11. ASSUME NEW k \in Requests, NEW r \in Rows, ClickReplay(k, r)
       PROVE  ViewsInOrder' /\ UNCHANGED shown
  <2>1. /\ shown.rows[r] \in TerminalOutboxStatuses
        /\ requests' = [requests EXCEPT ![k] = [row |-> r, state |-> "sent"]]
        /\ UNCHANGED <<db, conns, load, shown>>
    BY <1>11 DEF ClickReplay
  <2>2. r \in Present(db)
    <3>1. r \in Present(shown)
      BY <2>1 DEF Present, TerminalOutboxStatuses
    <3> QED
      BY <3>1 DEF ViewsInOrder, StoredIsNewest, Precedes, NotOlder, Parts
  <2>3. \A j \in Requests : requests'[j] = IF j = k THEN [row |-> r, state |-> "sent"] ELSE requests[j]
    BY <1>1, <2>1 DEF TypeOK
  <2>4. StoredIsNewest'
    BY <2>1, <2>2, <2>3 DEF ViewsInOrder, StoredIsNewest, Present
  <2> QED
    BY <2>1, <2>4 DEF ViewsInOrder, WireIsNewer, ReadIsNewer
<1>12. ASSUME NEW k \in Requests, ReplayRow(k) \/ ReplayFailed(k) \/ ReplayAnswered(k)
       PROVE  ViewsInOrder' /\ Precedes(shown, shown')
  <2>1. requests[k].state \in {"sent", "answered"}
    BY <1>12 DEF ReplayRow, ReplayFailed, ReplayAnswered
  <2>2. requests[k].row \in Present(db) /\ requests[k].row \in Rows
    BY <2>1 DEF ViewsInOrder, StoredIsNewest, Present
  <2>3. \A j \in Requests : requests'[j].state # "unused" =>
          requests[j].state # "unused" /\ requests'[j].row = requests[j].row
    BY <1>1, <1>12, <2>1 DEF ReplayRow, ReplayFailed, ReplayAnswered, TypeOK
  <2>4. CASE ReplayRow(k)
    BY <1>1, <1>2, <2>2, <2>3, <2>4, StoreGrows, NewerStore DEF ReplayRow
  <2>5. CASE ReplayFailed(k)
    BY <1>1, <1>2, <1>3, <2>3, <2>5, NewerStore DEF ReplayFailed
  <2>6. CASE ReplayAnswered(k)
    <3>1. /\ shown' = [shown EXCEPT !.rows[requests[k].row] = "PENDING"]
          /\ Connect(Cleanup) /\ UNCHANGED <<db, load>>
      BY <2>6 DEF ReplayAnswered
    <3>2. Precedes(shown, shown') /\ Precedes(shown', db)
      BY <1>1, <2>2, <3>1
      DEF ViewsInOrder, StoredIsNewest, Precedes, NotOlder, Parts, Present, Content
    <3>3. \A c \in Conns : Cleanup[c] = IF conns[c].open THEN Closed(c) ELSE conns[c]
      BY DEF Cleanup
    <3>4. \A c \in Conns : Quiet(c)
      BY <1>closed, <1>1, <1>4, <3>1, <3>3, CleanupStep, ContentFacts DEF ConnsOK, Quiet
    <3> QED
      BY <1>1, <2>3, <3>1, <3>2, <3>4, NothingUnderWay
  <2> QED
    BY <1>12, <2>4, <2>5, <2>6
<1>13. CASE DropConnection
  <2>1. /\ source = "open" /\ conns' = [conns EXCEPT ![current] = Closed(current)]
        /\ UNCHANGED <<db, load, shown, requests>>
    BY <1>13 DEF DropConnection
  <2>2. current \in Conns /\ \A c \in Conns : conns[c].open => c = current
    BY <1>1, <2>1 DEF OneSource, TypeOK
  <2>3. \A c \in Conns : conns'[c] = IF c = current THEN Closed(current) ELSE conns[c]
    BY <1>1, <2>1
  <2>4. \A c \in Conns : Quiet(c)
    BY <1>closed, <2>2, <2>3 DEF Quiet
  <2>5. Precedes(shown', db)
    BY <2>1 DEF ViewsInOrder, StoredIsNewest
  <2> QED
    BY <1>1, <1>2, <2>1, <2>4, <2>5, NothingUnderWay
<1>14. ASSUME NEW c \in Conns, TickRejects(c) PROVE ViewsInOrder' /\ UNCHANGED shown
  <2>1. /\ conns' = [d \in Conns |-> IF Live(d) THEN [NoConn EXCEPT !.state = "ended"] ELSE conns[d]]
        /\ load' = load \/ load' = FreshLoad
        /\ UNCHANGED <<db, shown, requests>>
    BY <1>14 DEF TickRejects
  <2>2. \A d \in Conns : (conns'[d] = conns[d] /\ ~Live(d))
                         \/ conns'[d] = [NoConn EXCEPT !.state = "ended"]
    BY <2>1
  <2>3. Precedes(Blank, db)
    BY <1>1, PrecedesFacts
  <2>4. [NoConn EXCEPT !.state = "ended"].seen = Blank /\ ~[NoConn EXCEPT !.state = "ended"].open
    BY DEF NoConn
  <2>5. StoredIsNewest'
    BY <2>1, <2>2, <2>3, <2>4 DEF ViewsInOrder, StoredIsNewest, FreshLoad
  <2>6. ASSUME NEW d \in Conns, conns'[d].open PROVE WireIsNewer(d)' /\ ReadIsNewer(d)'
    <3>1. conns'[d] = conns[d] /\ WireIsNewer(d) /\ ReadIsNewer(d)
      BY <2>2, <2>4, <2>6 DEF ViewsInOrder
    <3> QED
      BY <2>1, <3>1 DEF WireIsNewer, ReadIsNewer
  <2> QED
    BY <2>1, <2>5, <2>6 DEF ViewsInOrder
<1>15. CASE RestartApi \/ UNCHANGED vars
  <2>1. UNCHANGED <<db, conns, load, shown, requests>>
    BY <1>15 DEF RestartApi, vars, page
  <2> QED
    BY <1>1, <1>2, <1>3, <2>1, NewerStore
<1> QED
  BY <1>2, <1>5, <1>6, <1>7, <1>8, <1>9, <1>10, <1>11, <1>12, <1>13, <1>14, <1>15
  DEF Next, StoreStep, Loading, Replaying, Mount

(* The page never goes back to a view older than the one it shows,         *)
(* whatever connections are opened, lost and replaced, and however late a  *)
(* snapshot arrives: the cleanup of the effect leaves the page one source  *)
(* (call-detail-client.tsx:103-133).                                       *)
THEOREM PageOnlyGoesForward == Spec => PageNeverGoesBack
<1>1. Init => PageInv /\ ViewsInOrder
  BY InitPage, InitViews
<1>2. PageInv /\ ViewsInOrder /\ [Next]_vars => PageInv' /\ ViewsInOrder'
  BY PageStep, ViewsStep
<1>3. PageInv /\ ViewsInOrder /\ [Next]_vars =>
        [mounted => /\ shown.ended => shown'.ended
                    /\ shown.recorded => shown'.recorded
                    /\ Present(shown) \subseteq Present(shown')]_vars
  <2> SUFFICES ASSUME PageInv, ViewsInOrder, [Next]_vars, mounted
               PROVE  /\ shown.ended => shown'.ended
                      /\ shown.recorded => shown'.recorded
                      /\ Present(shown) \subseteq Present(shown')
    OBVIOUS
  <2>1. Precedes(shown, shown')
    BY PageStep, ViewsStep
  <2> QED
    BY <2>1 DEF Precedes, NotOlder, Parts
<1> QED
  BY <1>1, <1>2, <1>3, PTL DEF Spec, PageNeverGoesBack

-----------------------------------------------------------------------------
(* A stream that has ended left a settled page.                            *)

Settled == FinalIsSettled /\ QuietPageIsSettled

LEMMA FinalSnapshotIsSettled ==
  ASSUME NEW seen \in Content, NEW grace \in 0..GraceTicks, shouldStop(seen, GraceAfter(grace, seen))
  PROVE  SettledView(seen)
<1>1. CASE deliveriesSettled(seen)
  BY <1>1 DEF shouldStop, deliveriesSettled, SettledView
<1>2. CASE GraceAfter(grace, seen) >= GraceTicks
  <2>1. Present(seen) = {}
    BY <1>2, StreamBounds DEF GraceAfter
  <2> QED
    BY <2>1 DEF shouldStop, SettledView
<1> QED
  BY <1>1, <1>2 DEF shouldStop

LEMMA SettledStep ==
  ASSUME PageInv, PageInv', Settled, [Next]_vars
  PROVE  Settled'
<1>1. /\ TypeOK /\ OneSource /\ \A c \in Conns : conns[c] \in Conn
      /\ conns \in [Conns -> Conn] /\ FinalIsSettled /\ QuietPageIsSettled
  BY DEF PageInv, TypeOK, Settled
<1>2. \A c : Closed(c).wire = <<>>
  BY DEF Closed, NoConn
(* Connections may lose what is on their way, and the page, while it is    *)
(* quiet, stays as it is.                                                  *)
<1>3. ASSUME \A c \in Conns : conns'[c].wire # <<>> /\ conns'[c].open =>
                \A i \in DOMAIN conns'[c].wire :
                  conns'[c].wire[i][2] => SettledView(conns'[c].wire[i][1]),
             source' = "closed" => SettledView(shown')
      PROVE  Settled'
  BY <1>3 DEF Settled, FinalIsSettled, QuietPageIsSettled, SettledView
<1>4. /\ \A c \in Conns : conns[c].open => \A i \in DOMAIN conns[c].wire :
           conns[c].wire[i][2] => SettledView(conns[c].wire[i][1])
      /\ source = "closed" => SettledView(shown)
  BY <1>1 DEF FinalIsSettled, QuietPageIsSettled, SettledView
<1>5. ASSUME source' = "closed" => source = "closed" /\ UNCHANGED shown,
             \A c \in Conns : conns'[c] = conns[c] \/ conns'[c].wire = <<>>
      PROVE  Settled'
  BY <1>3, <1>4, <1>5
<1>6. ASSUME NEW others \in [Conns -> Conn], Connect(others)
      PROVE  /\ source' # "closed"
             /\ \A c \in Conns : conns'[c] = others[c] \/ conns'[c].wire = <<>>
  BY <1>6, ContentFacts DEF Connect
<1>7. CASE UNCHANGED <<conns, shown, source>>
  BY <1>5, <1>7
<1>8. ASSUME NEW c \in Conns, Stream(c) PROVE Settled'
  <2>1. UNCHANGED <<shown, source>> /\ \A d \in Conns : d # c => conns'[d] = conns[d]
    BY <1>1, <1>8, TickType DEF page
  <2>2. conns'[c].open = conns[c].open
    BY <1>1, <1>8, TickType
  <2>3. CASE conns'[c].wire = conns[c].wire
    BY <1>3, <1>4, <2>1, <2>2, <2>3
  <2>4. CASE SendSnapshot(c)
    <3> DEFINE seen == conns[c].seen
               grace == GraceAfter(conns[c].grace, seen)
               final == shouldStop(seen, grace)
               wire == conns[c].wire
    <3>1. conns'[c].wire = Append(wire, <<seen, final>>)
      BY <1>1, <2>4 DEF SendSnapshot, Conn
    <3>2. wire \in Seq(Content \X BOOLEAN) /\ seen \in Content /\ conns[c].grace \in 0..GraceTicks
      BY <1>1 DEF Conn
    <3>3. final => SettledView(seen)
      BY <3>2, FinalSnapshotIsSettled
    <3> HIDE DEF final, grace
    <3>4. \A i \in DOMAIN conns'[c].wire :
            \/ i \in DOMAIN wire /\ conns'[c].wire[i] = wire[i]
            \/ conns'[c].wire[i] = <<seen, final>>
      BY <3>1, <3>2
    <3> QED
      BY <1>3, <1>4, <2>1, <2>2, <3>3, <3>4
  <2>5. CASE StartTick(c) \/ ReturnWhenClosed(c) \/ \E part \in Parts : ReadPart(c, part)
    <3>1. conns'[c].wire = conns[c].wire
      <4>1. CASE StartTick(c) \/ ReturnWhenClosed(c)
        BY <1>1, <4>1 DEF StartTick, ReturnWhenClosed, Conn
      <4>2. ASSUME NEW part \in Parts, ReadPart(c, part) PROVE conns'[c].wire = conns[c].wire
        <5>1. conns' = [conns EXCEPT ![c].seen = Fetch(conns[c].seen, part),
                                     ![c].reading = conns[c].reading \ {part}]
          BY <4>2 DEF ReadPart
        <5> HIDE DEF Fetch
        <5> QED
          BY <1>1, <5>1 DEF Conn
      <4> QED
        BY <2>5, <4>1, <4>2
    <3> QED
      BY <2>3, <3>1
  <2> QED
    BY <1>8, <2>4, <2>5 DEF Stream
<1>9. ASSUME NEW c \in Conns, Receive(c) PROVE Settled'
  <2>1. conns[c].open /\ conns[c].wire # <<>> /\ source = "open"
        /\ conns[c].wire \in Seq(Content \X BOOLEAN)
    BY <1>1, <1>9 DEF Receive, OneSource, Conn
  <2>2. CASE Head(conns[c].wire)[2]
    <3>1. /\ shown' = Head(conns[c].wire)[1] /\ source' = "closed"
          /\ conns' = [conns EXCEPT ![c] = Closed(c)]
      BY <1>9, <2>2 DEF Receive
    <3>2. SettledView(shown')
      BY <1>4, <2>1, <2>2, <3>1
    <3>3. \A d \in Conns : conns'[d] = conns[d] \/ conns'[d].wire = <<>>
      BY <1>1, <1>2, <3>1
    <3> QED
      BY <1>3, <1>4, <3>2, <3>3
  <2>3. CASE ~Head(conns[c].wire)[2]
    <3>1. source' = source /\ conns' = [conns EXCEPT ![c].wire = Tail(conns[c].wire)]
      BY <1>9, <2>3 DEF Receive
    <3>2. /\ \A d \in Conns : d # c => conns'[d] = conns[d]
          /\ conns'[c].wire = Tail(conns[c].wire)
      BY <1>1, <3>1 DEF Conn
    <3>3. \A i \in DOMAIN conns'[c].wire :
            i + 1 \in DOMAIN conns[c].wire /\ conns'[c].wire[i] = conns[c].wire[i + 1]
      BY <2>1, <3>2
    <3> QED
      BY <1>3, <1>4, <2>1, <3>1, <3>2, <3>3
  <2> QED
    BY <2>2, <2>3
<1>10. CASE Mount \/ Reconnect
  <2>1. source # "closed"
    BY <1>1, <1>10 DEF Mount, Reconnect, OneSource
  <2>2. UNCHANGED <<conns, source>> \/ Connect(conns)
    BY <1>10 DEF Mount, Reconnect
  <2> QED
    BY <1>1, <1>5, <1>6, <2>1, <2>2
<1>11. ASSUME NEW k \in Requests, ReplayAnswered(k) PROVE Settled'
  <2>1. Connect(Cleanup)
    BY <1>11 DEF ReplayAnswered
  <2>2. Cleanup \in [Conns -> Conn]
    BY <1>1, CleanupStep DEF ConnsOK
  <2>3. source' # "closed" /\ \A c \in Conns : conns'[c] = Cleanup[c] \/ conns'[c].wire = <<>>
    BY <1>6, <2>1, <2>2
  <2>4. \A c \in Conns : Cleanup[c] = conns[c] \/ Cleanup[c].wire = <<>>
    BY <1>2 DEF Cleanup
  <2> QED
    BY <1>5, <2>3, <2>4
<1>12. CASE DropConnection
  <2>1. source' = "waiting" /\ conns' = [conns EXCEPT ![current] = Closed(current)]
    BY <1>12 DEF DropConnection
  <2> QED
    BY <1>1, <1>2, <1>5, <2>1
<1>13. ASSUME NEW c \in Conns, TickRejects(c) PROVE Settled'
  <2>1. /\ source' = "closed" => source = "closed"
        /\ UNCHANGED shown
        /\ \A d \in Conns : conns'[d] = conns[d] \/ conns'[d] = [NoConn EXCEPT !.state = "ended"]
    BY <1>13 DEF TickRejects
  <2>2. [NoConn EXCEPT !.state = "ended"].wire = <<>>
    BY DEF NoConn
  <2> QED
    BY <1>5, <2>1, <2>2
<1>14. CASE \/ StoreStep \/ RestartApi \/ UNCHANGED vars \/ \E part \in Parts : LoadPart(part)
            \/ \E k \in Requests : ReplayRow(k) \/ ReplayFailed(k) \/ \E r \in Rows : ClickReplay(k, r)
  <2>1. UNCHANGED <<conns, shown, source>>
    BY <1>14 DEF StoreStep, EndCall, WriteCostsAndRecording, CreateRow, RetryRow, SettleRow, RestartApi,
       LoadPart, ReplayRow, ReplayFailed, ClickReplay, vars, page
  <2> QED
    BY <1>7, <2>1
<1> QED
  BY <1>8, <1>9, <1>10, <1>11, <1>12, <1>13, <1>14
  DEF Next, StoreStep, Loading, Replaying

(* A page whose stream was closed by a final snapshot shows an ended call  *)
(* and no delivery in progress, also when a replay's answer comes late     *)
(* (calls.ts:133-147, call-detail-client.tsx:105-134 and 136-144).         *)
THEOREM ClosedStreamIsSettled == Spec => []QuietPageIsSettled
<1>1. Init => PageInv /\ Settled
  <2> SUFFICES ASSUME Init PROVE Settled
    BY InitPage
  <2> QED
    BY ContentFacts DEF Init, Settled, FinalIsSettled, QuietPageIsSettled
<1>2. PageInv /\ Settled /\ [Next]_vars => PageInv' /\ Settled'
  BY PageStep, SettledStep
<1>3. Settled => QuietPageIsSettled
  BY DEF Settled
<1> QED
  BY <1>1, <1>2, <1>3, PTL DEF Spec

-----------------------------------------------------------------------------
(* Whatever the query says, what is answered is a page from 1 on with a    *)
(* limit from 1 to 100 (pagination-query.ts:5).                            *)
THEOREM QueryIsClamped ==
  ASSUME NEW pageNo, pageNo \in Int \/ pageNo \in NoNumber \cup Infinities,
         NEW limit, limit \in Int \/ limit \in NoNumber \cup Infinities,
         ~InvalidQuery(pageNo, limit)
  PROVE  PageOf(pageNo) \in Nat \ {0} /\ LimitOf(limit) \in 1..100
<1>1. PageOf(pageNo) \in Nat \ {0}
  <2>1. CASE pageNo \in Int
    BY <2>1 DEF PageOf, AtLeast, OrDefault
  <2>2. CASE pageNo \in NoNumber \cup Infinities
    BY <2>2 DEF PageOf, AtLeast, OrDefault, InvalidQuery, NoNumber, Infinities
  <2> QED
    BY <2>1, <2>2
<1>2. LimitOf(limit) \in 1..100
  <2>1. CASE limit \in Int
    BY <2>1 DEF LimitOf, AtLeast, AtMost, OrDefault
  <2>2. CASE limit \in NoNumber \cup Infinities
    BY <2>2 DEF LimitOf, AtLeast, AtMost, OrDefault, NoNumber, Infinities
  <2> QED
    BY <2>1, <2>2
<1> QED
  BY <1>1, <1>2

LEMMA LaterRowOnLaterPage ==
  ASSUME NEW limit \in Nat \ {0}, NEW row \in Nat, NEW later \in Nat, row <= later,
         NEW p \in Nat \ {0}, row \in RowsOf(p, limit),
         NEW q \in Nat \ {0}, later \in RowsOf(q, limit)
  PROVE  p <= q
<1> SUFFICES ASSUME q < p PROVE FALSE
  OBVIOUS
<1>1. PICK d \in Nat : p - 1 = q + d
  OBVIOUS
<1>2. /\ (p - 1) * limit = q * limit + d * limit
      /\ (q - 1) * limit = q * limit - limit
      /\ q * limit \in Nat /\ d * limit \in Nat
  BY <1>1
<1>3. (p - 1) * limit <= row /\ later <= (q - 1) * limit + limit - 1
  BY <1>2 DEF RowsOf, toOffset
<1> QED
  BY <1>2, <1>3

(* The pages of a call's events are a partition of them: following the     *)
(* pages from the first on shows every event, and none twice, also if more *)
(* are appended meanwhile (calls.ts:87-99).                                *)
THEOREM EveryEventIsOnOnePage ==
  ASSUME NEW limit \in Nat \ {0}, NEW n \in Nat, NEW row \in 0..(n - 1)
  PROVE  /\ \E pageNo \in Nat \ {0} : row \in ListedEvents(n, pageNo, limit)
         /\ \A more, less \in Nat, p, q \in Nat \ {0} :
              row \in ListedEvents(more, p, limit) /\ row \in ListedEvents(less, q, limit)
                => p = q
<1>1. \E pageNo \in Nat \ {0} : row \in ListedEvents(n, pageNo, limit)
  <2> DEFINE d == row \div limit
  <2>1. d \in Nat /\ row = (limit * d) + (row % limit) /\ row % limit \in 0..(limit - 1)
    OBVIOUS
  <2>2. limit * d = d * limit /\ d * limit \in Nat /\ (d + 1) - 1 = d
    BY <2>1
  <2>3. toOffset(d + 1, limit) = d * limit
    BY <2>2 DEF toOffset
  <2>4. d * limit <= row /\ row <= (d * limit) + limit - 1
    BY <2>1, <2>2
  <2>5. row \in RowsOf(d + 1, limit)
    BY <2>2, <2>3, <2>4 DEF RowsOf
  <2> QED
    BY <2>1, <2>5 DEF ListedEvents
<1>2. \A p, q \in Nat \ {0} :
        row \in RowsOf(p, limit) /\ row \in RowsOf(q, limit) => p = q
  BY LaterRowOnLaterPage
<1> QED
  BY <1>1, <1>2 DEF ListedEvents

(* Calls that are created while the list is read push every row away from  *)
(* the reader, who may meet some twice but misses none: what was on a page *)
(* to come is on one to come still (call.repository.ts:55-62).  That holds *)
(* of the whole list; a status filter loses rows, too.                     *)
THEOREM NewCallsHideNone ==
  ASSUME NEW limit \in Nat \ {0}, NEW n \in Nat, NEW row \in Nat, NEW added \in Nat,
         NEW p \in Nat \ {0}, row \in ListedCalls(n, p, limit),
         NEW q \in Nat \ {0}, row + added \in ListedCalls(n + added, q, limit)
  PROVE  p <= q
BY LaterRowOnLaterPage DEF ListedCalls
=============================================================================
