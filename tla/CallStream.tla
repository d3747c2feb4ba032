----------------------------- MODULE CallStream -----------------------------
(***************************************************************************)
(* The live view of ONE call: GET /v1/calls/:callSid/stream of the API,    *)
(* which reads the call and what depends on it about once a second and     *)
(* sends a snapshot to the console, and the call detail page, which shows  *)
(* the snapshots and can ask for the replay of a webhook delivery.         *)
(*                                                                         *)
(* The worker and the dispatcher appear by what they write: a status that  *)
(* becomes terminal, outbox rows created one after the other, then (one    *)
(* flag for both) the costs and the recording; rows that are retried and   *)
(* settle.  CallExecutor and WebhookDispatcher are their own modules.      *)
(***************************************************************************)
EXTENDS Integers, Sequences, FiniteSets

CONSTANTS
  NumRows,     \* the endpoints subscribed to the call's event
  GraceTicks,  \* ticks without a delivery that end a stream (10)
  MaxReplays,  \* bound: replays the page asks for
  MaxFaults,   \* bound: connections lost and API processes lost
  MaxWire,     \* bound: snapshots on their way in one connection
  Faults       \* what may go wrong, of FaultKinds

(* net_drop:   the connection of a stream, or the answer to a replay, is   *)
(*             lost on its way.                                            *)
(* read_error: a read of a tick rejects.  Nothing handles the rejection of *)
(*             tick(), so Node ends the API's process.                     *)
FaultKinds == {"net_drop", "read_error"}

ASSUME StreamBounds ==
  /\ NumRows \in Nat /\ GraceTicks \in Nat \ {0} /\ MaxWire \in Nat \ {0}
  /\ MaxReplays \in Nat /\ MaxFaults \in Nat
ASSUME StreamFaults == Faults \subseteq FaultKinds

Rows == 1..NumRows
OpenStatuses == {"PENDING", "RETRY_PENDING"}
TerminalOutboxStatuses == {"DELIVERED", "DEAD"}
RowStates == {"absent"} \cup OpenStatuses \cup TerminalOutboxStatuses

(* What a snapshot is made of, each part read by a query of its own.       *)
Parts == {"call", "deliveries", "recording"}
Content == [ended: BOOLEAN, rows: [Rows -> RowStates], recorded: BOOLEAN]
Blank == [ended |-> FALSE, rows |-> [r \in Rows |-> "absent"], recorded |-> FALSE]
Present(content) == {r \in Rows : content.rows[r] # "absent"}

(* A connection for each mount, reconnection and replay.                   *)
Conns == 1..(1 + MaxReplays + MaxFaults)
Requests == 1..MaxReplays

VARIABLES
  (* Postgres, and the API's process *)
  db,           \* the call as it is stored
  apiUp,        \* whether the API's process is running
  faults,       \* how many faults have happened
  (* the API's side of each connection, and what is on its way *)
  conns,        \* see Conn
  (* the page *)
  load,         \* the reads of the page's server component
  mounted,      \* whether CallDetailClient is mounted
  shown,        \* its state: call, webhookDeliveries, hasRecording
  source,       \* its EventSource
  current,      \* the connection of that EventSource, 0 when it never had one
  replayingId,  \* the row whose button is disabled, 0 when there is none
  requests      \* the replay requests: the row, and how far it has come

page == <<load, mounted, shown, source, current, replayingId, requests>>
vars == <<db, apiUp, faults, conns, page>>

(* tick() waits for its timer ("idle"), for its reads ("reading"), is to   *)
(* find out that the client closed ("closing") or has returned ("ended").  *)
Conn == [state: {"none", "idle", "reading", "closing", "ended"},
         reading: SUBSET Parts, seen: Content, grace: 0..GraceTicks,
         wire: Seq(Content \X BOOLEAN), open: BOOLEAN]
NoConn == [state |-> "none", reading |-> {}, seen |-> Blank, grace |-> 0,
           wire |-> <<>>, open |-> FALSE]
FreshConn == [NoConn EXCEPT !.state = "idle", !.open = TRUE]
Live(c) == conns[c].state \in {"idle", "reading", "closing"}
FreshLoad == [reading |-> Parts, seen |-> Blank]

TypeOK ==
  /\ db \in Content /\ apiUp \in BOOLEAN /\ faults \in 0..MaxFaults
  /\ conns \in [Conns -> Conn] /\ \A c \in Conns : Len(conns[c].wire) <= MaxWire
  /\ load \in [reading: SUBSET Parts, seen: Content]
  /\ mounted \in BOOLEAN /\ shown \in Content
  /\ source \in {"none", "open", "waiting", "closed", "failed"}
  /\ current \in {0} \cup Conns /\ replayingId \in {0} \cup Rows
  /\ requests \in [Requests -> [row: {0} \cup Rows, state: {"unused", "sent", "answered", "over"}]]

Init ==
  /\ db = Blank /\ apiUp = TRUE /\ faults = 0
  /\ conns = [c \in Conns |-> NoConn]
  /\ load = FreshLoad /\ mounted = FALSE /\ shown = Blank
  /\ source = "none" /\ current = 0 /\ replayingId = 0
  /\ requests = [k \in Requests |-> [row |-> 0, state |-> "unused"]]

-----------------------------------------------------------------------------
(* What the worker and the dispatcher write.                               *)

SetRow(r, status) == db' = [db EXCEPT !.rows[r] = status]

EndCall ==
  /\ ~db.ended
  /\ db' = [db EXCEPT !.ended = TRUE]
  /\ UNCHANGED <<apiUp, faults, conns, page>>

(* A worker that dies, or an endpoint that is disabled, leaves rows out.   *)
CreateRow(r) ==
  /\ db.ended /\ ~db.recorded
  /\ Present(db) = 1..(r-1)
  /\ SetRow(r, "PENDING")
  /\ UNCHANGED <<apiUp, faults, conns, page>>

WriteCostsAndRecording ==
  /\ db.ended /\ ~db.recorded
  /\ db' = [db EXCEPT !.recorded = TRUE]
  /\ UNCHANGED <<apiUp, faults, conns, page>>

RetryRow(r) ==
  /\ db.rows[r] = "PENDING"
  /\ SetRow(r, "RETRY_PENDING")
  /\ UNCHANGED <<apiUp, faults, conns, page>>

SettleRow(r) ==
  /\ db.rows[r] \in OpenStatuses
  /\ \E status \in TerminalOutboxStatuses : SetRow(r, status)
  /\ UNCHANGED <<apiUp, faults, conns, page>>

-----------------------------------------------------------------------------
(* The API's side of a stream.                                             *)

(* One query of a Promise.all: its part as it is stored at that moment.    *)
Fetch(seen, part) ==
  CASE part = "call" -> [seen EXCEPT !.ended = db.ended]
    [] part = "deliveries" -> [seen EXCEPT !.rows = db.rows]
    [] part = "recording" -> [seen EXCEPT !.recorded = db.recorded]

deliveriesSettled(seen) ==
  Present(seen) # {} /\ \A r \in Present(seen) : seen.rows[r] \in TerminalOutboxStatuses

(* Mutation: the grace period is never over.                               *)
NeverGrace(grace, seen) == 0

(* noDeliveriesGraceTicks, which is not counted on beyond GraceTicks: the  *)
(* code counts on, and asks only whether GraceTicks are reached.           *)
GraceAfter(grace, seen) ==
  IF Present(seen) # {} THEN 0 ELSE IF grace < GraceTicks THEN grace + 1 ELSE grace

shouldStop(seen, grace) == seen.ended /\ (deliveriesSettled(seen) \/ grace >= GraceTicks)

StartTick(c) ==
  /\ apiUp /\ conns[c].state = "idle"
  /\ conns' = [conns EXCEPT ![c].state = "reading", ![c].reading = Parts, ![c].seen = Blank]
  /\ UNCHANGED <<db, apiUp, faults, page>>

ReadPart(c, part) ==
  /\ conns[c].state = "reading" /\ part \in conns[c].reading
  /\ conns' = [conns EXCEPT ![c].seen = Fetch(@, part), ![c].reading = @ \ {part}]
  /\ UNCHANGED <<db, apiUp, faults, page>>

(* res.write, then res.end or the timer of the next tick.                  *)
SendSnapshot(c) ==
  /\ conns[c].state = "reading" /\ conns[c].reading = {} /\ Len(conns[c].wire) < MaxWire
  /\ LET seen == conns[c].seen
         grace == GraceAfter(conns[c].grace, seen)
         final == shouldStop(seen, grace)
     IN  conns' = [conns EXCEPT ![c].grace = grace, ![c].wire = Append(@, <<seen, final>>),
                                ![c].state = IF final THEN "ended" ELSE "idle"]
  /\ UNCHANGED <<db, apiUp, faults, page>>

(* A tick of a connection its client has closed returns without a trace:   *)
(* what it was reading does not matter any more.                           *)
ReturnWhenClosed(c) ==
  /\ conns[c].state = "closing"
  /\ conns' = [conns EXCEPT ![c].state = "ended"]
  /\ UNCHANGED <<db, apiUp, faults, page>>

-----------------------------------------------------------------------------
(* The page.                                                               *)

(* Connection c after its client has closed it or lost it.                 *)
Closed(c) == [NoConn EXCEPT !.state = IF Live(c) THEN "closing" ELSE "ended"]

(* new EventSource, or its own reconnection.  While the API is down the    *)
(* console's proxy answers 500, and an EventSource that gets anything but  *)
(* a 200 has failed for good.                                              *)
Connect(others) ==
  IF apiUp
  THEN /\ current' = current + 1 /\ source' = "open"
       /\ conns' = [others EXCEPT ![current + 1] = FreshConn]
  ELSE source' = "failed" /\ conns' = others /\ UNCHANGED current

(* Mutation: the effect has no cleanup.                                    *)
NoCleanup == conns

(* The effect's cleanup closes the source there was.                       *)
Cleanup == [c \in Conns |-> IF conns[c].open THEN Closed(c) ELSE conns[c]]

LoadPart(part) ==
  /\ apiUp /\ ~mounted /\ part \in load.reading
  /\ load' = [reading |-> load.reading \ {part}, seen |-> Fetch(load.seen, part)]
  /\ UNCHANGED <<db, apiUp, faults, conns, mounted, shown, source, current, replayingId, requests>>

Mount ==
  /\ ~mounted /\ load.reading = {}
  /\ mounted' = TRUE /\ shown' = load.seen
  /\ IF load.seen.ended THEN UNCHANGED <<conns, source, current>> ELSE Connect(conns)
  /\ UNCHANGED <<db, apiUp, faults, load, replayingId, requests>>

(* Mutation: the client leaves the closing of a settled stream to the API, *)
(* and its EventSource takes the end of the answer for a lost connection.  *)
ReceiveWithoutClosing(c) ==
  /\ conns[c].open /\ conns[c].wire # <<>>
  /\ LET snapshot == Head(conns[c].wire)[1]
         final == Head(conns[c].wire)[2]
     IN  /\ shown' = snapshot
         /\ IF final
            THEN source' = "waiting" /\ conns' = [conns EXCEPT ![c] = Closed(c)]
            ELSE UNCHANGED source /\ conns' = [conns EXCEPT ![c].wire = Tail(@)]
  /\ UNCHANGED <<db, apiUp, faults, load, mounted, current, replayingId, requests>>

(* source.close() on a final snapshot, before the end of the answer would  *)
(* make the EventSource reconnect.                                         *)
Receive(c) ==
  /\ conns[c].open /\ conns[c].wire # <<>>
  /\ LET snapshot == Head(conns[c].wire)[1]
         final == Head(conns[c].wire)[2]
     IN  /\ shown' = snapshot
         /\ IF final
            THEN source' = "closed" /\ conns' = [conns EXCEPT ![c] = Closed(c)]
            ELSE UNCHANGED source /\ conns' = [conns EXCEPT ![c].wire = Tail(@)]
  /\ UNCHANGED <<db, apiUp, faults, load, mounted, current, replayingId, requests>>

(* Mutation: an EventSource does not reconnect by itself.                  *)
NoReconnect == FALSE /\ UNCHANGED vars

Reconnect ==
  /\ source = "waiting"
  /\ Connect(conns)
  /\ UNCHANGED <<db, apiUp, faults, load, mounted, shown, replayingId, requests>>

(* handleReplay, up to its request.  Only the button of the row clicked    *)
(* last is disabled.                                                       *)
ClickReplay(k, r) ==
  /\ mounted /\ shown.rows[r] \in TerminalOutboxStatuses /\ replayingId # r
  /\ requests[k].state = "unused" /\ (k > 1 => requests[k-1].state # "unused")
  /\ requests' = [requests EXCEPT ![k] = [row |-> r, state |-> "sent"]] /\ replayingId' = r
  /\ UNCHANGED <<db, apiUp, faults, conns, load, mounted, shown, source, current>>

(* The replay route: the row is PENDING again and has a job again.         *)
ReplayRow(k) ==
  /\ apiUp /\ requests[k].state = "sent"
  /\ SetRow(requests[k].row, "PENDING")
  /\ requests' = [requests EXCEPT ![k].state = "answered"]
  /\ UNCHANGED <<apiUp, faults, conns, load, mounted, shown, source, current, replayingId>>

(* A rejected fetch, or an answer that is not ok: only the finally block.  *)
ReplayFailed(k) ==
  /\ \/ requests[k].state = "sent" /\ ~apiUp /\ UNCHANGED faults
     \/ /\ requests[k].state = "answered" /\ "net_drop" \in Faults /\ faults < MaxFaults
        /\ faults' = faults + 1
  /\ requests' = [requests EXCEPT ![k].state = "over"] /\ replayingId' = 0
  /\ UNCHANGED <<db, apiUp, conns, load, mounted, shown, source, current>>

(* Mutation: the effect depends on what it depended on at the mount only.  *)
AnsweredQuietly(k) ==
  /\ requests[k].state = "answered"
  /\ requests' = [requests EXCEPT ![k].state = "over"] /\ replayingId' = 0
  /\ shown' = [shown EXCEPT !.rows[requests[k].row] = "PENDING"]
  /\ UNCHANGED <<db, apiUp, faults, conns, load, mounted, source, current>>

(* The updated row replaces the one that is shown, and reconnectNonce      *)
(* makes the effect run again: cleanup, then a new EventSource.            *)
ReplayAnswered(k) ==
  /\ requests[k].state = "answered"
  /\ requests' = [requests EXCEPT ![k].state = "over"] /\ replayingId' = 0
  /\ shown' = [shown EXCEPT !.rows[requests[k].row] = "PENDING"]
  /\ Connect(Cleanup)
  /\ UNCHANGED <<db, apiUp, faults, load, mounted>>

-----------------------------------------------------------------------------
(* Faults.                                                                 *)

DropConnection ==
  /\ "net_drop" \in Faults /\ faults < MaxFaults /\ source = "open"
  /\ faults' = faults + 1 /\ source' = "waiting"
  /\ conns' = [conns EXCEPT ![current] = Closed(current)]
  /\ UNCHANGED <<db, apiUp, load, mounted, shown, current, replayingId, requests>>

(* The process ends with every connection and every request it had.        *)
TickRejects(c) ==
  /\ "read_error" \in Faults /\ faults < MaxFaults
  /\ apiUp /\ conns[c].state = "reading" /\ conns[c].reading # {}
  /\ faults' = faults + 1 /\ apiUp' = FALSE
  /\ conns' = [d \in Conns |-> IF Live(d) THEN [NoConn EXCEPT !.state = "ended"] ELSE conns[d]]
  /\ source' = IF source = "open" /\ Live(current) THEN "waiting" ELSE source
  /\ load' = IF mounted THEN load ELSE FreshLoad
  /\ UNCHANGED <<db, mounted, shown, current, replayingId, requests>>

RestartApi ==
  /\ ~apiUp /\ apiUp' = TRUE
  /\ UNCHANGED <<db, faults, conns, page>>

-----------------------------------------------------------------------------
Stream(c) ==
  \/ StartTick(c) \/ SendSnapshot(c) \/ ReturnWhenClosed(c)
  \/ \E part \in Parts : ReadPart(c, part)
Loading == Mount \/ \E part \in Parts : LoadPart(part)
Replaying(k) == ReplayRow(k) \/ ReplayAnswered(k) \/ ReplayFailed(k)

Next ==
  \/ EndCall \/ WriteCostsAndRecording
  \/ \E r \in Rows : CreateRow(r) \/ RetryRow(r) \/ SettleRow(r)
  \/ \E c \in Conns : Stream(c) \/ Receive(c) \/ TickRejects(c)
  \/ Loading \/ Reconnect \/ DropConnection \/ RestartApi
  \/ \E k \in Requests : Replaying(k) \/ \E r \in Rows : ClickReplay(k, r)

(* A call ends and a row settles (CallExecutor's EveryCallEnds and         *)
(* WebhookDispatcher's EveryRowSettles); timers fire and queries return;   *)
(* what was sent arrives; an API process that died is started again.       *)
(* Nothing owes rows, costs or a recording: the worker may have died.      *)
Fairness ==
  /\ WF_vars(EndCall) /\ \A r \in Rows : WF_vars(SettleRow(r))
  /\ \A c \in Conns : WF_vars(Stream(c)) /\ WF_vars(Receive(c))
  /\ WF_vars(Loading) /\ WF_vars(Reconnect) /\ WF_vars(RestartApi)
  /\ \A k \in Requests : WF_vars(Replaying(k))

Spec == Init /\ [][Next]_vars /\ Fairness

-----------------------------------------------------------------------------
(* Properties.                                                             *)

(* A page whose stream was closed by a final snapshot shows an ended call  *)
(* and no delivery in progress: a replay, whenever its answer comes, opens *)
(* a stream again (handleReplay, reconnectNonce).                          *)
QuietPageIsSettled ==
  source = "closed" =>
    shown.ended /\ \A r \in Present(shown) : shown.rows[r] \in TerminalOutboxStatuses

(* Why there may be another connection than that of the mount.             *)
Reconnections == faults + Cardinality({k \in Requests : requests[k].state = "over"})

(* A page opens a stream, or is about to, only for its mount, a fault or a *)
(* replay: never because a stream has ended, as an EventSource would by    *)
(* itself every 3 seconds for ever (call-stream-snapshot.ts:53-56).        *)
NoStreamIsReopened ==
  /\ mounted => current <= 1 + Reconnections
  /\ source = "waiting" => current < 1 + Reconnections

(* Whatever connections are opened, lost and replaced, the page never goes *)
(* back to a snapshot older than the one it shows: an ended call, a        *)
(* delivery and a recording stay (the cleanup of the effect).              *)
PageNeverGoesBack ==
  [][mounted => /\ shown.ended => shown'.ended
                /\ shown.recorded => shown'.recorded
                /\ Present(shown) \subseteq Present(shown')]_vars

(* tick() of every connection returns at last: when the call settled, when *)
(* the grace period is over for a call nobody has a webhook for, or when   *)
(* the client has gone.                                                    *)
EveryStreamEnds == \A c \in Conns : Live(c) ~> ~Live(c)

(* A page that shows a call in progress shows its end at last, whatever    *)
(* connections it loses - unless a reconnection met the proxy's 500.       *)
EndIsShown == mounted /\ ~shown.ended ~> shown.ended \/ source = "failed"

(* On a page that has had a stream, a delivery shown in progress (at first *)
(* or after a replay) is shown settled at last, with the same exception.   *)
OpenRowsAreFollowed ==
  \A r \in Rows :
    current # 0 /\ shown.rows[r] \in OpenStatuses ~>
      shown.rows[r] \in TerminalOutboxStatuses \/ source = "failed"

-----------------------------------------------------------------------------
(* The inductive invariant of the proofs.                                  *)

(* A part of view b is not older than that of view a.                      *)
NotOlder(part, a, b) ==
  CASE part = "call" -> a.ended => b.ended
    [] part = "deliveries" -> Present(a) \subseteq Present(b)
    [] part = "recording" -> a.recorded => b.recorded

Precedes(a, b) == \A part \in Parts : NotOlder(part, a, b)

(* What is shown, sent, read and stored is ever newer, in this order.      *)
StoredIsNewest ==
  /\ Precedes(shown, db) /\ Precedes(load.seen, db)
  /\ \A c \in Conns : Precedes(conns[c].seen, db)
  /\ \A k \in Requests : requests[k].state # "unused" => requests[k].row \in Present(db)

WireIsNewer(c) ==
  /\ \A i \in DOMAIN conns[c].wire :
       Precedes(shown, conns[c].wire[i][1]) /\ Precedes(conns[c].wire[i][1], db)
  /\ \A i, j \in DOMAIN conns[c].wire :
       i < j => Precedes(conns[c].wire[i][1], conns[c].wire[j][1])

(* While a tick is reading, of the parts it has read already.              *)
ReadIsNewer(c) ==
  conns[c].state = "reading" =>
    \A part \in Parts \ conns[c].reading :
      /\ NotOlder(part, shown, conns[c].seen)
      /\ \A i \in DOMAIN conns[c].wire : NotOlder(part, conns[c].wire[i][1], conns[c].seen)

ViewsInOrder ==
  /\ StoredIsNewest
  /\ \A c \in Conns : conns[c].open => WireIsNewer(c) /\ ReadIsNewer(c)

SettledView(view) ==
  view.ended /\ \A r \in Present(view) : view.rows[r] \in TerminalOutboxStatuses

FinalIsSettled ==
  \A c \in Conns : conns[c].open =>
    \A i \in DOMAIN conns[c].wire : conns[c].wire[i][2] => SettledView(conns[c].wire[i][1])

(* The page listens to one connection at most, the one it has opened last. *)
OneSource ==
  /\ \A c \in Conns : conns[c].open => c = current
  /\ source = "open" => current # 0 /\ conns[current].open
  /\ \A c \in Conns : conns[c].open => source = "open"
  /\ \A c \in Conns : c > current => conns[c] = NoConn
  /\ ~mounted => source = "none" /\ current = 0 /\ \A k \in Requests : requests[k].state = "unused"

StreamInv ==
  TypeOK /\ OneSource /\ ViewsInOrder /\ FinalIsSettled /\ NoStreamIsReopened
    /\ QuietPageIsSettled

-----------------------------------------------------------------------------
(* What the code's own words say and the code does not keep: TLC finds     *)
(* each of these violated (README, "What the model shows not to hold").    *)

(* call-stream-snapshot.ts:15: the grace period counts "Ticks where the    *)
(* call was already terminal but had zero webhook delivery rows yet".      *)
GraceStartsAtTheEnd ==
  \A c \in Conns : conns[c].state = "idle" /\ conns[c].grace > 0 => conns[c].seen.ended

(* routes/calls.ts:116: a page whose stream closed itself shows a call     *)
(* that has settled: no row of it is missing or in progress.               *)
ClosedPageIsUpToDate ==
  source = "closed" /\ (\A k \in Requests : requests[k].state = "unused") =>
    \A r \in Present(db) : shown.rows[r] = db.rows[r]

(* call-detail-client.tsx:98: only "an already-settled call" goes without  *)
(* a stream at the first mount.                                            *)
UnsettledPageIsStreamed ==
  mounted /\ current = 0 =>
    shown.ended /\ \A r \in Present(shown) : shown.rows[r] \in TerminalOutboxStatuses
=============================================================================
