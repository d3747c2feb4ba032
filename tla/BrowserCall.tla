---------------------------- MODULE BrowserCall ----------------------------
(***************************************************************************)
(* A call made from the console's playground: the page, the LiveKit room   *)
(* it joins and the scripted agent (StubVoiceSession) that talks in it.    *)
(*                                                                         *)
(* The page is one component whose handlers run between each other's       *)
(* awaits.  It makes one attempt after another with the same state and one *)
(* roomRef; an attempt is identified with its call, its Room object and    *)
(* its session.  The rooms' data channel is reliable and ordered; what a   *)
(* participant has not received when it leaves is lost.  There is no       *)
(* clock: a timer may fire as soon as it runs.                             *)
(***************************************************************************)
EXTENDS Integers, Sequences

CONSTANTS
  NumTurns,     \* the number of turns of the scenario
  outcome,      \* its outcome, "completed" or "failed"
  MaxStarts,    \* bound: how often "Start call" is pressed
  MaxMishaps,    \* bound: how many of the Mishaps happen
  Mishaps        \* what may go wrong, of MishapKinds

(* post_fails:  POST /api/calls is refused or not answered.                *)
(* join_fails:  connecting, or the microphone, fails.                      *)
(* agent_drops: the agent's connection to its room is lost.                *)
(* page_drops:  the browser's connection to its room is lost.              *)
(* delete_fails: the room is not deleted, which the runner only logs.      *)
MishapKinds == {"post_fails", "join_fails", "agent_drops", "page_drops", "delete_fails"}

ASSUME TurnsAssumption == NumTurns \in Nat
ASSUME OutcomeAssumption == outcome \in {"completed", "failed"}
ASSUME StartsAssumption == MaxStarts \in Nat
ASSUME MaxMishapsAssumption == MaxMishaps \in Nat
ASSUME MishapsAssumption == Mishaps \subseteq MishapKinds

Attempts == 1..MaxStarts
NoRoom == 0
Turns == 1..NumTurns
End == 0       \* call_ended or call_failed, as a message beside the turns

VARIABLES
  (* The page *)
  state,        \* CallState: what the page shows
  turns,        \* the transcript it shows: attempt and turn of each line
  roomRef,      \* the Room the page remembers, NoRoom for undefined
  starting,     \* starting[n]: how far handleStart number n has come
  starts,       \* how often handleStart has been called
  left,         \* the user has left the page
  (* LiveKit *)
  joined,       \* the attempts whose Room object is connected
  inbox,        \* inbox[n]: what the browser's side of room n has to receive
  deleted,      \* the rooms that have been deleted
  dropped,      \* the rooms the agent's connection was lost in
  (* The worker *)
  session,      \* session[n]: how far StubVoiceSession.run has come
  turn,         \* turn[n]: the turn it has come to
  status,       \* status[n]: the call's status
  said,         \* said[n]: the turns reported to onTransition
  late,         \* the attempts whose session did not wait for the browser
  ended,        \* the attempts of which the page has received the end
  mishaps        \* how many mishaps have happened

pageVars == <<state, turns, roomRef, starting, starts, left>>
livekit == <<joined, inbox, deleted, dropped>>
worker == <<session, turn, status, said, late>>
callVars == <<pageVars, livekit, worker, ended, mishaps>>

(* handleStart's awaits, and the session's.                                *)
Startings == {"no", "post", "connect", "microphone", "over"}
Sessions == {"none", "queued", "waiting", "settling", "turn", "final", "announced",
             "closing", "over"}

Mishap(kind) ==
  /\ kind \in Mishaps
  /\ mishaps < MaxMishaps
  /\ mishaps' = mishaps + 1

NoMishap == UNCHANGED mishaps

CallInit ==
  /\ state = "idle"
  /\ turns = <<>>
  /\ roomRef = NoRoom
  /\ starting = [n \in Attempts |-> "no"]
  /\ starts = 0
  /\ left = FALSE
  /\ joined = {}
  /\ inbox = [n \in Attempts |-> <<>>]
  /\ deleted = {}
  /\ dropped = {}
  /\ session = [n \in Attempts |-> "none"]
  /\ turn = [n \in Attempts |-> 1]
  /\ status = [n \in Attempts |-> "none"]
  /\ said = [n \in Attempts |-> 0]
  /\ late = {}
  /\ ended = {}
  /\ mishaps = 0

-----------------------------------------------------------------------------
(* The page's handlers.                                                    *)

(* Mutation: the page has no handler for Disconnected.                     *)
NotAfterDisconnect(s) == s

(* The Disconnected handler of any Room, this attempt's or an older one's. *)
AfterDisconnect(s) == IF s = "connected" THEN "ended" ELSE s

(* room.disconnect(): what was on its way to this Room is not delivered.   *)
Disconnect(n) ==
  /\ joined' = joined \ {n}
  /\ inbox' = [m \in Attempts |-> IF m = n THEN <<>> ELSE inbox[m]]

(* The button is there unless the page is connected, and enabled unless it *)
(* is connecting.                                                          *)
StartIsOffered == ~left /\ state \notin {"connecting", "connected"}

(* handleStart up to the POST.                                             *)
Start ==
  /\ StartIsOffered
  /\ starts < MaxStarts
  /\ starts' = starts + 1
  /\ state' = "connecting"
  /\ turns' = <<>>
  /\ starting' = [starting EXCEPT ![starts + 1] = "post"]
  /\ UNCHANGED <<roomRef, left, livekit, worker, ended>> /\ NoMishap

(* createRoom makes a room that is not there.                              *)
CreateRoom(n) == deleted' = deleted \ {n}

(* The API: the call is created and its job enqueued, the room prepared.   *)
Enqueue(n) ==
  /\ starting[n] = "post"
  /\ session[n] = "none"
  /\ session' = [session EXCEPT ![n] = "queued"]
  /\ status' = [status EXCEPT ![n] = "QUEUED"]
  /\ UNCHANGED <<pageVars, livekit, turn, said, late, ended>> /\ NoMishap

PostAnswered(n) ==
  /\ starting[n] = "post"
  /\ session[n] # "none"
  /\ roomRef' = n
  /\ starting' = [starting EXCEPT ![n] = "connect"]
  /\ UNCHANGED <<state, turns, starts, left, livekit, worker, ended>> /\ NoMishap

PostRefused(n) ==
  /\ starting[n] = "post"
  /\ Mishap("post_fails")
  /\ state' = "error"
  /\ starting' = [starting EXCEPT ![n] = "over"]
  /\ UNCHANGED <<turns, roomRef, starts, left, livekit, worker, ended>>

(* A room that is not there is created by the first to join it.            *)
Connected(n) ==
  /\ starting[n] = "connect"
  /\ joined' = joined \cup {n}
  /\ CreateRoom(n)
  /\ starting' = [starting EXCEPT ![n] = "microphone"]
  /\ UNCHANGED <<state, turns, roomRef, starts, left, inbox, dropped, worker, ended>>
  /\ NoMishap

(* setState("connected"), whatever has happened in the meantime.           *)
MicrophoneOn(n) ==
  /\ starting[n] = "microphone"
  /\ state' = "connected"
  /\ starting' = [starting EXCEPT ![n] = "over"]
  /\ UNCHANGED <<turns, roomRef, starts, left, livekit, worker, ended>> /\ NoMishap

(* The catch block: it disconnects the Room roomRef holds by now.          *)
JoinFailed(n) ==
  /\ starting[n] \in {"connect", "microphone"}
  /\ Mishap("join_fails")
  /\ Disconnect(roomRef)
  /\ roomRef' = NoRoom
  /\ state' = "error"
  /\ starting' = [starting EXCEPT ![n] = "over"]
  /\ UNCHANGED <<turns, starts, left, deleted, dropped, worker, ended>>

EndCall ==
  /\ ~left
  /\ state = "connected"
  /\ Disconnect(roomRef)
  /\ state' = "ended"
  /\ UNCHANGED <<turns, roomRef, starting, starts, left, deleted, dropped, worker, ended>>
  /\ NoMishap

(* Leaving the page: the effect's cleanup, after which nothing is shown.   *)
Leave ==
  /\ ~left
  /\ left' = TRUE
  /\ Disconnect(roomRef)
  /\ state' = AfterDisconnect(state)
  /\ UNCHANGED <<turns, roomRef, starting, starts, deleted, dropped, worker, ended>>
  /\ NoMishap

(* reduceTranscriptSegment: every message is a segment with an id of its   *)
(* own, so that it is a line of its own.                                   *)
reduceTranscriptSegment(lines, n, k) == Append(lines, <<n, k>>)

(* The DataReceived handler.                                               *)
Receive(n) ==
  /\ n \in joined
  /\ inbox[n] # <<>>
  /\ inbox' = [inbox EXCEPT ![n] = Tail(@)]
  /\ \/ /\ Head(inbox[n]) = End
        /\ state' = "ended"
        /\ ended' = ended \cup {n}
        /\ UNCHANGED turns
     \/ /\ Head(inbox[n]) # End
        /\ turns' = reduceTranscriptSegment(turns, n, Head(inbox[n]))
        /\ UNCHANGED <<state, ended>>
  /\ UNCHANGED <<roomRef, starting, starts, left, joined, deleted, dropped, worker>>
  /\ NoMishap

(* The Disconnected event: the room was deleted, or the connection lost.   *)
LoseConnection(n) ==
  /\ n \in joined
  /\ Disconnect(n)
  /\ state' = AfterDisconnect(state)
  /\ UNCHANGED <<turns, roomRef, starting, starts, left, deleted, dropped, worker, ended>>

RoomIsGone(n) == n \in deleted /\ LoseConnection(n) /\ NoMishap
PageDrops(n) == Mishap("page_drops") /\ LoseConnection(n)

-----------------------------------------------------------------------------
(* RealCallRunner and StubVoiceSession.run for a browser call.             *)

Lost(n) == n \in dropped \/ n \in deleted

GoTo(n, s) == session' = [session EXCEPT ![n] = s]

(* Where the for loop goes with turn k.                                    *)
AtTurn(k) == IF k \in Turns THEN "turn" ELSE "final"

Report(n, s) == status' = [status EXCEPT ![n] = s]

(* Mutation: the session does not wait for the browser.                    *)
JoinRoomAndTalk(n) ==
  /\ session[n] = "queued"
  /\ GoTo(n, AtTurn(turn[n]))
  /\ CreateRoom(n)
  /\ Report(n, "IN_PROGRESS")
  /\ UNCHANGED <<pageVars, joined, inbox, dropped, turn, said, late, ended>> /\ NoMishap

(* createRoom and room.connect; then the wait for the participant "user".  *)
JoinRoom(n) ==
  /\ session[n] = "queued"
  /\ GoTo(n, "waiting")
  /\ CreateRoom(n)
  /\ UNCHANGED <<pageVars, joined, inbox, dropped, turn, status, said, late, ended>> /\ NoMishap

ParticipantConnected(n) ==
  /\ session[n] = "waiting"
  /\ n \in joined
  /\ GoTo(n, "settling")
  /\ UNCHANGED <<pageVars, livekit, turn, status, said, late, ended>> /\ NoMishap

(* Mutation: the wait for the browser has no timeout, only an end with the *)
(* connection.                                                             *)
NobodyJoinedALostRoom(n) ==
  /\ session[n] = "waiting"
  /\ n \notin joined /\ Lost(n)
  /\ GoTo(n, AtTurn(turn[n]))
  /\ late' = late \cup {n}
  /\ Report(n, "IN_PROGRESS")
  /\ UNCHANGED <<pageVars, livekit, turn, said, ended>> /\ NoMishap

(* waitForParticipantTimeoutMs has passed: it goes on regardless.          *)
NobodyJoined(n) ==
  /\ session[n] = "waiting"
  /\ n \notin joined
  /\ GoTo(n, AtTurn(turn[n]))
  /\ late' = late \cup {n}
  /\ Report(n, "IN_PROGRESS")
  /\ UNCHANGED <<pageVars, livekit, turn, said, ended>> /\ NoMishap

(* PARTICIPANT_SETTLE_DELAY_MS have passed; the pre-turn steps.            *)
Settled(n) ==
  /\ session[n] = "settling"
  /\ GoTo(n, AtTurn(turn[n]))
  /\ Report(n, "IN_PROGRESS")
  /\ UNCHANGED <<pageVars, livekit, turn, said, late, ended>> /\ NoMishap

Publish(n, message) ==
  inbox' = IF n \in joined THEN [inbox EXCEPT ![n] = Append(@, message)] ELSE inbox

(* The wait of a turn ends by its timer, or earlier by the user_spoke of   *)
(* "Say scripted line": without a clock both are this step.  The turn is   *)
(* published and reported, unless the room was lost meanwhile.             *)
SayTurn(n) ==
  /\ session[n] = "turn"
  /\ ~Lost(n)
  /\ Publish(n, turn[n])
  /\ said' = [said EXCEPT ![n] = turn[n]]
  /\ turn' = [turn EXCEPT ![n] = @ + 1]
  /\ GoTo(n, AtTurn(turn[n] + 1))
  /\ UNCHANGED <<pageVars, joined, deleted, dropped, status, late, ended>> /\ NoMishap

(* The loop is left and, behind the turns, the room looked at once more.   *)
ReportDropped(n) ==
  /\ session[n] \in {"turn", "final"}
  /\ Lost(n)
  /\ Report(n, "CALL_DROPPED")
  /\ GoTo(n, "closing")
  /\ UNCHANGED <<pageVars, livekit, turn, said, late, ended>> /\ NoMishap

(* Mutation: the room is not looked at again behind the turns.             *)
AnnounceAnyway(n) ==
  /\ \/ session[n] = "final"
     \/ session[n] = "turn" /\ Lost(n)
  /\ Publish(n, End)
  /\ GoTo(n, "announced")
  /\ UNCHANGED <<pageVars, joined, deleted, dropped, turn, status, said, late, ended>>
  /\ NoMishap

Announce(n) ==
  /\ session[n] = "final"
  /\ ~Lost(n)
  /\ Publish(n, End)
  /\ GoTo(n, "announced")
  /\ UNCHANGED <<pageVars, joined, deleted, dropped, turn, status, said, late, ended>>
  /\ NoMishap

(* The final step, computeStubFinalStep; a room lost since is not noticed. *)
FinalStep(n) ==
  /\ session[n] = "announced"
  /\ Report(n, IF outcome = "completed" THEN "COMPLETED" ELSE "FAILED")
  /\ GoTo(n, "closing")
  /\ UNCHANGED <<pageVars, livekit, turn, said, late, ended>> /\ NoMishap

(* The room is lost between the look at it and the publication, which      *)
(* rejects: the executor's catch block reports FAILED.                     *)
PublishRejects(n) ==
  /\ session[n] \in {"turn", "final"}
  /\ Mishap("agent_drops")
  /\ dropped' = dropped \cup {n}
  /\ Report(n, "FAILED")
  /\ GoTo(n, "closing")
  /\ UNCHANGED <<pageVars, joined, inbox, deleted, turn, said, late, ended>>

(* run()'s finally, and RealCallRunner's: the agent leaves and the room is *)
(* deleted.                                                                *)
CloseRoom(n) ==
  /\ session[n] = "closing"
  /\ GoTo(n, "over")
  /\ \/ deleted' = deleted \cup {n} /\ NoMishap
     \/ Mishap("delete_fails") /\ UNCHANGED deleted
  /\ UNCHANGED <<pageVars, joined, inbox, dropped, turn, status, said, late, ended>>

AgentDrops(n) ==
  /\ session[n] \in {"waiting", "settling", "turn", "final", "announced"}
  /\ Mishap("agent_drops")
  /\ dropped' = dropped \cup {n}
  /\ UNCHANGED <<pageVars, joined, inbox, deleted, worker, ended>>

-----------------------------------------------------------------------------
PageStep(n) ==
  \/ Enqueue(n) \/ PostAnswered(n) \/ Connected(n) \/ Receive(n) \/ RoomIsGone(n)

SessionStep(n) ==
  \/ JoinRoom(n) \/ ParticipantConnected(n) \/ NobodyJoined(n) \/ Settled(n)
  \/ SayTurn(n) \/ ReportDropped(n) \/ Announce(n) \/ FinalStep(n) \/ CloseRoom(n)

CallNext ==
  \/ Start \/ EndCall \/ Leave
  \/ \E n \in Attempts :
       \/ PageStep(n) \/ SessionStep(n) \/ MicrophoneOn(n)
       \/ PostRefused(n) \/ JoinFailed(n) \/ PageDrops(n)
       \/ AgentDrops(n) \/ PublishRejects(n)

(* The network and the worker go on; nobody has to press a button, or to   *)
(* allow the use of the microphone.                                        *)
CallFairness == \A n \in Attempts : WF_callVars(PageStep(n)) /\ WF_callVars(SessionStep(n))

CallSpec == CallInit /\ [][CallNext]_callVars /\ CallFairness

-----------------------------------------------------------------------------
(* The lines of attempt n that the page shows, by their places.            *)
LinesOf(n) == {i \in DOMAIN turns : turns[i][1] = n}

(* The types of the variables.                                             *)
CallTypeOK ==
  /\ state \in {"idle", "connecting", "connected", "ended", "error"}
  /\ turns \in Seq(Attempts \X Turns)
  /\ roomRef \in Attempts \cup {NoRoom}
  /\ starting \in [Attempts -> Startings]
  /\ starts \in 0..MaxStarts
  /\ left \in BOOLEAN
  /\ inbox \in [Attempts -> Seq(Turns \cup {End})]
  /\ {joined, deleted, dropped, late, ended} \subseteq SUBSET Attempts
  /\ session \in [Attempts -> Sessions]
  /\ turn \in [Attempts -> 1..(NumTurns + 1)]
  /\ status \in [Attempts -> {"none", "QUEUED", "IN_PROGRESS", "COMPLETED", "FAILED",
                               "CALL_DROPPED"}]
  /\ said \in [Attempts -> 0..NumTurns]
  /\ mishaps \in 0..MaxMishaps

(* A page that has been told the end of the latest call shows the whole    *)
(* script of it, each turn once and in order, whoever ended the turns'     *)
(* waits: unless the session had given up waiting for the browser.         *)
WholeTranscript ==
  \A n \in Attempts : starts = n /\ n \in ended \ late =>
    /\ {turns[i][2] : i \in LinesOf(n)} = Turns
    /\ \A i, j \in LinesOf(n) : i < j => turns[i][2] < turns[j][2]

(* A call is reported as completed only if every turn of its script was    *)
(* published and reported: a room lost in any wait breaks the call off.    *)
CompletedMeansSaid ==
  \A n \in Attempts : status[n] = "COMPLETED" => said[n] = NumTurns

(* Every session ends, whatever the page does: a browser that does not     *)
(* come, "Say scripted line" never pressed, a connection lost in a wait.   *)
(* Again and again (with finitely many starts: in the end) none is left.   *)
EverySessionEnds == []<>(\A n \in Attempts : session[n] \in {"none", "over"})

(* A page that is in the room of a session which is not over learns of its *)
(* end, by call_ended or by the deletion of the room, even if it overwrote *)
(* "ended" with "connected" in between; a room that is not deleted may     *)
(* keep it.                                                                *)
ConnectedPageSeesTheEnd ==
  state = "connected" /\ roomRef \in joined /\ session[roomRef] # "over"
    ~> \/ state # "connected"
       \/ roomRef # NoRoom /\ session[roomRef] = "over" /\ roomRef \notin deleted
=============================================================================
