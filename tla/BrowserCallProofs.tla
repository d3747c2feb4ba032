------------------------- MODULE BrowserCallProofs -------------------------
(***************************************************************************)
(* Theorems about a call from the playground: what the session of a call   *)
(* has said when it is reported as completed, and when the page is told of *)
(* its end, whatever is lost.                                              *)
(***************************************************************************)
EXTENDS BrowserCall, SequenceTheorems, TLAPS

(* The end is on its way to the browser's side of room n, or has come.     *)
Told(n) == n \in ended \/ \E i \in DOMAIN inbox[n] : inbox[n][i] = End

(* Before the turns, at turn k, and behind them: what has been said.       *)
SaidSoFar(n) ==
  /\ session[n] \in {"none", "queued", "waiting", "settling"} => turn[n] = 1 /\ said[n] = 0
  /\ session[n] = "turn" => turn[n] \in Turns /\ said[n] = turn[n] - 1
  /\ session[n] \in {"final", "announced"} => said[n] = NumTurns
  /\ status[n] = "COMPLETED" => said[n] = NumTurns /\ session[n] \in {"closing", "over"}
  /\ Told(n) => said[n] = NumTurns /\ session[n] \in {"announced", "closing", "over"}

SessionTypes ==
  /\ session \in [Attempts -> Sessions]
  /\ turn \in [Attempts -> Nat]
  /\ said \in [Attempts -> Nat]
  /\ DOMAIN status = Attempts
  /\ inbox \in [Attempts -> Seq(Turns \cup {End})]

(* The inductive invariant.                                                *)
ScriptInv == SessionTypes /\ \A n \in Attempts : SaidSoFar(n)

LEMMA InitScriptInv == ASSUME CallInit PROVE ScriptInv
<1>1. SessionTypes
  BY DEF CallInit, SessionTypes, Sessions
<1>2. \A n \in Attempts : SaidSoFar(n)
  BY DEF CallInit, SaidSoFar, Told
<1> QED
  BY <1>1, <1>2 DEF ScriptInv

-----------------------------------------------------------------------------
(* What the page and the network do to what the browser is sent.           *)

(* Nothing of a session changes, and nothing new is sent to the browser.   *)
Quiet ==
  /\ UNCHANGED <<session, turn, said, status>>
  /\ inbox' \in [Attempts -> Seq(Turns \cup {End})]
  /\ \A n \in Attempts : Told(n)' => Told(n)

LEMMA QuietKeeps == ASSUME ScriptInv, Quiet PROVE ScriptInv'
<1>1. SessionTypes'
  BY DEF Quiet, ScriptInv, SessionTypes
<1>2. ASSUME NEW n \in Attempts PROVE SaidSoFar(n)'
  BY DEF Quiet, ScriptInv, SaidSoFar
<1> QED
  BY <1>1, <1>2 DEF ScriptInv

LEMMA UntouchedIsQuiet ==
  ASSUME ScriptInv, UNCHANGED <<session, turn, said, status, inbox, ended>>
  PROVE  Quiet
BY DEF Quiet, Told, ScriptInv, SessionTypes

LEMMA DisconnectIsQuiet ==
  ASSUME ScriptInv, NEW m, Disconnect(m), UNCHANGED <<session, turn, said, status, ended>>
  PROVE  Quiet
<1>1. \A n \in Attempts : inbox'[n] = IF n = m THEN <<>> ELSE inbox[n]
  BY DEF Disconnect
<1>2. inbox' \in [Attempts -> Seq(Turns \cup {End})]
  BY DEF Disconnect, ScriptInv, SessionTypes
<1>3. \A n \in Attempts : Told(n)' => Told(n)
  BY <1>1 DEF Told
<1> QED
  BY <1>2, <1>3 DEF Quiet

LEMMA ReceiveIsQuiet == ASSUME ScriptInv, NEW m \in Attempts, Receive(m) PROVE Quiet
<1>1. UNCHANGED <<session, turn, said, status>>
  BY DEF Receive, worker
<1>2. inbox[m] \in Seq(Turns \cup {End}) /\ inbox[m] # <<>>
  BY DEF Receive, ScriptInv, SessionTypes
<1>3. inbox' = [inbox EXCEPT ![m] = Tail(inbox[m])]
  BY DEF Receive
<1>4. inbox' \in [Attempts -> Seq(Turns \cup {End})]
  BY <1>2, <1>3 DEF ScriptInv, SessionTypes
<1>5. ASSUME NEW i \in DOMAIN inbox'[m], inbox'[m][i] = End PROVE Told(m)
  <2>1. inbox'[m] = Tail(inbox[m])
    BY <1>3 DEF ScriptInv, SessionTypes
  <2>2. i + 1 \in DOMAIN inbox[m] /\ inbox[m][i + 1] = End
    BY <1>2, <1>5, <2>1
  <2> QED
    BY <2>2 DEF Told
<1>6. m \in ended' => Told(m)
  BY <1>2 DEF Receive, Told
<1>7. ASSUME NEW n \in Attempts, Told(n)' PROVE Told(n)
  <2>1. CASE n = m
    BY <1>5, <1>6, <1>7, <2>1 DEF Told
  <2>2. CASE n # m
    <3>1. inbox'[n] = inbox[n] /\ (n \in ended' => n \in ended)
      BY <1>3, <2>2 DEF Receive, ScriptInv, SessionTypes
    <3> QED
      BY <3>1, <1>7 DEF Told
  <2> QED
    BY <2>1, <2>2
<1> QED
  BY <1>1, <1>4, <1>7 DEF Quiet

(* The page's handlers, and the network, send the browser nothing.         *)
LEMMA PageKeeps ==
  ASSUME ScriptInv,
         \/ Start \/ EndCall \/ Leave
         \/ \E n \in Attempts :
              \/ PostAnswered(n) \/ Connected(n) \/ Receive(n) \/ RoomIsGone(n)
              \/ MicrophoneOn(n) \/ PostRefused(n) \/ JoinFailed(n) \/ PageDrops(n)
              \/ AgentDrops(n)
         \/ UNCHANGED callVars
  PROVE  ScriptInv'
<1>1. CASE EndCall \/ Leave
  <2>1. Disconnect(roomRef) /\ UNCHANGED <<session, turn, said, status, ended>>
    BY <1>1 DEF EndCall, Leave, worker
  <2> QED
    BY <2>1, DisconnectIsQuiet, QuietKeeps
<1>2. ASSUME NEW n \in Attempts, RoomIsGone(n) \/ PageDrops(n) PROVE ScriptInv'
  <2>1. Disconnect(n) /\ UNCHANGED <<session, turn, said, status, ended>>
    BY <1>2 DEF RoomIsGone, PageDrops, LoseConnection, worker
  <2> QED
    BY <2>1, DisconnectIsQuiet, QuietKeeps
<1>3. ASSUME NEW n \in Attempts, JoinFailed(n) PROVE ScriptInv'
  <2>1. Disconnect(roomRef) /\ UNCHANGED <<session, turn, said, status, ended>>
    BY <1>3 DEF JoinFailed, worker
  <2> QED
    BY <2>1, DisconnectIsQuiet, QuietKeeps
<1>4. CASE Start \/ UNCHANGED callVars
  <2>1. UNCHANGED <<session, turn, said, status, inbox, ended>>
    BY <1>4 DEF Start, callVars, livekit, worker
  <2> QED
    BY <2>1, UntouchedIsQuiet, QuietKeeps
<1>5. ASSUME NEW n \in Attempts,
             \/ PostAnswered(n) \/ Connected(n) \/ MicrophoneOn(n) \/ PostRefused(n)
             \/ AgentDrops(n)
      PROVE  ScriptInv'
  <2>1. UNCHANGED <<session, turn, said, status, inbox, ended>>
    BY <1>5 DEF PostAnswered, Connected, MicrophoneOn, PostRefused, AgentDrops, livekit,
                worker
  <2> QED
    BY <2>1, UntouchedIsQuiet, QuietKeeps
<1> QED
  BY <1>1, <1>2, <1>3, <1>4, <1>5, ReceiveIsQuiet, QuietKeeps

-----------------------------------------------------------------------------
(* The session of attempt m goes on; the others' do not.                   *)

(* Only what belongs to attempt m changes.                                 *)
Only(m) ==
  /\ ended' = ended
  /\ \A n \in Attempts \ {m} :
       /\ session'[n] = session[n] /\ turn'[n] = turn[n] /\ said'[n] = said[n]
       /\ status'[n] = status[n] /\ inbox'[n] = inbox[n]

LEMMA OnlyKeeps ==
  ASSUME ScriptInv, NEW m \in Attempts, SessionTypes', Only(m), SaidSoFar(m)'
  PROVE  ScriptInv'
<1>1. ASSUME NEW n \in Attempts, n # m PROVE SaidSoFar(n)'
  BY <1>1 DEF Only, ScriptInv, SaidSoFar, Told
<1> QED
  BY <1>1 DEF ScriptInv

(* The steps before the turns.                                             *)
LEMMA BeforeTheTurns ==
  ASSUME ScriptInv, NEW m \in Attempts,
         \/ Enqueue(m) \/ JoinRoom(m) \/ ParticipantConnected(m) \/ NobodyJoined(m)
         \/ Settled(m)
  PROVE  ScriptInv'
<1>1. /\ session' = [session EXCEPT ![m] = session'[m]]
      /\ session'[m] \in {"queued", "waiting", "settling", AtTurn(1)}
      /\ session[m] \in {"none", "queued", "waiting", "settling"}
      /\ status' = status \/ status' = [status EXCEPT ![m] = "QUEUED"]
           \/ status' = [status EXCEPT ![m] = "IN_PROGRESS"]
      /\ UNCHANGED <<turn, said, inbox, ended>>
  BY DEF Enqueue, JoinRoom, ParticipantConnected, NobodyJoined, Settled, GoTo, Report,
         ScriptInv, SessionTypes, SaidSoFar, livekit, NoMishap
<1>2. AtTurn(1) = IF 1 \in Turns THEN "turn" ELSE "final"
  BY DEF AtTurn
<1>3. SessionTypes'
  BY <1>1, <1>2 DEF ScriptInv, SessionTypes, Sessions
<1>4. turn[m] = 1 /\ said[m] = 0 /\ ~Told(m) /\ status[m] # "COMPLETED"
  BY <1>1, TurnsAssumption DEF ScriptInv, SaidSoFar
<1>5. SaidSoFar(m)'
  <2>1. ~Told(m)'
    BY <1>1, <1>4 DEF Told
  <2>2. status'[m] # "COMPLETED"
    BY <1>1, <1>4 DEF ScriptInv, SessionTypes
  <2>3. 1 \notin Turns => NumTurns = 0
    BY TurnsAssumption DEF Turns
  <2> QED
    BY <1>1, <1>2, <1>4, <2>1, <2>2, <2>3 DEF SaidSoFar, ScriptInv, SessionTypes
<1>6. Only(m)
  BY <1>1 DEF Only, ScriptInv, SessionTypes
<1> QED
  BY <1>3, <1>5, <1>6, OnlyKeeps

(* A message to the browser, of a turn or of the end.                      *)
LEMMA SendAdds ==
  ASSUME ScriptInv, NEW m \in Attempts, NEW message \in Turns \cup {End}, Publish(m, message)
  PROVE  /\ inbox' \in [Attempts -> Seq(Turns \cup {End})]
         /\ \A n \in Attempts \ {m} : inbox'[n] = inbox[n]
         /\ \A i \in DOMAIN inbox'[m] :
              inbox'[m][i] = message \/ (i \in DOMAIN inbox[m] /\ inbox'[m][i] = inbox[m][i])
BY DEF Publish, ScriptInv, SessionTypes

LEMMA ATurn == ASSUME ScriptInv, NEW m \in Attempts, SayTurn(m) PROVE ScriptInv'
<1> DEFINE k == turn[m]
<1>1. /\ session[m] = "turn" /\ Publish(m, k)
      /\ said' = [said EXCEPT ![m] = k] /\ turn' = [turn EXCEPT ![m] = k + 1]
      /\ session' = [session EXCEPT ![m] = AtTurn(k + 1)]
      /\ UNCHANGED <<status, ended>>
  BY DEF SayTurn, GoTo
<1>2. k \in Turns /\ k \in Nat /\ ~Told(m) /\ status[m] # "COMPLETED"
  BY <1>1 DEF ScriptInv, SaidSoFar, SessionTypes
<1>3. AtTurn(k + 1) = IF k + 1 \in Turns THEN "turn" ELSE "final"
  BY DEF AtTurn
<1>4. k + 1 \notin Turns => k = NumTurns
  BY <1>2, TurnsAssumption DEF Turns
<1> HIDE DEF k
<1>5. /\ session'[m] = AtTurn(k + 1) /\ said'[m] = k /\ turn'[m] = k + 1
  BY <1>1 DEF ScriptInv, SessionTypes
<1>6. SessionTypes'
  BY <1>1, <1>2, <1>3, SendAdds DEF ScriptInv, SessionTypes, Sessions
<1>7. ~Told(m)'
  <2>1. k # End
    BY <1>2 DEF Turns, End
  <2> QED
    BY <1>1, <1>2, <2>1, SendAdds DEF Told
<1>8. SaidSoFar(m)'
  BY <1>1, <1>2, <1>3, <1>4, <1>5, <1>7 DEF SaidSoFar
<1>9. Only(m)
  BY <1>1, <1>2, SendAdds DEF Only, ScriptInv, SessionTypes
<1> QED
  BY <1>6, <1>8, <1>9, OnlyKeeps

LEMMA TheEnd == ASSUME ScriptInv, NEW m \in Attempts, Announce(m) PROVE ScriptInv'
<1>1. /\ session[m] = "final" /\ Publish(m, End)
      /\ session' = [session EXCEPT ![m] = "announced"]
      /\ UNCHANGED <<turn, said, status, ended>>
  BY DEF Announce, GoTo
<1>2. SessionTypes'
  BY <1>1, SendAdds DEF ScriptInv, SessionTypes, Sessions
<1>3. SaidSoFar(m)'
  BY <1>1 DEF ScriptInv, SessionTypes, SaidSoFar
<1>4. Only(m)
  BY <1>1, SendAdds DEF Only, ScriptInv, SessionTypes
<1> QED
  BY <1>2, <1>3, <1>4, OnlyKeeps

(* Behind the turns, or broken off.                                        *)
LEMMA BehindTheTurns ==
  ASSUME ScriptInv, NEW m \in Attempts,
         ReportDropped(m) \/ FinalStep(m) \/ PublishRejects(m) \/ CloseRoom(m)
  PROVE  ScriptInv'
<1>1. /\ session' = [session EXCEPT ![m] = session'[m]]
      /\ session'[m] \in {"closing", "over"}
      /\ session[m] \in {"turn", "final", "announced", "closing"}
      /\ UNCHANGED <<turn, said, inbox, ended>>
  BY DEF ReportDropped, FinalStep, PublishRejects, CloseRoom, GoTo, ScriptInv, SessionTypes,
         livekit, NoMishap
<1>2. \/ status' = status /\ session[m] = "closing"
      \/ \E s \in {"CALL_DROPPED", "FAILED"} : status' = [status EXCEPT ![m] = s]
      \/ status' = [status EXCEPT ![m] = "COMPLETED"] /\ session[m] = "announced"
  BY DEF ReportDropped, FinalStep, PublishRejects, CloseRoom, Report
<1>3. SessionTypes'
  BY <1>1, <1>2 DEF ScriptInv, SessionTypes, Sessions
<1>4. SaidSoFar(m)'
  <2>1. Told(m)' = Told(m)
    BY <1>1 DEF Told
  <2>2. status'[m] = "COMPLETED" => said[m] = NumTurns
    BY <1>2 DEF ScriptInv, SessionTypes, SaidSoFar
  <2> QED
    BY <1>1, <2>1, <2>2 DEF ScriptInv, SessionTypes, SaidSoFar
<1>5. Only(m)
  BY <1>1, <1>2 DEF Only, ScriptInv, SessionTypes
<1> QED
  BY <1>3, <1>4, <1>5, OnlyKeeps

LEMMA StepScriptInv == ASSUME ScriptInv, [CallNext]_callVars PROVE ScriptInv'
BY PageKeeps, BeforeTheTurns, ATurn, TheEnd, BehindTheTurns DEF CallNext, PageStep, SessionStep

-----------------------------------------------------------------------------
(* A completed call has said the whole script, whatever connection is lost *)
(* and when.                                                               *)
THEOREM CompletedCallsSaidAll == CallSpec => []CompletedMeansSaid
<1>1. ScriptInv => CompletedMeansSaid
  BY DEF ScriptInv, SaidSoFar, CompletedMeansSaid
<1> QED
  BY <1>1, InitScriptInv, StepScriptInv, PTL DEF CallSpec

(* A page is told of a call's end only when its session has said all there *)
(* was to say.                                                             *)
THEOREM TheEndComesLast ==
  CallSpec => [](\A n \in Attempts : n \in ended => said[n] = NumTurns)
<1>1. ScriptInv => \A n \in Attempts : n \in ended => said[n] = NumTurns
  BY DEF ScriptInv, SaidSoFar, Told
<1> QED
  BY <1>1, InitScriptInv, StepScriptInv, PTL DEF CallSpec

-----------------------------------------------------------------------------
(* What the page shows of its latest attempt, and what is on its way there.*)

(* The page shows the first a turns of attempt n, each once and in order.  *)
Shows(n, a) ==
  /\ \A i \in LinesOf(n) : turns[i][2] \in 1..a
  /\ \A k \in 1..a : \E i \in LinesOf(n) : turns[i][2] = k
  /\ \A i, j \in LinesOf(n) : i < j => turns[i][2] < turns[j][2]

(* What the browser has to receive of attempt n are the turns that have    *)
(* been said after the first a, and after them perhaps the end.            *)
OnItsWay(n, a) ==
  /\ Len(inbox[n]) \in {said[n] - a, said[n] - a + 1}
  /\ \A i \in 1..Len(inbox[n]) :
       inbox[n][i] = IF i <= said[n] - a THEN a + i ELSE End
  /\ Len(inbox[n]) = said[n] - a + 1 => session[n] \in {"announced", "closing", "over"}

(* Only a connected browser has messages to receive, it connects once, and *)
(* a session that has not given up waiting goes on after that.             *)
JoinsOnce(n) ==
  /\ n \notin joined => inbox[n] = <<>>
  /\ starting[n] \in {"no", "post", "connect"} =>
       n \notin joined /\ n \notin ended /\ LinesOf(n) = {}
  /\ n > starts => starting[n] = "no"
  /\ session[n] \notin {"none", "queued", "waiting"} =>
       n \in late \/ starting[n] \in {"microphone", "over"}

(* The latest attempt, whose session waited for the browser.               *)
NothingMissing(n) ==
  starts = n /\ n \notin late =>
    /\ n \in joined /\ n \notin ended =>
         \E a \in Nat : a <= said[n] /\ Shows(n, a) /\ OnItsWay(n, a)
    /\ n \in ended => inbox[n] = <<>> /\ Shows(n, NumTurns)

PageTypes ==
  /\ turns \in Seq(Attempts \X Turns)
  /\ starts \in 0..MaxStarts
  /\ starting \in [Attempts -> Startings]

(* The inductive invariant.                                                *)
ShownInv == PageTypes /\ \A n \in Attempts : JoinsOnce(n) /\ NothingMissing(n)

LEMMA InitShownInv == ASSUME CallInit PROVE ShownInv
<1>1. PageTypes
  BY StartsAssumption DEF CallInit, PageTypes, Startings
<1>2. \A n \in Attempts : JoinsOnce(n) /\ n \notin ended /\ n \notin joined
  BY DEF CallInit, JoinsOnce, LinesOf, Attempts
<1> QED
  BY <1>1, <1>2 DEF ShownInv, NothingMissing

(* The page shows what it showed of attempt n, and nothing new comes.      *)
LEMMA KeepMissing ==
  ASSUME NEW n \in Attempts, NothingMissing(n), UNCHANGED <<turns, starts, ended, said>>,
         n \in late => n \in late',
         n \in joined' => n \in joined /\ inbox'[n] = inbox[n],
         inbox'[n] \in {inbox[n], <<>>},
         session[n] \in {"announced", "closing", "over"} =>
           session'[n] \in {"announced", "closing", "over"}
  PROVE  NothingMissing(n)'
<1> SUFFICES ASSUME starts = n, n \notin late, ended' = ended
             PROVE  /\ n \in joined' /\ n \notin ended =>
                         \E a \in Nat : (a <= said[n] /\ Shows(n, a) /\ OnItsWay(n, a))'
                    /\ n \in ended => inbox'[n] = <<>> /\ Shows(n, NumTurns)'
  BY DEF NothingMissing
<1>1. \A a : Shows(n, a)' = Shows(n, a)
  BY DEF Shows, LinesOf
<1>2. ASSUME n \in joined', n \notin ended
      PROVE  \E a \in Nat : (a <= said[n] /\ Shows(n, a) /\ OnItsWay(n, a))'
  <2>1. PICK a \in Nat : a <= said[n] /\ Shows(n, a) /\ OnItsWay(n, a)
    BY <1>2 DEF NothingMissing
  <2>2. OnItsWay(n, a)'
    BY <1>2, <2>1 DEF OnItsWay
  <2> QED
    BY <1>1, <2>1, <2>2
<1>3. ASSUME n \in ended PROVE inbox'[n] = <<>> /\ Shows(n, NumTurns)'
  BY <1>1, <1>3 DEF NothingMissing
<1> QED
  BY <1>2, <1>3

(* The steps that only change who is connected, or how far things are.     *)
LEMMA DisconnectKeepsShown ==
  ASSUME ScriptInv, ShownInv, NEW m, Disconnect(m),
         UNCHANGED <<turns, starts, ended, said, late, session>>,
         starting' \in [Attempts -> Startings],
         \A n \in Attempts : starting'[n] = starting[n] \/
                             (starting[n] # "no" /\ starting'[n] = "over")
  PROVE  ShownInv'
<1>1. PageTypes'
  BY DEF ShownInv, PageTypes
<1>2. ASSUME NEW n \in Attempts PROVE JoinsOnce(n)' /\ NothingMissing(n)'
  <2>1. inbox'[n] = IF n = m THEN <<>> ELSE inbox[n]
    BY DEF Disconnect
  <2>2. n \in joined' => n \in joined /\ n # m
    BY DEF Disconnect
  <2>3. n \in joined /\ n # m => n \in joined'
    BY DEF Disconnect
  <2>4. LinesOf(n)' = LinesOf(n)
    BY DEF LinesOf
  <2>5. JoinsOnce(n)'
    BY <2>1, <2>2, <2>3, <2>4 DEF JoinsOnce, ShownInv
  <2>6. NothingMissing(n)'
    BY <2>1, <2>2, KeepMissing DEF ShownInv
  <2> QED
    BY <2>5, <2>6
<1> QED
  BY <1>1, <1>2 DEF ShownInv

(* How a handler, and a session, may go on without a message.              *)
HandlerGoesOn(n) ==
  \/ starting'[n] = starting[n]
  \/ starting[n] = "post" /\ starting'[n] \in {"connect", "over"}
  \/ starting[n] = "microphone" /\ starting'[n] = "over"

SessionGoesOn(n) ==
  \/ session'[n] = session[n]
  \/ session[n] \in {"none", "queued"} /\ session'[n] \in {"queued", "waiting"}
  \/ session[n] = "waiting" /\ (n \in late' \/ n \in joined)
  \/ session[n] \in {"settling", "turn", "final"}
  \/ session[n] \in {"announced", "closing"} /\ session'[n] \in {"closing", "over"}

LEMMA GoOnKeepsShown ==
  ASSUME ScriptInv, ShownInv,
         UNCHANGED <<turns, starts, ended, said, joined, inbox>>,
         starting' \in [Attempts -> Startings], late \subseteq late',
         \A n \in Attempts : HandlerGoesOn(n) /\ SessionGoesOn(n)
  PROVE  ShownInv'
<1>1. PageTypes'
  BY DEF ShownInv, PageTypes
<1>2. ASSUME NEW n \in Attempts PROVE JoinsOnce(n)' /\ NothingMissing(n)'
  <2>1. LinesOf(n)' = LinesOf(n)
    BY DEF LinesOf
  <2>2. n \in joined => starting[n] \notin {"no", "post", "connect"}
    BY DEF ShownInv, JoinsOnce
  <2>3. starting \in [Attempts -> Startings]
    BY DEF ShownInv, PageTypes
  <2>5. JoinsOnce(n)'
    BY <2>1, <2>2, <2>3 DEF JoinsOnce, ShownInv, Startings, HandlerGoesOn, SessionGoesOn
  <2>6. NothingMissing(n)'
    BY KeepMissing DEF ShownInv, SessionGoesOn
  <2> QED
    BY <2>5, <2>6
<1> QED
  BY <1>1, <1>2 DEF ShownInv

-----------------------------------------------------------------------------
(* The steps that start an attempt, and that send and receive its messages.*)

LEMMA StartKeepsShown == ASSUME ShownInv, Start PROVE ShownInv'
<1>1. /\ starts' = starts + 1 /\ turns' = <<>>
      /\ starting' = [starting EXCEPT ![starts + 1] = "post"]
      /\ UNCHANGED <<joined, inbox, ended, session, late>> /\ starts < MaxStarts
  BY DEF Start, livekit, worker
<1>2. starts \in Nat /\ starts + 1 \in Attempts
  BY <1>1, StartsAssumption DEF ShownInv, PageTypes, Attempts
<1>3. PageTypes'
  BY <1>1, <1>2, StartsAssumption DEF ShownInv, PageTypes, Startings
<1>4. starting[starts + 1] = "no"
  BY <1>2 DEF ShownInv, JoinsOnce
<1>5. ASSUME NEW n \in Attempts PROVE JoinsOnce(n)'
  <2>1. LinesOf(n)' = {}
    BY <1>1 DEF LinesOf
  <2>2. starting'[n] = IF n = starts + 1 THEN "post" ELSE starting[n]
    BY <1>1 DEF ShownInv, PageTypes
  <2>3. n > starts + 1 => n > starts
    BY <1>2 DEF Attempts
  <2>4. n > starts' => starting'[n] = "no"
    BY <1>1, <1>2, <2>2, <2>3 DEF ShownInv, JoinsOnce, Attempts
  <2> QED
    BY <1>1, <1>4, <2>1, <2>2, <2>4 DEF ShownInv, JoinsOnce
<1>6. ASSUME NEW n \in Attempts PROVE NothingMissing(n)'
  <2>1. starts' = n => n \notin joined /\ n \notin ended
    BY <1>1, <1>2, <1>4 DEF ShownInv, JoinsOnce
  <2> QED
    BY <1>1, <2>1 DEF NothingMissing
<1> QED
  BY <1>3, <1>5, <1>6 DEF ShownInv

LEMMA ConnectedKeepsShown ==
  ASSUME ScriptInv, ShownInv, NEW m \in Attempts, Connected(m) PROVE ShownInv'
<1>1. /\ starting[m] = "connect" /\ starting' = [starting EXCEPT ![m] = "microphone"]
      /\ joined' = joined \cup {m}
      /\ UNCHANGED <<turns, starts, inbox, ended, session, late, said>>
  BY DEF Connected, worker
<1>2. m \notin joined /\ m \notin ended /\ LinesOf(m) = {} /\ inbox[m] = <<>>
  BY <1>1 DEF ShownInv, JoinsOnce
<1>3. PageTypes'
  BY <1>1 DEF ShownInv, PageTypes, Startings
<1>4. ASSUME NEW n \in Attempts PROVE JoinsOnce(n)'
  <2>1. LinesOf(n)' = LinesOf(n)
    BY <1>1 DEF LinesOf
  <2>2. starting'[n] = IF n = m THEN "microphone" ELSE starting[n]
    BY <1>1 DEF ShownInv, PageTypes
  <2>3. n = m => n <= starts
    BY <1>1, StartsAssumption DEF ShownInv, JoinsOnce, PageTypes, Attempts
  <2> QED
    BY <1>1, <2>1, <2>2, <2>3 DEF ShownInv, JoinsOnce
<1>5. NothingMissing(m)'
  <2> SUFFICES ASSUME starts = m, m \notin late
               PROVE  \E a \in Nat : (a <= said[m] /\ Shows(m, a) /\ OnItsWay(m, a))'
    BY <1>1, <1>2 DEF NothingMissing
  <2>1. session[m] \in {"none", "queued", "waiting"}
    BY <1>1 DEF ShownInv, JoinsOnce
  <2>2. said[m] = 0
    BY <2>1 DEF ScriptInv, SaidSoFar
  <2>3. Shows(m, 0)'
    BY <1>1, <1>2 DEF Shows, LinesOf
  <2>4. OnItsWay(m, 0)'
    BY <1>1, <1>2, <2>2 DEF OnItsWay
  <2> QED
    BY <1>1, <2>2, <2>3, <2>4
<1>6. ASSUME NEW n \in Attempts, n # m PROVE NothingMissing(n)'
  BY <1>1, <1>6, KeepMissing DEF ShownInv
<1> QED
  BY <1>3, <1>4, <1>5, <1>6 DEF ShownInv

LEMMA AppendedElements ==
  ASSUME NEW S, NEW seq \in Seq(S), NEW e
  PROVE  /\ Len(Append(seq, e)) = Len(seq) + 1
         /\ \A i \in 1..Len(Append(seq, e)) :
              Append(seq, e)[i] = IF i <= Len(seq) THEN seq[i] ELSE e
OBVIOUS

(* A message is published to the browser, of a turn or of the end.         *)
LEMMA PublishKeepsShown ==
  ASSUME ScriptInv, ShownInv, NEW m \in Attempts, SayTurn(m) \/ Announce(m)
  PROVE  ShownInv'
<1>1. /\ UNCHANGED <<turns, starts, starting, joined, ended, late>>
      /\ session[m] \in {"turn", "final"}
      /\ session' = [session EXCEPT ![m] = session'[m]]
      /\ session'[m] \in {"turn", "final", "announced"}
  BY DEF SayTurn, Announce, GoTo, AtTurn, pageVars, ScriptInv, SessionTypes
<1>2. m \notin ended
  BY <1>1 DEF ScriptInv, SaidSoFar, Told
<1>3. \A n \in Attempts : n # m \/ n \notin joined => inbox'[n] = inbox[n]
  BY DEF SayTurn, Announce, Publish, ScriptInv, SessionTypes
<1>4. \A n \in Attempts : n # m => said'[n] = said[n] /\ session'[n] = session[n]
  BY <1>1 DEF SayTurn, Announce, ScriptInv, SessionTypes
<1>5. ASSUME NEW n \in Attempts PROVE JoinsOnce(n)'
  <2>1. LinesOf(n)' = LinesOf(n)
    BY <1>1 DEF LinesOf
  <2> QED
    BY <1>1, <1>3, <1>4, <2>1 DEF ShownInv, JoinsOnce
<1>6. ASSUME NEW n \in Attempts, n # m PROVE NothingMissing(n)'
  <2>1. inbox'[n] = inbox[n] /\ said'[n] = said[n] /\ session'[n] = session[n]
    BY <1>3, <1>4, <1>6
  <2>2. \A a : Shows(n, a)' = Shows(n, a)
    BY <1>1 DEF Shows, LinesOf
  <2>3. \A a : OnItsWay(n, a)' = OnItsWay(n, a)
    BY <2>1 DEF OnItsWay
  <2> QED
    BY <1>1, <2>1, <2>2, <2>3 DEF ShownInv, NothingMissing
<1>7. NothingMissing(m)'
  <2> SUFFICES ASSUME starts = m, m \notin late, m \in joined
               PROVE  \E a \in Nat : (a <= said[m] /\ Shows(m, a) /\ OnItsWay(m, a))'
    BY <1>1, <1>2 DEF NothingMissing
  <2>1. PICK a \in Nat : a <= said[m] /\ Shows(m, a) /\ OnItsWay(m, a)
    BY <1>2 DEF ShownInv, NothingMissing
  <2>2. Shows(m, a)'
    BY <1>1, <2>1 DEF Shows, LinesOf
  <2>3. said[m] \in Nat /\ inbox[m] \in Seq(Turns \cup {End}) /\ Len(inbox[m]) = said[m] - a
    BY <1>1, <2>1 DEF OnItsWay, ScriptInv, SessionTypes
  <2>4. CASE SayTurn(m)
    <3>1. said'[m] = said[m] + 1 /\ inbox'[m] = Append(inbox[m], said[m] + 1)
      BY <2>4 DEF SayTurn, Publish, ScriptInv, SessionTypes, SaidSoFar
    <3>2. /\ Len(inbox'[m]) = Len(inbox[m]) + 1
          /\ \A i \in 1..Len(inbox'[m]) :
               inbox'[m][i] = IF i <= Len(inbox[m]) THEN inbox[m][i] ELSE said[m] + 1
      BY <2>3, <3>1, AppendedElements
    <3>3. PICK l \in Nat : l = Len(inbox[m])
      BY <2>3
    <3>4. said[m] = l + a /\ said'[m] = l + a + 1 /\ Len(inbox'[m]) = l + 1
      BY <2>3, <3>1, <3>2, <3>3
    <3>5. \A i \in 1..l : inbox[m][i] = a + i
      BY <2>1, <3>3, <3>4 DEF OnItsWay
    <3>6. \A i \in 1..(l + 1) : inbox'[m][i] = a + i
      <4>1. ASSUME NEW i \in 1..(l + 1) PROVE inbox'[m][i] = a + i
        <5>1. inbox'[m][i] = IF i <= l THEN inbox[m][i] ELSE l + a + 1
          BY <3>2, <3>3, <3>4
        <5>2. CASE i <= l
          <6>1. i \in 1..l
            BY <5>2
          <6> QED
            BY <3>5, <5>1, <5>2, <6>1
        <5>3. CASE ~(i <= l)
          <6>1. i = l + 1
            BY <5>3
          <6> QED
            BY <5>1, <6>1
        <5> QED
          BY <5>2, <5>3
      <4> QED
        BY <4>1
    <3>7. l + a + 1 - a = l + 1
      OBVIOUS
    <3>8. OnItsWay(m, a)'
      BY <3>4, <3>6, <3>7 DEF OnItsWay
    <3> QED
      BY <2>1, <2>2, <2>3, <3>1, <3>8
  <2>5. CASE Announce(m)
    <3>1. said'[m] = said[m] /\ inbox'[m] = Append(inbox[m], End) /\ session'[m] = "announced"
      BY <2>5 DEF Announce, Publish, GoTo, ScriptInv, SessionTypes
    <3>2. OnItsWay(m, a)'
      BY <2>1, <2>3, <3>1 DEF OnItsWay
    <3> QED
      BY <2>1, <2>2, <2>3, <3>1, <3>2
  <2> QED
    BY <2>4, <2>5
<1>8. PageTypes'
  BY <1>1 DEF ShownInv, PageTypes
<1> QED
  BY <1>5, <1>6, <1>7, <1>8 DEF ShownInv

(* A line of attempt m is added to those the page shows.                   *)
LEMMA LineAdded ==
  ASSUME PageTypes, NEW m \in Attempts, NEW k, turns' = Append(turns, <<m, k>>)
  PROVE  /\ turns'[Len(turns) + 1] = <<m, k>>
         /\ Len(turns) + 1 \notin LinesOf(m)
         /\ LinesOf(m)' = LinesOf(m) \cup {Len(turns) + 1}
         /\ \A n \in Attempts \ {m} : LinesOf(n)' = LinesOf(n)
         /\ \A i \in DOMAIN turns : turns'[i] = turns[i] /\ i \in Nat /\ i < Len(turns) + 1
<1>1. turns \in Seq(Attempts \X Turns) /\ Len(turns) \in Nat
  BY DEF PageTypes
<1>2. /\ DOMAIN turns = 1..Len(turns) /\ DOMAIN turns' = 1..(Len(turns) + 1)
      /\ turns'[Len(turns) + 1] = <<m, k>>
      /\ \A i \in DOMAIN turns : turns'[i] = turns[i]
  BY <1>1
<1> QED
  BY <1>1, <1>2 DEF LinesOf

LEMMA LineOfAnother ==
  ASSUME PageTypes, NEW m \in Attempts, NEW k, turns' = Append(turns, <<m, k>>),
         NEW n \in Attempts, n # m, NEW a, Shows(n, a)
  PROVE  Shows(n, a)'
<1>1. LinesOf(n)' = LinesOf(n) /\ \A i \in LinesOf(n) : turns'[i] = turns[i]
  BY LineAdded DEF LinesOf
<1> QED
  BY <1>1 DEF Shows

(* Lines that count up to a, each number once and in order.                *)
CountsTo(lines, shown, a) ==
  /\ \A i \in lines : shown[i] \in 1..a
  /\ \A k \in 1..a : \E i \in lines : shown[i] = k
  /\ \A i, j \in lines : i < j => shown[i] < shown[j]

LEMMA OneMore ==
  ASSUME NEW lines, NEW shown, NEW lines2, NEW shown2, NEW a \in Nat, NEW last \in Nat,
         lines2 = lines \cup {last}, shown2[last] = a + 1, CountsTo(lines, shown, a),
         \A i \in lines : i \in Nat /\ i < last /\ shown2[i] = shown[i]
  PROVE  CountsTo(lines2, shown2, a + 1)
<1>1. \A i \in lines2 : shown2[i] \in 1..(a + 1)
  BY DEF CountsTo
<1>2. \A k \in 1..(a + 1) : \E i \in lines2 : shown2[i] = k
  <2>1. \A k \in 1..(a + 1) : k \in 1..a \/ k = a + 1
    OBVIOUS
  <2> QED
    BY <2>1 DEF CountsTo
<1>3. \A i, j \in lines2 : i < j => shown2[i] < shown2[j]
  BY DEF CountsTo
<1> QED
  BY <1>1, <1>2, <1>3 DEF CountsTo

LEMMA NextLine ==
  ASSUME PageTypes, NEW m \in Attempts, NEW a \in Nat, Shows(m, a),
         turns' = Append(turns, <<m, a + 1>>)
  PROVE  Shows(m, a + 1)'
<1>1. PICK last \in Nat : last = Len(turns) + 1
  BY DEF PageTypes
<1>2. /\ turns'[last] = <<m, a + 1>> /\ LinesOf(m)' = LinesOf(m) \cup {last}
      /\ \A i \in LinesOf(m) : turns'[i] = turns[i] /\ i \in Nat /\ i < last
  BY <1>1, LineAdded DEF LinesOf
<1>3. PICK lines : lines = LinesOf(m)
  OBVIOUS
<1>4. PICK lines2 : lines2 = LinesOf(m)'
  OBVIOUS
<1>5. PICK shown : shown = [i \in lines |-> turns[i][2]]
  OBVIOUS
<1>6. PICK shown2 : shown2 = [i \in lines2 |-> turns'[i][2]]
  OBVIOUS
<1>7. lines2 = lines \cup {last} /\ shown2[last] = a + 1
  <2>1. lines2 = lines \cup {last}
    BY <1>2, <1>3, <1>4
  <2>2. shown2[last] = turns'[last][2]
    BY <1>6, <2>1
  <2>3. <<m, a + 1>>[2] = a + 1
    OBVIOUS
  <2> QED
    BY <1>2, <2>1, <2>2, <2>3
<1>8. \A i \in lines : i \in Nat /\ i < last /\ shown2[i] = shown[i]
  BY <1>2, <1>3, <1>5, <1>6, <1>7
<1>9. CountsTo(lines, shown, a)
  BY <1>3, <1>5 DEF Shows, CountsTo
<1>10. CountsTo(lines2, shown2, a + 1)
  BY <1>7, <1>8, <1>9, OneMore
<1> QED
  BY <1>4, <1>6, <1>10 DEF Shows, CountsTo

LEMMA ReceiveKeepsShown ==
  ASSUME ScriptInv, ShownInv, NEW m \in Attempts, Receive(m) PROVE ShownInv'
<1> DEFINE k == Head(inbox[m])
<1>1. /\ m \in joined /\ inbox[m] # <<>> /\ inbox[m] \in Seq(Turns \cup {End})
      /\ inbox' = [inbox EXCEPT ![m] = Tail(inbox[m])]
      /\ UNCHANGED <<starts, starting, joined, session, late, said>>
  BY DEF Receive, worker, ScriptInv, SessionTypes
<1>2. inbox'[m] = Tail(inbox[m]) /\ \A n \in Attempts \ {m} : inbox'[n] = inbox[n]
  BY <1>1 DEF ScriptInv, SessionTypes
<1>3. \/ k = End /\ ended' = ended \cup {m} /\ turns' = turns
      \/ k # End /\ ended' = ended /\ turns' = Append(turns, <<m, k>>)
  BY DEF Receive, reduceTranscriptSegment
<1>4. k \in Turns \cup {End} /\ k = inbox[m][1] /\ 1 \in 1..Len(inbox[m])
  BY <1>1
<1> HIDE DEF k
<1>5. PageTypes
  BY DEF ShownInv
<1>6. PageTypes'
  <2>1. k # End => <<m, k>> \in Attempts \X Turns
    BY <1>4
  <2>2. turns' \in Seq(Attempts \X Turns)
    <3>1. CASE turns' = turns
      BY <1>5, <3>1 DEF PageTypes
    <3>2. CASE k # End /\ turns' = Append(turns, <<m, k>>)
      <4>1. PICK line \in Attempts \X Turns : line = <<m, k>>
        BY <2>1, <3>2
      <4>2. turns \in Seq(Attempts \X Turns)
        BY <1>5 DEF PageTypes
      <4> QED
        BY <3>2, <4>1, <4>2
    <3> QED
      BY <1>3, <3>1, <3>2
  <2> QED
    BY <1>1, <1>5, <2>2 DEF PageTypes
<1>7. ASSUME NEW n \in Attempts, n # m
      PROVE  LinesOf(n)' = LinesOf(n) /\ \A a : Shows(n, a) => Shows(n, a)'
  <2>1. CASE turns' = turns
    BY <2>1 DEF Shows, LinesOf
  <2>2. CASE turns' = Append(turns, <<m, k>>)
    BY <1>5, <1>7, <2>2, LineAdded, LineOfAnother
  <2> QED
    BY <1>3, <2>1, <2>2
<1>8. ASSUME NEW n \in Attempts PROVE JoinsOnce(n)'
  <2>1. starting[m] \notin {"no", "post", "connect"}
    BY <1>1 DEF ShownInv, JoinsOnce
  <2> QED
    BY <1>1, <1>2, <1>3, <1>7, <2>1 DEF ShownInv, JoinsOnce
<1>9. ASSUME NEW n \in Attempts, n # m PROVE NothingMissing(n)'
  <2>1. inbox'[n] = inbox[n] /\ (n \in ended' => n \in ended) /\ (n \in ended => n \in ended')
    BY <1>2, <1>3, <1>9
  <2>2. \A a : OnItsWay(n, a) => OnItsWay(n, a)'
    BY <1>1, <2>1 DEF OnItsWay
  <2> QED
    BY <1>1, <1>7, <1>9, <2>1, <2>2 DEF ShownInv, NothingMissing
<1>10. NothingMissing(m)'
  <2> SUFFICES ASSUME starts = m, m \notin late
               PROVE  /\ m \notin ended' =>
                           \E a \in Nat : (a <= said[m] /\ Shows(m, a) /\ OnItsWay(m, a))'
                      /\ m \in ended' => inbox'[m] = <<>> /\ Shows(m, NumTurns)'
    BY <1>1 DEF NothingMissing
  <2>1. m \notin ended
    BY <1>1 DEF ShownInv, NothingMissing
  <2>2. PICK a \in Nat : a <= said[m] /\ Shows(m, a) /\ OnItsWay(m, a)
    BY <1>1, <2>1 DEF ShownInv, NothingMissing
  <2>3. said[m] \in Nat /\ said'[m] = said[m] /\ Len(inbox[m]) \in Nat
    BY <1>1 DEF ScriptInv, SessionTypes
  <2>4. k = IF 1 <= said[m] - a THEN a + 1 ELSE End
    BY <1>4, <2>2 DEF OnItsWay
  <2>5. CASE k = End
    <3>1. said[m] = a
      BY <2>2, <2>3, <2>4, <2>5 DEF End
    <3>2. said[m] = NumTurns
      <4>1. 1 \in DOMAIN inbox[m] /\ inbox[m][1] = End
        BY <1>1, <1>4, <2>5
      <4> QED
        BY <4>1 DEF ScriptInv, SaidSoFar, Told
    <3>3. Shows(m, NumTurns)'
      BY <1>3, <2>2, <2>5, <3>1, <3>2 DEF Shows, LinesOf
    <3>4. inbox'[m] = <<>>
      <4>1. said[m] - a = 0 /\ said[m] - a + 1 = 1
        BY <3>1
      <4>2. Len(inbox[m]) \in {0, 1}
        BY <2>2, <4>1 DEF OnItsWay
      <4>3. Len(inbox[m]) = 1
        BY <1>4, <4>2
      <4>4. Len(Tail(inbox[m])) = 0 /\ Tail(inbox[m]) \in Seq(Turns \cup {End})
        BY <1>1, <4>3
      <4>5. Tail(inbox[m]) = <<>>
        BY <4>4, EmptySeq
      <4> QED
        BY <1>2, <4>5
    <3> QED
      BY <1>3, <2>5, <3>3, <3>4
  <2>6. CASE k # End
    <3>1. k = a + 1 /\ a + 1 <= said[m]
      BY <2>2, <2>3, <2>4, <2>6
    <3>2. Shows(m, a + 1)'
      BY <1>3, <1>5, <2>2, <2>6, <3>1, NextLine
    <3>3. /\ Len(inbox'[m]) = Len(inbox[m]) - 1
          /\ \A i \in 1..Len(inbox'[m]) : inbox'[m][i] = inbox[m][i + 1]
      <4>1. inbox'[m] = Tail(inbox[m]) /\ Len(inbox[m]) # 0
        BY <1>1, <1>2
      <4>2. /\ Len(Tail(inbox[m])) = Len(inbox[m]) - 1
            /\ \A i \in 1..(Len(inbox[m]) - 1) : Tail(inbox[m])[i] = inbox[m][i + 1]
        BY <1>1, <4>1
      <4> QED
        BY <4>1, <4>2
    <3>4. OnItsWay(m, a + 1)'
      BY <1>1, <2>2, <2>3, <3>1, <3>3 DEF OnItsWay
    <3> QED
      BY <1>3, <2>1, <2>3, <2>6, <3>1, <3>2, <3>4
  <2> QED
    BY <2>5, <2>6
<1> QED
  BY <1>6, <1>8, <1>9, <1>10 DEF ShownInv

LEMMA StepShownInv == ASSUME ScriptInv, ShownInv, [CallNext]_callVars PROVE ShownInv'
<1>1. CASE EndCall \/ Leave
  <2>1. /\ Disconnect(roomRef)
        /\ UNCHANGED <<turns, starts, starting, ended, said, late, session>>
    BY <1>1 DEF EndCall, Leave, worker
  <2> QED
    BY <2>1, DisconnectKeepsShown DEF ShownInv, PageTypes
<1>2. ASSUME NEW n \in Attempts, RoomIsGone(n) \/ PageDrops(n) PROVE ShownInv'
  <2>1. /\ Disconnect(n)
        /\ UNCHANGED <<turns, starts, starting, ended, said, late, session>>
    BY <1>2 DEF RoomIsGone, PageDrops, LoseConnection, worker
  <2> QED
    BY <2>1, DisconnectKeepsShown DEF ShownInv, PageTypes
<1>3. ASSUME NEW n \in Attempts, JoinFailed(n) PROVE ShownInv'
  <2>1. /\ Disconnect(roomRef) /\ starting' = [starting EXCEPT ![n] = "over"]
        /\ starting[n] # "no"
        /\ UNCHANGED <<turns, starts, ended, said, late, session>>
    BY <1>3 DEF JoinFailed, worker
  <2> QED
    BY <2>1, DisconnectKeepsShown DEF ShownInv, PageTypes, Startings
<1>4. ASSUME NEW n \in Attempts, PostAnswered(n) \/ PostRefused(n) \/ MicrophoneOn(n)
      PROVE  ShownInv'
  <2>1. /\ UNCHANGED <<turns, starts, ended, said, joined, inbox, late, session>>
        /\ \/ starting[n] = "post" /\ starting' = [starting EXCEPT ![n] = "connect"]
           \/ starting[n] = "post" /\ starting' = [starting EXCEPT ![n] = "over"]
           \/ starting[n] = "microphone" /\ starting' = [starting EXCEPT ![n] = "over"]
    BY <1>4 DEF PostAnswered, PostRefused, MicrophoneOn, livekit, worker
  <2>2. starting' \in [Attempts -> Startings]
    BY <2>1 DEF ShownInv, PageTypes, Startings
  <2>3. \A m \in Attempts : HandlerGoesOn(m) /\ SessionGoesOn(m)
    BY <2>1 DEF HandlerGoesOn, SessionGoesOn, ShownInv, PageTypes
  <2> QED
    BY <2>1, <2>2, <2>3, GoOnKeepsShown
<1>5. ASSUME NEW n \in Attempts,
             \/ Enqueue(n) \/ JoinRoom(n) \/ ParticipantConnected(n) \/ NobodyJoined(n)
             \/ Settled(n) \/ ReportDropped(n) \/ FinalStep(n) \/ PublishRejects(n)
             \/ CloseRoom(n)
      PROVE  ShownInv'
  <2>1. /\ UNCHANGED <<turns, starts, starting, ended, said, joined, inbox>>
        /\ late \subseteq late' /\ session' = [session EXCEPT ![n] = session'[n]]
    BY <1>5 DEF Enqueue, JoinRoom, ParticipantConnected, NobodyJoined, Settled, ReportDropped,
                FinalStep, PublishRejects, CloseRoom, GoTo, pageVars, livekit,
                ScriptInv, SessionTypes
  <2>2. \/ session'[n] \in {"queued", "waiting"} /\ session[n] \in {"none", "queued"}
        \/ n \in late' /\ session[n] = "waiting"
        \/ n \in joined /\ session[n] = "waiting"
        \/ session[n] \in {"settling", "turn", "final"}
        \/ session[n] \in {"announced", "closing"} /\ session'[n] \in {"closing", "over"}
    BY <1>5 DEF Enqueue, JoinRoom, ParticipantConnected, NobodyJoined, Settled, ReportDropped,
                FinalStep, PublishRejects, CloseRoom, GoTo, ScriptInv, SessionTypes
  <2>3. \A m \in Attempts : m # n => session'[m] = session[m]
    BY <2>1 DEF ScriptInv, SessionTypes
  <2>4. \A m \in Attempts : HandlerGoesOn(m) /\ SessionGoesOn(m)
    BY <2>1, <2>2, <2>3 DEF HandlerGoesOn, SessionGoesOn
  <2>5. starting' \in [Attempts -> Startings]
    BY <2>1 DEF ShownInv, PageTypes
  <2> QED
    BY <2>1, <2>4, <2>5, GoOnKeepsShown
<1>6. CASE (\E n \in Attempts : AgentDrops(n)) \/ UNCHANGED callVars
  <2>1. UNCHANGED <<turns, starts, starting, ended, said, joined, inbox, late, session>>
    BY <1>6 DEF AgentDrops, callVars, pageVars, livekit, worker
  <2>2. \A m \in Attempts : HandlerGoesOn(m) /\ SessionGoesOn(m)
    BY <2>1 DEF HandlerGoesOn, SessionGoesOn
  <2>3. starting' \in [Attempts -> Startings]
    BY <2>1 DEF ShownInv, PageTypes
  <2> QED
    BY <2>1, <2>2, <2>3, GoOnKeepsShown
<1> QED
  BY <1>1, <1>2, <1>3, <1>4, <1>5, <1>6, StartKeepsShown, ConnectedKeepsShown,
     PublishKeepsShown, ReceiveKeepsShown
  DEF CallNext, PageStep, SessionStep

(* The page that is told the end of its latest call shows all of it:       *)
(* each turn of the script once and in order, whatever attempts, lost      *)
(* connections and late messages came before (playground-client.tsx:51-121,*)
(* stub-voice-session.ts:93-168), unless the session had given up waiting  *)
(* for the browser.                                                        *)
THEOREM EndedCallIsShownWhole == CallSpec => []WholeTranscript
<1>1. ScriptInv /\ ShownInv => WholeTranscript
  <2> SUFFICES ASSUME ShownInv, NEW n \in Attempts, starts = n, n \in ended, n \notin late
               PROVE  /\ {turns[i][2] : i \in LinesOf(n)} = Turns
                      /\ \A i, j \in LinesOf(n) : i < j => turns[i][2] < turns[j][2]
    BY DEF WholeTranscript
  <2>1. Shows(n, NumTurns)
    BY DEF ShownInv, NothingMissing
  <2> QED
    BY <2>1 DEF Shows, Turns
<1>2. CallInit => ScriptInv /\ ShownInv
  BY InitScriptInv, InitShownInv
<1>3. ScriptInv /\ ShownInv /\ [CallNext]_callVars => ScriptInv' /\ ShownInv'
  BY StepScriptInv, StepShownInv
<1> QED
  BY <1>1, <1>2, <1>3, PTL DEF CallSpec
=============================================================================
