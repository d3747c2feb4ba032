------------------------ MODULE AdministrationProofs ------------------------
(***************************************************************************)
(* Theorems about the console's forms and the agents they save, for any    *)
(* tabs, agents, edits and prices, any number of requests and any faults.  *)
(***************************************************************************)
EXTENDS Administration, TLAPS

IsRow(row) == DOMAIN row = Columns
IsForm(form) == DOMAIN form = Columns /\ \A c \in Columns : form[c] # Null

LEMMA ColumnFacts ==
  /\ ProviderColumns \subseteq ModeColumns /\ ModeColumns \subseteq Columns
  /\ "voiceMode" \in Columns \ ModeColumns
  /\ "languageProfileId" \in Columns \ ModeColumns
  /\ \A mode : UsedColumns(mode) \subseteq ModeColumns
BY DEF ProviderColumns, OptionalColumns, ModeColumns, Columns, UsedColumns

LEMMA FormsOfRows ==
  /\ IsForm(NewForm)
  /\ \A row : IsForm(FormOf(row))
<1>1. \A c \in Columns : FormDefault(c) # Null
  BY DEF FormDefault, Null
<1> QED
  BY <1>1 DEF NewForm, FormOf, IsForm

(* What the editor sends settles every column whose meaning depends on the *)
(* mode.                                                                   *)
Settles(body, isNew) ==
  /\ "voiceMode" \in DOMAIN body
  /\ \A c \in UnusedColumns(body["voiceMode"]) :
       IF isNew THEN c \notin DOMAIN body ELSE c \in DOMAIN body /\ body[c] = Null
  /\ \A c \in UsedColumns(body["voiceMode"]) \cap ProviderColumns :
       c \in DOMAIN body /\ body[c] # Null

LEMMA BodySettles ==
  ASSUME NEW form, IsForm(form), NEW isNew \in BOOLEAN
  PROVE  Settles(Body(form, isNew), isNew)
<1> DEFINE body == Body(form, isNew)
           mode == form["voiceMode"]
           sent == SentColumns(form)
           cleared == IF isNew THEN {} ELSE ClearedColumns(form)
<1>1. /\ DOMAIN body = sent \cup cleared
      /\ \A c \in sent : body[c] = form[c]
      /\ \A c \in cleared \ sent : body[c] = Null
  BY DEF Body
<1>2. /\ "voiceMode" \in sent
      /\ \A c \in UnusedColumns(mode) : c \notin sent
      /\ \A c \in UsedColumns(mode) \cap ProviderColumns : c \in sent
  BY ColumnFacts DEF SentColumns, UnusedColumns, ProviderColumns, OptionalColumns
<1>3. \A c \in UnusedColumns(mode) : IF isNew THEN c \notin cleared ELSE c \in cleared
  BY DEF ClearedColumns
<1>4. \A c \in sent : form[c] # Null
  BY ColumnFacts DEF SentColumns, IsForm
<1>5. body["voiceMode"] = mode
  BY <1>1, <1>2
<1> HIDE DEF body, mode, sent, cleared
<1> QED
  BY <1>1, <1>2, <1>3, <1>4, <1>5 DEF Settles, body

(* Then what the API makes of it fits the mode, whatever the row was.      *)
LEMMA CreatedFits ==
  ASSUME NEW body, Settles(body, TRUE), ValidCreate(body)
  PROVE  IsRow(Created(body)) /\ Fits(Created(body))
<1>1. \A c \in Columns : Created(body)[c] = IF c \in DOMAIN body THEN body[c] ELSE Null
  BY DEF Created
<1>2. Created(body)["voiceMode"] = body["voiceMode"] /\ body["voiceMode"] \in VoiceModes
  BY <1>1, ColumnFacts DEF Settles, ValidCreate, ValidValue
<1>3. IsRow(Created(body))
  BY DEF Created, IsRow
<1> QED
  BY <1>1, <1>2, <1>3, ColumnFacts DEF Fits, Settles, UnusedColumns

LEMMA UpdatedFits ==
  ASSUME NEW body, Settles(body, FALSE), ValidUpdate(body), NEW row
  PROVE  /\ IsRow(Updated(row, body)) /\ Fits(Updated(row, body))
         /\ Updated(row, body)["voiceMode"] = body["voiceMode"]
<1>1. \A c \in Columns : Updated(row, body)[c] = IF c \in DOMAIN body THEN body[c] ELSE row[c]
  BY DEF Updated
<1>2. body["voiceMode"] \in VoiceModes
  BY DEF Settles, ValidUpdate, ValidValue
<1>3. Updated(row, body)["voiceMode"] = body["voiceMode"]
  BY <1>1, ColumnFacts DEF Settles
<1>4. IsRow(Updated(row, body))
  BY DEF Updated, IsRow
<1> QED
  BY <1>1, <1>2, <1>3, <1>4, ColumnFacts DEF Fits, Settles, UnusedColumns

(* Of a row that fits, the list shows the mode's provider, and the legs are*)
(* those of the mode.                                                      *)
LEMMA FittingRow ==
  ASSUME NEW row, IsRow(row), Fits(row)
  PROVE  /\ ListedProvider(row) =
              row[IF row["voiceMode"] = "cascade" THEN "llmProvider" ELSE "s2sProvider"]
         /\ LegsOf(row) = LegsIn(row["voiceMode"])
<1> DEFINE mode == row["voiceMode"]
<1>1. mode \in VoiceModes
  BY DEF Fits
<1>2. BilledColumns(mode) = UsedColumns(mode) \cap ProviderColumns
  BY <1>1 DEF BilledColumns, UsedColumns, ProviderColumns, OptionalColumns, ModeColumns, VoiceModes
<1>3. \A c \in UsedColumns(mode) \cap ProviderColumns : row[c] # Null
  BY DEF Fits
<1>4. LegsOf(row) = UsedColumns(mode) \cap ProviderColumns
  BY <1>2, <1>3 DEF LegsOf
<1>5. BilledColumns(mode) = LegsIn(mode)
  BY <1>1 DEF BilledColumns, LegsIn, ProviderColumns, VoiceModes
<1>6. IF mode = "cascade" THEN row["s2sProvider"] = Null ELSE row["s2sProvider"] # Null
  BY <1>1, <1>3 DEF Fits, UnusedColumns, UsedColumns, ModeColumns, ProviderColumns, VoiceModes
<1> QED
  BY <1>2, <1>4, <1>5, <1>6 DEF ListedProvider

-----------------------------------------------------------------------------
(* Sequences of anything.                                                  *)

IsSeq(s) == s \in Seq({s[i] : i \in DOMAIN s})

LEMMA AppendIsSeq ==
  ASSUME NEW s, IsSeq(s), NEW e
  PROVE  /\ IsSeq(Append(s, e))
         /\ DOMAIN Append(s, e) = DOMAIN s \cup {Len(s) + 1}
         /\ \A i \in DOMAIN s : Append(s, e)[i] = s[i]
         /\ Append(s, e)[Len(s) + 1] = e
<1> DEFINE S == {s[i] : i \in DOMAIN s} \cup {e}
           t == Append(s, e)
<1>1. s \in Seq(S) /\ e \in S
  BY DEF IsSeq
<1>2. /\ t \in Seq(S) /\ Len(t) = Len(s) + 1 /\ Len(s) \in Nat
      /\ DOMAIN s = 1..Len(s) /\ DOMAIN t = 1..(Len(s) + 1)
      /\ \A i \in DOMAIN s : t[i] = s[i]
      /\ t[Len(s) + 1] = e
  BY <1>1
<1>3. \A i \in 1..Len(t) : t[i] \in {t[j] : j \in DOMAIN t}
  BY <1>2
<1>4. t \in Seq({t[j] : j \in DOMAIN t})
  BY <1>2, <1>3
<1> QED
  BY <1>2, <1>4 DEF IsSeq

LEMMA ExceptIsSeq ==
  ASSUME NEW s, IsSeq(s), NEW i \in DOMAIN s, NEW e
  PROVE  /\ IsSeq([s EXCEPT ![i] = e])
         /\ DOMAIN [s EXCEPT ![i] = e] = DOMAIN s
         /\ \A j \in DOMAIN s : [s EXCEPT ![i] = e][j] = IF j = i THEN e ELSE s[j]
<1> DEFINE t == [s EXCEPT ![i] = e]
<1>1. Len(s) \in Nat /\ DOMAIN s = 1..Len(s)
  BY DEF IsSeq
<1>2. t = [j \in 1..Len(s) |-> IF j = i THEN e ELSE s[j]]
  BY <1>1 DEF IsSeq
<1>3. t \in Seq({t[j] : j \in DOMAIN t})
  <2> DEFINE T == {t[j] : j \in DOMAIN t}
  <2>1. DOMAIN t = 1..Len(s) /\ \A j \in 1..Len(s) : t[j] \in T
    BY <1>2
  <2>2. t \in [1..Len(s) -> T]
    BY <1>2, <2>1
  <2> HIDE DEF t, T
  <2>3. t \in Seq(T)
    BY <1>1, <2>2
  <2> QED
    BY <2>3 DEF T
<1> QED
  BY <1>1, <1>2, <1>3 DEF IsSeq

-----------------------------------------------------------------------------
(* The requests.                                                           *)

(* What never changes of a request: it comes from where its kind is sent,  *)
(* and the body of an agent's settles its columns.                         *)
SentOK(r) ==
  /\ r.kind \in {"create_agent", "update_agent"} =>
       r.from \in Tabs /\ Settles(r.body, r.kind = "create_agent")
  /\ r.kind = "model" => /\ r.from \in Tabs /\ r.what # Null
                         /\ r.body \in {"llmModel", "s2sModel"}
  /\ r.kind = "login" => r.body \in BOOLEAN

RequestOK(r) ==
  /\ DOMAIN r = {"kind", "from", "what", "body", "at", "answer", "served", "alone"}
  /\ r.served \in BOOLEAN
  /\ r.at \in {"sent", "answered", "over"}
  /\ r.answer = "ok" => r.served
  /\ SentOK(r)

RequestsOK == IsSeq(requests) /\ \A i \in DOMAIN requests : RequestOK(requests[i])

(* A form is left as saved once its request is over.                       *)
SavedOK ==
  \A i \in saved : /\ i \in DOMAIN requests /\ requests[i].at = "over"
                   /\ requests[i].answer \in {"ok", "login"}

AgentsOK == \A a \in DOMAIN agents : IsRow(agents[a]) /\ Fits(agents[a])

EditorsOK ==
  /\ DOMAIN editors = Tabs
  /\ \A t \in Tabs :
       /\ DOMAIN editors[t] = {"open", "name", "isNew", "form", "waits", "error"}
       /\ editors[t].isNew \in BOOLEAN
       /\ IsForm(editors[t].form)

(* A call has its agent, which is configured for one of the modes since.   *)
CallOK ==
  /\ DOMAIN call = {"agent", "placed", "at", "usage", "legs"}
  /\ call.at \in {"none", "ended", "metered"}
  /\ call.at # "none" => /\ call.agent \in DOMAIN agents \cap called
                         /\ agents[call.agent]["voiceMode"] \in ModesSince
  /\ BilledInOneMode

(* The inductive invariant.                                                *)
FormsInv == RequestsOK /\ SavedOK /\ AgentsOK /\ EditorsOK /\ CallOK

(* No request is forgotten, nor that it was served.                        *)
Kept ==
  \A i \in DOMAIN requests :
    /\ i \in DOMAIN requests'
    /\ requests'[i].kind = requests[i].kind /\ requests'[i].what = requests[i].what
    /\ requests'[i].body = requests[i].body
    /\ requests[i].served => requests'[i].served

LEMMA KeptWhileUnchanged == ASSUME UNCHANGED requests PROVE Kept
BY DEF Kept

LEMMA SendKeeps ==
  ASSUME RequestsOK, SavedOK, NEW kind, NEW from, NEW what, NEW body,
         Send(kind, from, what, body),
         \A r : r.kind = kind /\ r.from = from /\ r.what = what /\ r.body = body => SentOK(r),
         saved' = saved
  PROVE  RequestsOK' /\ SavedOK' /\ Kept
<1> DEFINE r == requests'[Len(requests) + 1]
<1>1. /\ r.kind = kind /\ r.from = from /\ r.what = what /\ r.body = body
      /\ r.at = "sent" /\ r.answer = None /\ r.served = FALSE
      /\ DOMAIN r = {"kind", "from", "what", "body", "at", "answer", "served", "alone"}
  BY AppendIsSeq DEF Send, RequestsOK
<1>2. RequestOK(r)
  BY <1>1 DEF RequestOK, None
<1>3. /\ IsSeq(requests') /\ DOMAIN requests' = DOMAIN requests \cup {Len(requests) + 1}
      /\ \A i \in DOMAIN requests : requests'[i] = requests[i]
  BY AppendIsSeq DEF Send, RequestsOK
<1>4. RequestsOK' /\ SavedOK'
  BY <1>2, <1>3 DEF RequestsOK, SavedOK
<1>5. Kept
  BY <1>2, <1>3 DEF Kept
<1> QED
  BY <1>4, <1>5

LEMMA AnswerKeeps ==
  ASSUME RequestsOK, SavedOK, NEW i \in DOMAIN requests, requests[i].at # "over",
         NEW answer, NEW served \in BOOLEAN, answer = "ok" => served,
         Answered(i, answer, served), saved' = saved
  PROVE  RequestsOK' /\ SavedOK' /\ Kept
<1> DEFINE r == [requests[i] EXCEPT !.at = "answered", !.answer = answer,
                                    !.served = @ \/ served]
<1>1. requests' = [requests EXCEPT ![i] = r]
  BY DEF Answered
<1>2. /\ RequestOK(r)
      /\ r.kind = requests[i].kind /\ r.what = requests[i].what /\ r.body = requests[i].body
      /\ requests[i].served => r.served
  BY DEF RequestsOK, RequestOK, SentOK
<1> HIDE DEF r
<1>3. /\ IsSeq(requests') /\ DOMAIN requests' = DOMAIN requests
      /\ \A j \in DOMAIN requests : requests'[j] = IF j = i THEN r ELSE requests[j]
  BY <1>1, ExceptIsSeq DEF RequestsOK
<1>4. RequestsOK' /\ SavedOK'
  BY <1>2, <1>3 DEF RequestsOK, SavedOK
<1>5. Kept
  BY <1>2, <1>3 DEF Kept
<1> QED
  BY <1>4, <1>5

LEMMA OverKeeps ==
  ASSUME RequestsOK, SavedOK, NEW i \in DOMAIN requests, Over(i),
         \/ saved' = saved
         \/ saved' = saved \cup {i} /\ requests[i].answer \in {"ok", "login"}
  PROVE  RequestsOK' /\ SavedOK' /\ Kept
<1> DEFINE r == [requests[i] EXCEPT !.at = "over"]
<1>1. requests' = [requests EXCEPT ![i] = r]
  BY DEF Over
<1>2. /\ RequestOK(r) /\ r.at = "over" /\ r.answer = requests[i].answer
      /\ r.kind = requests[i].kind /\ r.what = requests[i].what /\ r.body = requests[i].body
      /\ r.served = requests[i].served
  BY DEF RequestsOK, RequestOK, SentOK
<1> HIDE DEF r
<1>3. /\ IsSeq(requests') /\ DOMAIN requests' = DOMAIN requests
      /\ \A j \in DOMAIN requests : requests'[j] = IF j = i THEN r ELSE requests[j]
  BY <1>1, ExceptIsSeq DEF RequestsOK
<1>4. RequestsOK' /\ SavedOK'
  BY <1>2, <1>3 DEF RequestsOK, SavedOK
<1>5. Kept
  BY <1>2, <1>3 DEF Kept
<1> QED
  BY <1>4, <1>5

-----------------------------------------------------------------------------
LEMMA InitFormsInv == Init => FormsInv
<1> SUFFICES ASSUME Init PROVE FormsInv
  OBVIOUS
<1>1. RequestsOK
  <2>1. requests = << >> /\ << >> \in Seq({})
    BY DEF Init
  <2>2. DOMAIN requests = {} /\ {requests[i] : i \in DOMAIN requests} = {}
    BY <2>1
  <2> QED
    BY <2>1, <2>2 DEF RequestsOK, IsSeq
<1>2. SavedOK
  BY DEF Init, SavedOK
<1>3. AgentsOK
  BY AgentsAssumption DEF Init, AgentsOK, IsRow
<1>4. EditorsOK
  BY FormsOfRows DEF Init, EditorsOK, Closed
<1>5. CallOK
  BY DEF Init, CallOK, BilledInOneMode, ModesSince, NoCall, Completed
<1> QED
  BY <1>1, <1>2, <1>3, <1>4, <1>5 DEF FormsInv

(* A mode that a call's agent has had stays one.                           *)
LEMMA ModesStay == ASSUME Kept, UNCHANGED call PROVE ModesSince \subseteq ModesSince'
BY DEF Kept, ModesSince, About

LEMMA CallKeeps ==
  ASSUME CallOK, Kept, UNCHANGED call, called \subseteq called',
         \/ UNCHANGED agents
         \/ call.at # "none" => /\ call.agent \in DOMAIN agents'
                                /\ agents'[call.agent]["voiceMode"] \in ModesSince'
  PROVE  CallOK'
<1>1. ModesSince \subseteq ModesSince'
  BY ModesStay
<1>2. BilledInOneMode'
  BY <1>1 DEF CallOK, BilledInOneMode
<1> QED
  BY <1>1, <1>2 DEF CallOK

(* What no agent's editor, agent or call has a part in.                    *)
LEMMA ElsewhereKeeps ==
  ASSUME FormsInv, RequestsOK', SavedOK', Kept, UNCHANGED <<agents, editors, called, call>>
  PROVE  FormsInv'
<1>1. AgentsOK' /\ EditorsOK'
  BY DEF FormsInv, AgentsOK, EditorsOK
<1>2. CallOK'
  BY CallKeeps DEF FormsInv
<1> QED
  BY <1>1, <1>2 DEF FormsInv

(* An editor's form is filled in, or the editor closed.                    *)
LEMMA EditorKeeps ==
  ASSUME FormsInv, RequestsOK', SavedOK', EditorsOK', Kept, UNCHANGED <<agents, called, call>>
  PROVE  FormsInv'
<1>1. AgentsOK'
  BY DEF FormsInv, AgentsOK
<1>2. CallOK'
  BY CallKeeps DEF FormsInv
<1> QED
  BY <1>1, <1>2 DEF FormsInv

LEMMA UserKeeps == ASSUME FormsInv, UserStep PROVE FormsInv'
<1> USE DEF FormsInv
<1>1. ASSUME NEW t \in Tabs, NEW a \in AgentNames, OpenEditor(t, a) PROVE FormsInv'
  <2>1. EditorsOK'
    BY <1>1, FormsOfRows DEF OpenEditor, EditorsOK, Closed
  <2> QED
    BY <1>1, <2>1, EditorKeeps, KeptWhileUnchanged DEF OpenEditor, tables, RequestsOK, SavedOK
<1>2. ASSUME NEW t \in Tabs, LeaveEditor(t) PROVE FormsInv'
  <2>1. EditorsOK'
    BY <1>2, FormsOfRows DEF LeaveEditor, EditorsOK, Closed
  <2> QED
    BY <1>2, <2>1, EditorKeeps, KeptWhileUnchanged DEF LeaveEditor, tables, RequestsOK, SavedOK
<1>3. ASSUME NEW t \in Tabs, NEW edit \in Edits, EditForm(t, edit) PROVE FormsInv'
  <2>1. EditorsOK'
    BY <1>3, EditsAssumption DEF EditForm, EditorsOK, IsForm
  <2> QED
    BY <1>3, <2>1, EditorKeeps, KeptWhileUnchanged DEF EditForm, tables, RequestsOK, SavedOK
<1>4. ASSUME NEW t \in Tabs, SubmitAgent(t) PROVE FormsInv'
  <2> DEFINE isNew == editors[t].isNew
  <2>1. /\ Send(IF isNew THEN "create_agent" ELSE "update_agent", t, editors[t].name,
                 Body(editors[t].form, isNew))
        /\ UNCHANGED <<agents, called, call, saved>>
    BY <1>4 DEF SubmitAgent, tables
  <2>2. EditorsOK'
    BY <1>4 DEF SubmitAgent, EditorsOK
  <2>3. IsForm(editors[t].form) /\ isNew \in BOOLEAN
    BY DEF EditorsOK
  <2>4. /\ isNew => Settles(Body(editors[t].form, isNew), TRUE)
        /\ ~isNew => Settles(Body(editors[t].form, isNew), FALSE)
    <3> HIDE DEF isNew
    <3>1. Settles(Body(editors[t].form, isNew), isNew)
      BY <2>3, BodySettles
    <3>2. isNew = TRUE \/ isNew = FALSE
      BY <2>3
    <3> QED
      BY <3>1, <3>2
  <2>5. RequestsOK' /\ SavedOK' /\ Kept
    BY <2>1, <2>4, SendKeeps DEF SentOK
  <2> QED
    BY <2>1, <2>2, <2>5, EditorKeeps
<1>5. ASSUME NEW t \in Tabs, NEW m \in ModelNames, AddModel(t, m) PROVE FormsInv'
  <2>1. m # Null
    BY ModelsAssumption
  <2>2. RequestsOK' /\ SavedOK' /\ Kept
    BY <1>5, <2>1, SendKeeps DEF AddModel, tab, SentOK
  <2> QED
    BY <1>5, <2>2, ElsewhereKeeps DEF AddModel, tab, tables
<1>6. ASSUME SetOpen PROVE FormsInv'
  BY <1>6, ElsewhereKeeps, KeptWhileUnchanged DEF SetOpen, tables, RequestsOK, SavedOK
<1>7. ASSUME NEW what, SubmitDialog(what) PROVE FormsInv'
  <2>1. RequestsOK' /\ SavedOK' /\ Kept
    BY <1>7, SendKeeps
    DEF SubmitDialog, NewTrunkDialog, NewWebhookEndpointDialog, NewCallDialog, SentOK
  <2> QED
    BY <1>7, <2>1, ElsewhereKeeps DEF SubmitDialog, tables
<1>8. ASSUME NEW valid \in BOOLEAN, SubmitLogin(valid) PROVE FormsInv'
  <2>1. RequestsOK' /\ SavedOK' /\ Kept
    BY <1>8, SendKeeps DEF SubmitLogin, tab, SentOK
  <2> QED
    BY <1>8, <2>1, ElsewhereKeeps DEF SubmitLogin, tab, tables
<1>9. ASSUME NEW name, Toggle(name) PROVE FormsInv'
  <2>1. RequestsOK' /\ SavedOK' /\ Kept
    BY <1>9, SendKeeps DEF Toggle, TrunkActiveToggle, WebhookEndpointEnabledToggle, SentOK
  <2> QED
    BY <1>9, <2>1, ElsewhereKeeps DEF Toggle, tables
<1>10. ASSUME NEW k, SaveRate(k) PROVE FormsInv'
  <2>1. RequestsOK' /\ SavedOK' /\ Kept
    BY <1>10, SendKeeps, KeptWhileUnchanged DEF SaveRate, SentOK, RequestsOK, SavedOK
  <2> QED
    BY <1>10, <2>1, ElsewhereKeeps DEF SaveRate, tables
<1>11. ASSUME NEW k, NEW text, TypeRate(k, text) PROVE FormsInv'
  BY <1>11, ElsewhereKeeps, KeptWhileUnchanged DEF TypeRate, tables, RequestsOK, SavedOK
<1> QED
  BY <1>1, <1>2, <1>3, <1>4, <1>5, <1>6, <1>7, <1>8, <1>9, <1>10, <1>11 DEF UserStep

-----------------------------------------------------------------------------
(* The API.                                                                *)
LEMMA ServeKeeps ==
  ASSUME FormsInv, NEW i \in DOMAIN requests, NEW ok \in BOOLEAN, Serve(requests[i], ok),
         Kept, ok => requests'[i].served, UNCHANGED call
  PROVE  AgentsOK' /\ CallOK'
<1> DEFINE r == requests[i]
<1>1. SentOK(r)
  BY DEF FormsInv, RequestsOK, RequestOK
<1>2. AgentsOK /\ CallOK
  BY DEF FormsInv
<1>s. /\ i \in DOMAIN requests' /\ requests'[i].kind = r.kind
      /\ requests'[i].what = r.what /\ requests'[i].body = r.body
  BY DEF Kept
<1> HIDE DEF r
<1>3. CASE r.kind = "create_agent" /\ CreateAgent(r, ok)
  <2>1. ok => IsRow(Created(r.body)) /\ Fits(Created(r.body))
    BY <1>1, <1>3, CreatedFits DEF CreateAgent, SentOK
  <2>2. AgentsOK'
    BY <1>2, <1>3, <2>1 DEF CreateAgent, AgentsOK, With
  <2>3. call.at # "none" => /\ call.agent \in DOMAIN agents'
                           /\ agents'[call.agent]["voiceMode"] \in ModesSince'
    BY <1>2, <1>3, ModesStay DEF CreateAgent, With, CallOK
  <2> QED
    BY <1>2, <1>3, <2>2, <2>3, CallKeeps DEF CreateAgent
<1>4. CASE r.kind = "update_agent" /\ UpdateAgent(r, ok)
  <2>1. ok => /\ IsRow(Updated(agents[r.what], r.body))
              /\ Fits(Updated(agents[r.what], r.body))
              /\ Updated(agents[r.what], r.body)["voiceMode"] = r.body["voiceMode"]
    BY <1>1, <1>4, UpdatedFits DEF UpdateAgent, SentOK
  <2>2. AgentsOK'
    BY <1>2, <1>4, <2>1 DEF UpdateAgent, AgentsOK, With
  <2>3. ok /\ r.what = call.agent => r.body["voiceMode"] \in ModesSince'
    BY <1>s, <1>4 DEF ModesSince, About
  <2>4. call.at # "none" => /\ call.agent \in DOMAIN agents'
                           /\ agents'[call.agent]["voiceMode"] \in ModesSince'
    BY <1>2, <1>4, <2>1, <2>3, ModesStay DEF UpdateAgent, With, CallOK
  <2> QED
    BY <1>2, <1>4, <2>2, <2>4, CallKeeps DEF UpdateAgent
<1>5. CASE UNCHANGED agents /\ called \subseteq called'
  BY <1>2, <1>5, CallKeeps DEF AgentsOK
<1> QED
  BY <1>3, <1>4, <1>5
  DEF Serve, AddModelOption, CreateTrunk, CreateEndpoint, InsertRow, UpdateTrunk,
      UpdateEndpoint, SetActive, UpsertPrice, StartCall, tables, r

LEMMA NetworkKeeps ==
  ASSUME FormsInv, NEW i \in DOMAIN requests,
         Arrive(i) \/ Redirected(i) \/ Login(i) \/ LoseRequest(i) \/ LoseAnswer(i)
  PROVE  FormsInv'
<1> USE DEF FormsInv
<1>0. requests[i].kind = "login" => requests[i].body \in BOOLEAN
  BY DEF RequestsOK, RequestOK, SentOK
<1>1. CASE Arrive(i)
  <2>1. PICK ok \in BOOLEAN :
          Serve(requests[i], ok) /\ Answered(i, IF ok THEN "ok" ELSE "refused", ok)
    BY <1>1 DEF Arrive
  <2>2. /\ requests[i].at # "over" /\ UNCHANGED <<editors, saved, call>>
    BY <1>1 DEF Arrive, tab
  <2>3. RequestsOK' /\ SavedOK' /\ Kept
    BY <2>1, <2>2, AnswerKeeps
  <2>4. ok => requests'[i].served
    <3> DEFINE q == [requests[i] EXCEPT !.at = "answered", !.answer = "ok", !.served = @ \/ TRUE]
    <3>1. ok => requests' = [requests EXCEPT ![i] = q]
      BY <2>1 DEF Answered
    <3>2. q.served = TRUE
      BY DEF RequestsOK, RequestOK
    <3> HIDE DEF q
    <3> QED
      BY <3>1, <3>2, ExceptIsSeq DEF RequestsOK
  <2>5. AgentsOK' /\ CallOK'
    BY <2>1, <2>2, <2>3, <2>4, ServeKeeps
  <2> QED
    BY <2>2, <2>3, <2>5 DEF EditorsOK
<1>2. CASE Redirected(i)
  <2>1. RequestsOK' /\ SavedOK' /\ Kept
    BY <1>2, AnswerKeeps DEF Redirected, tab
  <2> QED
    BY <1>2, <2>1, ElsewhereKeeps DEF Redirected, tab, tables
<1>3. CASE Login(i)
  <2>1. RequestsOK' /\ SavedOK' /\ Kept
    BY <1>0, <1>3, AnswerKeeps DEF Login, tab
  <2> QED
    BY <1>3, <2>1, ElsewhereKeeps DEF Login, tab, tables
<1>4. CASE LoseRequest(i)
  <2>1. RequestsOK' /\ SavedOK' /\ Kept
    BY <1>4, AnswerKeeps DEF LoseRequest, tab
  <2> QED
    BY <1>4, <2>1, ElsewhereKeeps DEF LoseRequest, tab, tables
<1>5. CASE LoseAnswer(i)
  <2>1. RequestsOK' /\ SavedOK' /\ Kept
    BY <1>5, AnswerKeeps DEF LoseAnswer, tab
  <2> QED
    BY <1>5, <2>1, ElsewhereKeeps DEF LoseAnswer, tab, tables
<1> QED
  BY <1>1, <1>2, <1>3, <1>4, <1>5

(* A handler goes on with an answer.                                       *)
LEMMA HandlerKeeps ==
  ASSUME FormsInv, NEW i \in DOMAIN requests, Answer(i)
  PROVE  FormsInv'
<1> USE DEF FormsInv
<1> DEFINE r == requests[i]
<1>1. Over(i) /\ UNCHANGED <<agents, called, call>>
  BY DEF Answer, tables
<1>2. SentOK(r)
  BY DEF RequestsOK, RequestOK
<1>3. CASE r.kind \in {"create_agent", "update_agent"} /\ AgentAnswered(i)
  <2>1. RequestsOK' /\ SavedOK' /\ Kept
    BY <1>1, <1>3, OverKeeps DEF AgentAnswered, ResponseOk
  <2>2. r.from \in Tabs
    BY <1>2, <1>3 DEF SentOK
  <2>3. EditorsOK'
    BY <1>3, <2>2, FormsOfRows DEF AgentAnswered, EditorsOK, Closed
  <2> QED
    BY <1>1, <2>1, <2>3, EditorKeeps
<1>4. CASE r.kind = "model" /\ ModelAnswered(i)
  <2>1. RequestsOK' /\ SavedOK' /\ Kept
    BY <1>1, <1>4, OverKeeps DEF ModelAnswered
  <2>2. r.from \in Tabs /\ r.what # Null /\ r.body \in Columns
    BY <1>2, <1>4 DEF SentOK, Columns, ModeColumns, OptionalColumns
  <2>3. EditorsOK'
    BY <1>4, <2>2 DEF ModelAnswered, EditorsOK, IsForm
  <2> QED
    BY <1>1, <2>1, <2>3, EditorKeeps
<1>5. CASE DialogAnswered(i) \/ LoginAnswered(i) \/ ToggleAnswered(i) \/ RateAnswered(i)
  <2>1. UNCHANGED editors
    BY <1>5 DEF DialogAnswered, LoginAnswered, ToggleAnswered, RateAnswered
  <2>2. \/ saved' = saved
        \/ saved' = saved \cup {i} /\ r.answer \in {"ok", "login"}
    BY <1>5 DEF DialogAnswered, LoginAnswered, ToggleAnswered, RateAnswered, ResponseOk
  <2>3. RequestsOK' /\ SavedOK' /\ Kept
    BY <1>1, <2>2, OverKeeps
  <2> QED
    BY <1>1, <2>1, <2>3, ElsewhereKeeps
<1> QED
  BY <1>3, <1>4, <1>5 DEF Answer

-----------------------------------------------------------------------------
LEMMA DeleteKeeps == ASSUME FormsInv, NEW a \in AgentNames, DeleteAgent(a) PROVE FormsInv'
<1> USE DEF FormsInv
<1>1. RequestsOK' /\ SavedOK' /\ AgentsOK' /\ EditorsOK'
  BY DEF DeleteAgent, tab, RequestsOK, SavedOK, AgentsOK, EditorsOK, Without
<1>2. Kept /\ UNCHANGED <<called, call>>
  BY KeptWhileUnchanged DEF DeleteAgent
<1>3. call.at # "none" => /\ call.agent \in DOMAIN agents'
                         /\ agents'[call.agent]["voiceMode"] \in ModesSince'
  BY <1>2, ModesStay DEF DeleteAgent, Without, CallOK
<1>4. CallOK'
  BY <1>2, <1>3, CallKeeps
<1> QED
  BY <1>1, <1>4

LEMMA MeterKeeps == ASSUME FormsInv, Meter PROVE FormsInv'
<1> USE DEF FormsInv
<1> DEFINE row == agents[call.agent]
<1>1. RequestsOK' /\ SavedOK' /\ AgentsOK' /\ EditorsOK' /\ UNCHANGED <<requests, agents, called>>
  BY DEF Meter, tab, tables, RequestsOK, SavedOK, AgentsOK, EditorsOK
<1>2. call.agent \in DOMAIN agents \cap called /\ row["voiceMode"] \in ModesSince
  BY DEF Meter, CallOK
<1>3. LegsOf(row) = LegsIn(row["voiceMode"])
  BY <1>2, FittingRow DEF AgentsOK
<1> HIDE DEF row
<1>4. PICK usage \in BOOLEAN :
        call' = [call EXCEPT !.at = "metered", !.usage = usage,
                             !.legs = IF usage THEN LegsOf(row) ELSE {}]
  BY DEF Meter, row
<1>5. /\ DOMAIN call' = {"agent", "placed", "at", "usage", "legs"} /\ call'.at = "metered"
      /\ call'.agent = call.agent /\ call'.placed = call.placed
      /\ call'.usage => call'.legs = LegsOf(row)
  BY <1>4 DEF CallOK
<1>6. ModesSince' = ModesSince
  BY <1>1, <1>5 DEF ModesSince, About
<1>7. BilledInOneMode'
  BY <1>2, <1>3, <1>5, <1>6 DEF BilledInOneMode
<1>8. CallOK'
  BY <1>1, <1>2, <1>5, <1>6, <1>7 DEF CallOK, row
<1> QED
  BY <1>1, <1>8

LEMMA StepFormsInv == ASSUME FormsInv, [Next]_vars PROVE FormsInv'
<1>1. ASSUME NEW i \in DOMAIN requests, Progress(i) \/ LoseRequest(i) \/ LoseAnswer(i)
      PROVE  FormsInv'
  BY <1>1, NetworkKeeps, HandlerKeeps DEF Progress
<1>2. CASE EndSession
  BY <1>2, ElsewhereKeeps, KeptWhileUnchanged DEF EndSession, tab, tables, FormsInv, RequestsOK, SavedOK
<1>3. CASE UNCHANGED vars
  BY <1>3, ElsewhereKeeps, KeptWhileUnchanged DEF vars, tab, tables, FormsInv, RequestsOK, SavedOK
<1> QED
  BY <1>1, <1>2, <1>3, UserKeeps, DeleteKeeps, MeterKeeps DEF Next

-----------------------------------------------------------------------------
(* The fields of every agent fit its mode, whatever the tabs save at the   *)
(* same time, whichever answers are lost and whoever deletes agents.       *)
THEOREM AgentsFitTheirMode == Spec => []FieldsFitMode
<1>1. FormsInv => FieldsFitMode
  BY FittingRow DEF FormsInv, AgentsOK, FieldsFitMode
<1> QED
  BY <1>1, InitFormsInv, StepFormsInv, PTL DEF Spec

(* A completed call with usage is billed every leg of one mode that its    *)
(* agent has had since the call was placed, and no other, whatever the tabs*)
(* save meanwhile.                                                         *)
THEOREM CallsAreBilledWhole == Spec => []BilledInOneMode
<1>1. FormsInv => BilledInOneMode
  BY DEF FormsInv, CallOK
<1> QED
  BY <1>1, InitFormsInv, StepFormsInv, PTL DEF Spec

(* A form that is left as saved was served, or its answer was the login    *)
(* page of a session that had ended.                                       *)
THEOREM SavedFormsWereServed == Spec => []SavedMeansServed
<1>1. FormsInv => SavedMeansServed
  BY DEF FormsInv, RequestsOK, RequestOK, SavedOK, SavedMeansServed
<1> QED
  BY <1>1, InitFormsInv, StepFormsInv, PTL DEF Spec

-----------------------------------------------------------------------------
(* The rates.                                                              *)

(* Where a rate may come from.                                             *)
Sources(k) == {InitialPrices[k]} \cup Typed(k)

Sourced(i) ==
  requests[i].what \in PriceKeys /\ Rounded(requests[i].body) \in Sources(requests[i].what)

(* Every rate that is stored, shown or on its way has such a source, once  *)
(* it is rounded.                                                          *)
RatesInv ==
  /\ \A k \in PriceKeys : k \in DOMAIN prices /\ prices[k] \in Sources(k)
  /\ \A i \in DOMAIN requests : requests[i].kind = "price" => Sourced(i)
  /\ DOMAIN rates = {"entries", "drafts", "savingId", "errorId"}
  /\ \A k \in PriceKeys : k \in DOMAIN rates.entries /\ rates.entries[k] \in Sources(k)
  /\ \A k \in DOMAIN rates.drafts : rates.drafts[k] \in Texts

LEMMA InitRatesInv == ASSUME Init PROVE RatesInv
BY DEF Init, RatesInv, PriceKeys, Sources

(* What is rounded stays as it is when it is rounded again, so that a rate *)
(* that is shown may be sent back.                                         *)
LEMMA RoundedOnce == \A n \in Int : Rounded(n) \in Int /\ Rounded(Rounded(n)) = Rounded(n)
<1> TAKE n \in Int
<1>1. PICK m \in Int : m = (n + 5) \div 10
  OBVIOUS
<1>2. (m * 10 + 5) \div 10 = m
  OBVIOUS
<1> QED
  BY <1>1, <1>2 DEF Rounded

LEMMA SourcesAreRounded ==
  ASSUME NEW k \in PriceKeys, NEW n \in Sources(k)
  PROVE  Rounded(n) = n
<1>1. CASE n = InitialPrices[k]
  BY <1>1, PricesAssumption DEF PriceKeys
<1>2. CASE n \in Typed(k)
  <2>1. PICK text \in Texts : n = Rounded(NumberOf[text])
    BY <1>2 DEF Typed
  <2>2. NumberOf[text] \in Int
    BY TextsAssumption
  <2> QED
    BY <2>1, <2>2, RoundedOnce
<1> QED
  BY <1>1, <1>2 DEF Sources

(* The requests change in one of these ways.                               *)
Sent ==
  /\ DOMAIN requests' = DOMAIN requests \cup {NextRequest}
  /\ \A i \in DOMAIN requests : requests'[i] = requests[i]

Moved ==
  /\ DOMAIN requests' = DOMAIN requests
  /\ \A i \in DOMAIN requests :
       /\ requests'[i].kind = requests[i].kind /\ requests'[i].from = requests[i].from
       /\ requests'[i].what = requests[i].what /\ requests'[i].body = requests[i].body

LEMMA SendSends ==
  ASSUME RequestsOK, NEW kind, NEW from, NEW what, NEW body, Send(kind, from, what, body)
  PROVE  /\ Sent
         /\ requests'[NextRequest].kind = kind /\ requests'[NextRequest].from = from
         /\ requests'[NextRequest].what = what /\ requests'[NextRequest].body = body
BY AppendIsSeq DEF Send, RequestsOK, Sent, NextRequest

LEMMA AnswerMoves ==
  ASSUME RequestsOK, NEW i \in DOMAIN requests,
         \/ Over(i)
         \/ \E answer, served : Answered(i, answer, served)
  PROVE  Moved
<1>1. CASE Over(i)
  <2> DEFINE r == [requests[i] EXCEPT !.at = "over"]
  <2>1. requests' = [requests EXCEPT ![i] = r]
    BY <1>1 DEF Over
  <2>2. /\ r.kind = requests[i].kind /\ r.from = requests[i].from
        /\ r.what = requests[i].what /\ r.body = requests[i].body
    BY DEF RequestsOK, RequestOK
  <2> HIDE DEF r
  <2> QED
    BY <2>1, <2>2, ExceptIsSeq DEF RequestsOK, Moved
<1>2. ASSUME NEW answer, NEW served, Answered(i, answer, served) PROVE Moved
  <2> DEFINE r == [requests[i] EXCEPT !.at = "answered", !.answer = answer,
                                      !.served = @ \/ served]
  <2>1. requests' = [requests EXCEPT ![i] = r]
    BY <1>2 DEF Answered
  <2>2. /\ r.kind = requests[i].kind /\ r.from = requests[i].from
        /\ r.what = requests[i].what /\ r.body = requests[i].body
    BY DEF RequestsOK, RequestOK
  <2> HIDE DEF r
  <2> QED
    BY <2>1, <2>2, ExceptIsSeq DEF RequestsOK, Moved
<1> QED
  BY <1>1, <1>2

(* What was typed stays typed.                                             *)
LEMMA SourcesStay ==
  ASSUME Moved \/ Sent \/ UNCHANGED requests
  PROVE  \A k : Sources(k) \subseteq Sources(k)'
<1> TAKE k
<1>1. Typed(k) \subseteq Typed(k)'
  BY DEF Typed, About, Moved, Sent
<1> QED
  BY <1>1 DEF Sources

(* A step that leaves the price editor alone and saves no rate.            *)
LEMMA KeepRates ==
  ASSUME RatesInv, UNCHANGED rates,
         \A k \in PriceKeys : k \in DOMAIN prices' /\ prices'[k] \in Sources(k),
         \/ Moved
         \/ UNCHANGED requests
         \/ Sent /\ requests'[NextRequest].kind # "price"
  PROVE  RatesInv'
<1>1. \A k : Sources(k) \subseteq Sources(k)'
  BY SourcesStay
<1>2. ASSUME NEW i \in DOMAIN requests', requests'[i].kind = "price"
      PROVE  Sourced(i)'
  <2>1. /\ i \in DOMAIN requests /\ requests[i].kind = "price"
        /\ requests[i].what = requests'[i].what /\ requests[i].body = requests'[i].body
    BY <1>2 DEF Moved, Sent
  <2>2. Sourced(i)
    BY <2>1 DEF RatesInv
  <2> QED
    BY <1>1, <2>1, <2>2 DEF Sourced
<1> QED
  BY <1>1, <1>2 DEF RatesInv

LEMMA TypeRateKeeps ==
  ASSUME RatesInv, NEW k \in PriceKeys, NEW text \in Texts, TypeRate(k, text)
  PROVE  RatesInv'
<1>1. /\ UNCHANGED <<requests, prices>>
      /\ rates' = [rates EXCEPT !.drafts = With(rates.drafts, k, text)]
  BY DEF TypeRate, tables
<1>2. \A x : Sources(x)' = Sources(x)
  BY <1>1 DEF Sources, Typed, About
<1>3. /\ DOMAIN rates' = {"entries", "drafts", "savingId", "errorId"}
      /\ rates'.entries = rates.entries
      /\ rates'.drafts = With(rates.drafts, k, text)
  BY <1>1 DEF RatesInv
<1>4. \A x \in DOMAIN rates'.drafts : rates'.drafts[x] \in Texts
  BY <1>3 DEF With, RatesInv
<1> QED
  BY <1>1, <1>2, <1>3, <1>4 DEF RatesInv, Sourced

LEMMA SaveRateKeeps ==
  ASSUME RequestsOK, RatesInv, NEW k \in PriceKeys, SaveRate(k)
  PROVE  RatesInv'
<1>1. /\ UNCHANGED prices
      /\ DOMAIN rates' = {"entries", "drafts", "savingId", "errorId"}
      /\ rates'.entries = rates.entries /\ rates'.drafts = rates.drafts
  BY DEF SaveRate, tables, RatesInv
<1>2. CASE UNCHANGED requests
  <2>1. \A x : Sources(x)' = Sources(x)
    BY <1>2 DEF Sources, Typed, About
  <2> QED
    BY <1>1, <1>2, <2>1 DEF RatesInv, Sourced
<1>3. ASSUME NEW from, NEW body, Send("price", from, k, body),
             \/ Rounded(body) \in Sources(k)
             \/ from \in Texts \ {""} /\ body = NumberOf[from]
      PROVE  RatesInv'
  <2>1. /\ Sent
        /\ requests'[NextRequest].kind = "price" /\ requests'[NextRequest].from = from
        /\ requests'[NextRequest].what = k /\ requests'[NextRequest].body = body
    BY <1>3, SendSends
  <2>2. \A x : Sources(x) \subseteq Sources(x)'
    BY <2>1, SourcesStay
  <2>3. Rounded(body) \in Sources(k)'
    <3>1. from \in Texts \ {""} => Rounded(NumberOf[from]) \in Typed(k)'
      BY <2>1 DEF Sent, Typed, About
    <3> QED
      BY <1>3, <2>2, <3>1 DEF Sources
  <2>4. ASSUME NEW i \in DOMAIN requests', requests'[i].kind = "price"
        PROVE  Sourced(i)'
    <3>1. CASE i = NextRequest
      BY <2>1, <2>3, <3>1 DEF Sourced
    <3>2. CASE i \in DOMAIN requests /\ requests'[i] = requests[i]
      <4>1. Sourced(i)
        BY <2>4, <3>2 DEF RatesInv
      <4> QED
        BY <2>2, <3>2, <4>1 DEF Sourced
    <3> QED
      BY <2>1, <3>1, <3>2 DEF Sent
  <2> QED
    BY <1>1, <2>2, <2>4 DEF RatesInv
<1>4. CASE k \in DOMAIN rates.drafts /\ IsRate(rates.drafts[k])
  <2>1. Send("price", rates.drafts[k], k, NumberOf[rates.drafts[k]])
    BY <1>4 DEF SaveRate
  <2>2. rates.drafts[k] \in Texts \ {""}
    BY <1>4 DEF RatesInv, IsRate
  <2> QED
    BY <2>1, <2>2, <1>3
<1>5. CASE k \notin DOMAIN rates.drafts
  <2>1. Send("price", None, k, rates.entries[k])
    BY <1>5 DEF SaveRate
  <2>2. Rounded(rates.entries[k]) \in Sources(k)
    BY SourcesAreRounded DEF RatesInv
  <2> QED
    BY <2>1, <2>2, <1>3
<1>6. CASE k \in DOMAIN rates.drafts /\ ~IsRate(rates.drafts[k])
  BY <1>2, <1>6 DEF SaveRate
<1> QED
  BY <1>4, <1>5, <1>6

LEMMA UserKeepsRates ==
  ASSUME RequestsOK, RatesInv, UserStep
  PROVE  RatesInv'
<1>1. UNCHANGED prices
  BY DEF UserStep, OpenEditor, EditForm, AddModel, SubmitAgent, LeaveEditor, SetOpen,
         SubmitDialog, SubmitLogin, Toggle, SaveRate, TypeRate, tables
<1>p. \A k \in PriceKeys : k \in DOMAIN prices' /\ prices'[k] \in Sources(k)
  BY <1>1 DEF RatesInv
<1>2. ASSUME NEW kind, NEW from, NEW what, NEW body, Send(kind, from, what, body),
             kind # "price", UNCHANGED rates
      PROVE  RatesInv'
  BY <1>2, <1>p, SendSends, KeepRates
<1>3. ASSUME NEW t \in Tabs, NEW a, NEW edit,
             OpenEditor(t, a) \/ EditForm(t, edit) \/ LeaveEditor(t)
      PROVE  RatesInv'
  <2>1. UNCHANGED <<requests, rates>>
    BY <1>3 DEF OpenEditor, EditForm, LeaveEditor, SetOpen
  <2> QED
    BY <2>1, <1>p, KeepRates
<1>3a. ASSUME SetOpen PROVE RatesInv'
  <2>1. UNCHANGED <<requests, rates>>
    BY <1>3a DEF SetOpen
  <2> QED
    BY <2>1, <1>p, KeepRates
<1>4. ASSUME NEW t \in Tabs, NEW m, AddModel(t, m) PROVE RatesInv'
  BY <1>4, <1>2 DEF AddModel, tab
<1>5. ASSUME NEW t \in Tabs, SubmitAgent(t) PROVE RatesInv'
  BY <1>5, <1>2 DEF SubmitAgent
<1>6. ASSUME NEW what, SubmitDialog(what) PROVE RatesInv'
  BY <1>6, <1>2 DEF SubmitDialog, NewTrunkDialog, NewWebhookEndpointDialog, NewCallDialog
<1>7. ASSUME NEW valid, SubmitLogin(valid) PROVE RatesInv'
  BY <1>7, <1>2 DEF SubmitLogin, tab
<1>8. ASSUME NEW name, Toggle(name) PROVE RatesInv'
  BY <1>8, <1>2 DEF Toggle, TrunkActiveToggle, WebhookEndpointEnabledToggle
<1> QED
  BY <1>3, <1>3a, <1>4, <1>5, <1>6, <1>7, <1>8, TypeRateKeeps, SaveRateKeeps
  DEF UserStep

(* An answer: a rate the API has served is the row's from now on.          *)
LEMMA AnswerKeepsRates ==
  ASSUME RequestsOK, RatesInv, NEW i \in DOMAIN requests, Answer(i)
  PROVE  RatesInv'
<1>1. UNCHANGED prices /\ Moved
  BY AnswerMoves DEF Answer, tables
<1>2. CASE UNCHANGED rates
  BY <1>1, <1>2, KeepRates DEF RatesInv
<1>3. CASE requests[i].kind = "price" /\ RateAnswered(i)
  <2>1. PICK key, stored : key = requests[i].what /\ stored = Rounded(requests[i].body)
    OBVIOUS
  <2>2. /\ DOMAIN rates' = {"entries", "drafts", "savingId", "errorId"}
        /\ \/ rates'.entries = [rates.entries EXCEPT ![key] = stored]
           \/ rates'.entries = rates.entries
        /\ \/ rates'.drafts = Without(rates.drafts, key)
           \/ rates'.drafts = rates.drafts
    BY <1>3, <2>1 DEF RateAnswered, RatesInv
  <2>3. key \in PriceKeys /\ stored \in Sources(key)
    BY <1>3, <2>1 DEF RatesInv, Sourced
  <2>4. \A k : Sources(k) \subseteq Sources(k)'
    BY <1>1, SourcesStay
  <2>5. ASSUME NEW j \in DOMAIN requests', requests'[j].kind = "price"
        PROVE  Sourced(j)'
    <3>1. /\ j \in DOMAIN requests /\ requests[j].kind = "price"
          /\ requests[j].what = requests'[j].what /\ requests[j].body = requests'[j].body
      BY <1>1, <2>5 DEF Moved
    <3>2. Sourced(j)
      BY <3>1 DEF RatesInv
    <3> QED
      BY <2>4, <3>1, <3>2 DEF Sourced
  <2>6. \A k \in PriceKeys : k \in DOMAIN rates'.entries /\ rates'.entries[k] \in Sources(k)
    BY <2>2, <2>3 DEF RatesInv
  <2>7. \A k \in DOMAIN rates'.drafts : rates'.drafts[k] \in Texts
    BY <2>2 DEF Without, RatesInv
  <2> QED
    BY <1>1, <2>2, <2>4, <2>5, <2>6, <2>7 DEF RatesInv
<1> QED
  BY <1>1, <1>2, <1>3
  DEF Answer, AgentAnswered, ModelAnswered, DialogAnswered, LoginAnswered, ToggleAnswered

(* The API serves a request, of which a rate may be one.                   *)
LEMMA ArriveKeepsRates ==
  ASSUME RequestsOK, RatesInv, NEW i \in DOMAIN requests, Arrive(i)
  PROVE  RatesInv'
<1>1. UNCHANGED rates /\ Moved
  BY AnswerMoves DEF Arrive, tab
<1>2. CASE UNCHANGED prices
  BY <1>1, <1>2, KeepRates DEF RatesInv
<1>3. CASE /\ requests[i].kind = "price"
           /\ prices' = With(prices, requests[i].what, Rounded(requests[i].body))
  <2>1. PICK key, stored : key = requests[i].what /\ stored = Rounded(requests[i].body)
    OBVIOUS
  <2>2. stored \in Sources(key)
    BY <1>3, <2>1 DEF RatesInv, Sourced
  <2>3. \A k \in PriceKeys : k \in DOMAIN prices' /\ prices'[k] \in Sources(k)
    BY <1>3, <2>1, <2>2 DEF With, RatesInv
  <2> QED
    BY <1>1, <2>3, KeepRates
<1> QED
  BY <1>2, <1>3
  DEF Arrive, Serve, CreateAgent, UpdateAgent, AddModelOption, CreateTrunk, CreateEndpoint,
      InsertRow, UpdateTrunk, UpdateEndpoint, SetActive, UpsertPrice, StartCall, tables

LEMMA StepKeepsRates == ASSUME FormsInv, RatesInv, [Next]_vars PROVE RatesInv'
<1>0. RequestsOK
  BY DEF FormsInv
<1>1. CASE UserStep
  BY <1>0, <1>1, UserKeepsRates
<1>2. ASSUME NEW i \in DOMAIN requests, Redirected(i) \/ Login(i) \/ LoseRequest(i) \/ LoseAnswer(i)
      PROVE  RatesInv'
  <2>1. UNCHANGED <<rates, prices>> /\ Moved
    BY <1>0, <1>2, AnswerMoves DEF Redirected, Login, LoseRequest, LoseAnswer, tables, tab
  <2> QED
    BY <2>1, KeepRates DEF RatesInv
<1>3. CASE EndSession \/ (\E a \in AgentNames : DeleteAgent(a)) \/ Meter \/ UNCHANGED vars
  <2>1. UNCHANGED <<requests, rates, prices>>
    BY <1>3 DEF EndSession, DeleteAgent, Meter, vars, tables, tab
  <2> QED
    BY <2>1, KeepRates DEF RatesInv
<1> QED
  BY <1>0, <1>1, <1>2, <1>3, ArriveKeepsRates, AnswerKeepsRates DEF Next, Progress

(* Each rate is the initial one, or what somebody typed into its row, to   *)
(* six digits: an emptied field makes none 0, and a page that sends back an*)
(* older rate none that was never there (price-table-editor.tsx:23-66).    *)
THEOREM EveryRateWasTyped == Spec => []RatesWereTyped
<1>1. RatesInv => RatesWereTyped
  BY DEF RatesInv, RatesWereTyped, Sources
<1>2. Init => FormsInv /\ RatesInv
  BY InitFormsInv, InitRatesInv
<1>3. FormsInv /\ RatesInv /\ [Next]_vars => FormsInv' /\ RatesInv'
  BY StepFormsInv, StepKeepsRates
<1> QED
  BY <1>1, <1>2, <1>3, PTL DEF Spec

-----------------------------------------------------------------------------
(* What the page shows and what is in the tables.                          *)

(* Of the changes made to a row or a rate, none has ended without telling. *)
AllTold(kind, what) == \A i \in About(kind, what) : InFlight(i) \/ Known(requests[i])

(* A switch is what is in the table, or waits for a change that the table  *)
(* has had or has not.                                                     *)
SwitchFollows(name) ==
  LET shown == switches[name].checked
      waits == switches[name].waits
  IN \/ waits = 0 /\ shown = rows[name]
     \/ /\ waits \in About("update_row", name) /\ InFlight(waits)
        /\ shown = requests[waits].body
        /\ rows[name] = IF requests[waits].served THEN shown ELSE ~shown

SwitchesInv ==
  /\ DOMAIN switches \subseteq DOMAIN rows
  /\ \A name \in DOMAIN rows : rows[name] \in BOOLEAN
  /\ \A name \in DOMAIN switches : /\ DOMAIN switches[name] = {"checked", "waits"}
                                  /\ switches[name].checked \in BOOLEAN
  /\ \A i \in DOMAIN requests : requests[i].kind = "update_row" =>
       /\ requests[i].body \in BOOLEAN /\ requests[i].what \in DOMAIN switches
       /\ InFlight(i) => switches[requests[i].what].waits = i
  /\ \A name \in DOMAIN switches : AllTold("update_row", name) => SwitchFollows(name)

(* A rate is what is in the table, unless the table is a served change     *)
(* ahead.                                                                  *)
RateFollows(k) ==
  \/ /\ rates.entries[k] = prices[k]
     /\ \A i \in About("price", k) : InFlight(i) => ~requests[i].served
  \/ \E i \in About("price", k) :
       InFlight(i) /\ requests[i].served /\ prices[k] = Rounded(requests[i].body)

(* A change sent alone finds every earlier one over, for ever.             *)
AloneMeansAlone ==
  \A i, j \in DOMAIN requests :
    /\ i < j /\ requests[i].kind = "price" /\ requests[j].kind = "price"
    /\ requests[i].what = requests[j].what /\ requests[j].alone
    => ~InFlight(i)

AllAlone(k) == \A i \in About("price", k) : requests[i].alone

EntriesInv ==
  /\ PriceKeys \subseteq DOMAIN prices
  /\ DOMAIN rates = {"entries", "drafts", "savingId", "errorId"}
  /\ PriceKeys \subseteq DOMAIN rates.entries
  /\ \A i \in DOMAIN requests : requests[i].kind = "price" => requests[i].what \in PriceKeys
  /\ AloneMeansAlone
  /\ \A k \in PriceKeys : AllAlone(k) /\ AllTold("price", k) => RateFollows(k)
LEMMA InitShownInv == ASSUME Init PROVE SwitchesInv /\ EntriesInv
<1>1. SwitchesInv
  BY RowsAssumption DEF Init, SwitchesInv, SwitchFollows
<1>2. EntriesInv
  BY DEF Init, EntriesInv, PriceKeys, AloneMeansAlone, RateFollows, About
<1> QED
  BY <1>1, <1>2

(* What a step does to the requests.                                       *)
LEMMA SendAddsOne ==
  ASSUME RequestsOK, NEW kind, NEW from, NEW what, NEW body, Send(kind, from, what, body)
  PROVE  LET n == NextRequest
         IN  /\ n \in Nat \ {0} /\ n \notin DOMAIN requests
             /\ DOMAIN requests \subseteq 1..(n-1) /\ DOMAIN requests' = DOMAIN requests \cup {n}
             /\ \A i \in DOMAIN requests : requests'[i] = requests[i]
             /\ requests'[n].kind = kind /\ requests'[n].what = what /\ requests'[n].body = body
             /\ requests'[n].at = "sent" /\ requests'[n].served = FALSE
             /\ requests'[n].alone => \A i \in About(kind, what) : ~InFlight(i)
<1>1. Len(requests) \in Nat /\ DOMAIN requests = 1..Len(requests)
  BY DEF RequestsOK, IsSeq
<1> DEFINE none == \A i \in DOMAIN requests :
                      requests[i].kind = kind /\ requests[i].what = what => ~InFlight(i)
           r == [kind |-> kind, from |-> from, what |-> what, body |-> body, at |-> "sent",
                 answer |-> None, served |-> FALSE, alone |-> none]
<1>2. requests' = Append(requests, r)
  BY DEF Send
<1>3. /\ r.kind = kind /\ r.what = what /\ r.body = body
      /\ r.at = "sent" /\ r.served = FALSE /\ r.alone = none
  OBVIOUS
<1> HIDE DEF r
<1>4. /\ DOMAIN requests' = DOMAIN requests \cup {NextRequest}
      /\ \A i \in DOMAIN requests : requests'[i] = requests[i]
      /\ requests'[NextRequest] = r
  BY <1>2, AppendIsSeq DEF RequestsOK, NextRequest
<1>5. none => \A i \in About(kind, what) : ~InFlight(i)
  BY DEF About
<1>6. NextRequest = Len(requests) + 1
  BY DEF NextRequest
<1> HIDE DEF none, NextRequest
<1> QED
  BY <1>1, <1>3, <1>4, <1>5, <1>6

(* Of request i only this changes.                                         *)
OnlyAt(i, at, answer, served) ==
  /\ DOMAIN requests' = DOMAIN requests
  /\ \A j \in DOMAIN requests : j # i => requests'[j] = requests[j]
  /\ requests'[i].kind = requests[i].kind /\ requests'[i].what = requests[i].what
  /\ requests'[i].body = requests[i].body /\ requests'[i].alone = requests[i].alone
  /\ requests'[i].at = at /\ requests'[i].answer = answer /\ requests'[i].served = served

LEMMA AnsweredIs ==
  ASSUME RequestsOK, NEW i \in DOMAIN requests, NEW answer, NEW served \in BOOLEAN,
         Answered(i, answer, served)
  PROVE  OnlyAt(i, "answered", answer, requests[i].served \/ served)
<1> DEFINE r == [requests[i] EXCEPT !.at = "answered", !.answer = answer,
                                    !.served = @ \/ served]
<1>1. requests' = [requests EXCEPT ![i] = r]
  BY DEF Answered
<1>2. /\ r.kind = requests[i].kind /\ r.what = requests[i].what /\ r.body = requests[i].body
      /\ r.alone = requests[i].alone /\ r.at = "answered" /\ r.answer = answer
      /\ r.served = (requests[i].served \/ served)
  BY DEF RequestsOK, RequestOK
<1> HIDE DEF r
<1> QED
  BY <1>1, <1>2, ExceptIsSeq DEF RequestsOK, OnlyAt

LEMMA OverIs ==
  ASSUME RequestsOK, NEW i \in DOMAIN requests, Over(i)
  PROVE  OnlyAt(i, "over", requests[i].answer, requests[i].served)
<1> DEFINE r == [requests[i] EXCEPT !.at = "over"]
<1>1. requests' = [requests EXCEPT ![i] = r]
  BY DEF Over
<1>2. /\ r.kind = requests[i].kind /\ r.what = requests[i].what /\ r.body = requests[i].body
      /\ r.alone = requests[i].alone /\ r.at = "over" /\ r.answer = requests[i].answer
      /\ r.served = requests[i].served
  BY DEF RequestsOK, RequestOK
<1> HIDE DEF r
<1> QED
  BY <1>1, <1>2, ExceptIsSeq DEF RequestsOK, OnlyAt

(* No change of this kind is sent, is served or ends.                      *)
NoneOf(kind) ==
  /\ DOMAIN requests \subseteq DOMAIN requests'
  /\ \A i \in DOMAIN requests' : requests'[i].kind = kind =>
       /\ i \in DOMAIN requests /\ requests[i].kind = kind
       /\ requests'[i].what = requests[i].what /\ requests'[i].body = requests[i].body
       /\ requests'[i].alone = requests[i].alone /\ requests'[i].served = requests[i].served
       /\ InFlight(i)' <=> InFlight(i)
       /\ ~InFlight(i) => requests'[i] = requests[i]
  /\ \A i \in DOMAIN requests : requests'[i].kind = requests[i].kind

LEMMA NoneWhileSending ==
  ASSUME RequestsOK, NEW kind, NEW from, NEW what, NEW body, Send(kind, from, what, body),
         NEW other, other # kind
  PROVE  NoneOf(other)
BY SendAddsOne DEF NoneOf, InFlight

LEMMA NoneWhileUnchanged == ASSUME UNCHANGED requests, NEW kind PROVE NoneOf(kind)
BY DEF NoneOf, InFlight

LEMMA NoneWhileAnswered ==
  ASSUME RequestsOK, NEW i \in DOMAIN requests, requests[i].at # "over",
         NEW answer, NEW served \in BOOLEAN, Answered(i, answer, served),
         NEW kind, ~served \/ requests[i].kind # kind
  PROVE  NoneOf(kind)
<1>1. OnlyAt(i, "answered", answer, requests[i].served \/ served)
  BY AnsweredIs
<1>2. requests[i].kind = kind => (requests[i].served \/ served) = requests[i].served
  BY DEF RequestsOK, RequestOK
<1>3. "answered" # "over"
  OBVIOUS
<1> QED
  BY <1>1, <1>2, <1>3 DEF OnlyAt, NoneOf, InFlight

LEMMA NoneWhileOver ==
  ASSUME RequestsOK, NEW i \in DOMAIN requests, Over(i), NEW kind, requests[i].kind # kind
  PROVE  NoneOf(kind)
BY OverIs DEF OnlyAt, NoneOf, InFlight

(* Then the requests say the same of each row and rate.                    *)
LEMMA SameAbout ==
  ASSUME NEW kind, NoneOf(kind), NEW what
  PROVE  /\ About(kind, what)' = About(kind, what)
         /\ AllTold(kind, what)' => AllTold(kind, what)
<1>1. About(kind, what)' = About(kind, what)
  BY DEF About, NoneOf
<1>2. ASSUME AllTold(kind, what)' PROVE AllTold(kind, what)
  <2> SUFFICES ASSUME NEW i \in About(kind, what) PROVE InFlight(i) \/ Known(requests[i])
    BY DEF AllTold
  <2>1. InFlight(i)' \/ Known(requests'[i])
    BY <1>1, <1>2 DEF AllTold
  <2>2. i \in DOMAIN requests' /\ requests'[i].kind = kind
    BY <1>1 DEF About
  <2>3. (InFlight(i)' <=> InFlight(i)) /\ (~InFlight(i) => requests'[i] = requests[i])
    BY <2>2 DEF NoneOf
  <2> QED
    BY <2>1, <2>3
<1> QED
  BY <1>1, <1>2

-----------------------------------------------------------------------------
(* The switches.                                                           *)

(* A step that changes no switch there is, nor its row.                    *)
LEMMA KeepSwitches ==
  ASSUME SwitchesInv, NoneOf("update_row"),
         DOMAIN rows \subseteq DOMAIN rows', \A name \in DOMAIN rows' : rows'[name] \in BOOLEAN,
         \A name \in DOMAIN switches : rows'[name] = rows[name],
         \/ switches' = switches
         \/ switches' = Refreshed(switches) /\ rows' = rows
  PROVE  SwitchesInv'
<1>1. /\ DOMAIN switches \subseteq DOMAIN switches'
      /\ \A name \in DOMAIN switches : switches'[name] = switches[name]
      /\ \A name \in DOMAIN switches' \ DOMAIN switches :
           name \in DOMAIN rows' /\ switches'[name] = [checked |-> rows'[name], waits |-> 0]
  BY DEF Refreshed, SwitchOf, SwitchesInv
<1>2. DOMAIN switches' \subseteq DOMAIN rows'
  BY <1>1 DEF SwitchesInv
<1>3. \A name \in DOMAIN switches' : /\ DOMAIN switches'[name] = {"checked", "waits"}
                                   /\ switches'[name].checked \in BOOLEAN
  BY <1>1 DEF SwitchesInv
<1>4. \A i \in DOMAIN requests' : requests'[i].kind = "update_row" =>
        /\ requests'[i].body \in BOOLEAN /\ requests'[i].what \in DOMAIN switches'
        /\ InFlight(i)' => switches'[requests'[i].what].waits = i
  BY <1>1 DEF NoneOf, SwitchesInv
<1>5. ASSUME NEW name \in DOMAIN switches', AllTold("update_row", name)' PROVE SwitchFollows(name)'
  <2>1. CASE name \notin DOMAIN switches
    BY <1>1, <2>1 DEF SwitchFollows
  <2>2. CASE name \in DOMAIN switches
    <3>1. SwitchFollows(name) /\ switches'[name] = switches[name] /\ rows'[name] = rows[name]
      BY <1>1, <1>5, <2>2, SameAbout DEF SwitchesInv
    <3>2. About("update_row", name)' = About("update_row", name)
      BY SameAbout
    <3>3. ASSUME NEW i \in About("update_row", name), InFlight(i)
          PROVE  /\ InFlight(i)' /\ requests'[i].body = requests[i].body
                 /\ requests'[i].served = requests[i].served
      <4>1. i \in DOMAIN requests' /\ requests'[i].kind = "update_row"
        BY <3>2 DEF About
      <4> QED
        BY <3>3, <4>1 DEF NoneOf
    <3> QED
      BY <3>1, <3>2, <3>3 DEF SwitchFollows
  <2> QED
    BY <2>1, <2>2
<1> QED
  BY <1>2, <1>3, <1>4, <1>5 DEF SwitchesInv

(* Of the other switches and their requests nothing changes.               *)
LEMMA OthersFollow ==
  ASSUME NEW name \in DOMAIN switches, AllTold("update_row", name) => SwitchFollows(name),
         DOMAIN requests \subseteq DOMAIN requests',
         \A i \in DOMAIN requests' : requests'[i].kind = "update_row" /\ requests'[i].what = name =>
           i \in DOMAIN requests /\ requests'[i] = requests[i],
         \A i \in DOMAIN requests : requests[i].kind = "update_row" /\ requests[i].what = name =>
           requests'[i] = requests[i],
         switches'[name] = switches[name], rows'[name] = rows[name],
         AllTold("update_row", name)'
  PROVE  SwitchFollows(name)'
<1>1. About("update_row", name)' = About("update_row", name)
  BY DEF About
<1>2. \A i \in About("update_row", name) : requests'[i] = requests[i]
  BY DEF About
<1>3. AllTold("update_row", name)
  BY <1>1, <1>2 DEF AllTold, InFlight
<1> QED
  BY <1>1, <1>2, <1>3 DEF SwitchFollows, InFlight

LEMMA ToggleFollows ==
  ASSUME RequestsOK, SwitchesInv, NEW name, Toggle(name)
  PROVE  SwitchesInv'
<1>0. PICK n, body : n = NextRequest /\ body = ~switches[name].checked
  OBVIOUS
<1>1. /\ name \in DOMAIN switches /\ switches[name].waits = 0 /\ rows' = rows
      /\ switches' = [switches EXCEPT ![name].checked = body, ![name].waits = n]
  BY <1>0 DEF Toggle, tables
<1>2. PICK from : Send("update_row", from, name, body)
  BY <1>0 DEF Toggle, TrunkActiveToggle, WebhookEndpointEnabledToggle
<1>3. /\ n \in Nat \ {0} /\ n \notin DOMAIN requests
      /\ DOMAIN requests' = DOMAIN requests \cup {n}
      /\ \A i \in DOMAIN requests : requests'[i] = requests[i]
      /\ requests'[n].kind = "update_row" /\ requests'[n].what = name
      /\ requests'[n].body = body /\ requests'[n].at = "sent" /\ requests'[n].served = FALSE
  BY <1>0, <1>2, SendAddsOne
<1>4. body \in BOOLEAN /\ DOMAIN switches[name] = {"checked", "waits"}
  BY <1>0, <1>1 DEF SwitchesInv
<1>5. ~body = switches[name].checked
  BY <1>0, <1>1 DEF SwitchesInv
<1>6. /\ DOMAIN switches' = DOMAIN switches
      /\ \A other \in DOMAIN switches : other # name => switches'[other] = switches[other]
      /\ switches'[name].checked = body /\ switches'[name].waits = n
      /\ DOMAIN switches'[name] = {"checked", "waits"}
  BY <1>1, <1>4
<1>7. ASSUME NEW i \in DOMAIN requests', requests'[i].kind = "update_row"
      PROVE  /\ requests'[i].body \in BOOLEAN /\ requests'[i].what \in DOMAIN switches'
             /\ InFlight(i)' => switches'[requests'[i].what].waits = i
  <2>1. CASE i = n
    BY <1>1, <1>3, <1>4, <1>6, <2>1
  <2>2. CASE i # n
    <3>1. i \in DOMAIN requests /\ requests'[i] = requests[i] /\ i # 0
      BY <1>3, <2>2 DEF RequestsOK, IsSeq
    <3>2. /\ requests[i].body \in BOOLEAN /\ requests[i].what \in DOMAIN switches
          /\ InFlight(i) => switches[requests[i].what].waits = i
      BY <1>7, <3>1 DEF SwitchesInv
    <3>3. InFlight(i)' => InFlight(i)
      BY <3>1 DEF InFlight
    <3> QED
      BY <1>1, <1>6, <3>1, <3>2, <3>3
  <2> QED
    BY <2>1, <2>2
<1>8. ASSUME NEW other \in DOMAIN switches, AllTold("update_row", other)'
      PROVE  SwitchFollows(other)'
  <2>1. CASE other # name
    BY <1>1, <1>3, <1>6, <1>8, <2>1, OthersFollow DEF SwitchesInv
  <2>2. CASE other = name
    <3>1. About("update_row", name)' = About("update_row", name) \cup {n}
      BY <1>3 DEF About
    <3>2. AllTold("update_row", name)
      BY <1>3, <1>8, <2>2, <3>1 DEF AllTold, About, InFlight
    <3>3. rows[name] = switches[name].checked
      <4>1. SwitchFollows(name)
        BY <1>1, <3>2 DEF SwitchesInv
      <4>2. 0 \notin About("update_row", name)
        BY DEF About, RequestsOK, IsSeq
      <4> QED
        BY <1>1, <4>1, <4>2 DEF SwitchFollows
    <3>4. InFlight(n)' /\ n \in About("update_row", name)'
      BY <1>3, <3>1 DEF InFlight
    <3> QED
      BY <1>1, <1>3, <1>5, <1>6, <2>2, <3>3, <3>4 DEF SwitchFollows
  <2> QED
    BY <2>1, <2>2
<1> QED
  BY <1>1, <1>4, <1>6, <1>7, <1>8 DEF SwitchesInv

(* The API sets the row of a switch that waits for it.                     *)
LEMMA SetActiveFollows ==
  ASSUME RequestsOK, SwitchesInv, NEW i \in DOMAIN requests, requests[i].at = "sent",
         requests[i].kind = "update_row", requests[i].what \in DOMAIN rows,
         OnlyAt(i, "answered", "ok", TRUE),
         rows' = With(rows, requests[i].what, requests[i].body), UNCHANGED switches
  PROVE  SwitchesInv'
<1>0. PICK name, body : name = requests[i].what /\ body = requests[i].body
  OBVIOUS
<1>1. /\ body \in BOOLEAN /\ name \in DOMAIN switches /\ switches[name].waits = i /\ i # 0
      /\ InFlight(i)
  BY <1>0 DEF SwitchesInv, InFlight, RequestsOK, IsSeq
<1>2. /\ DOMAIN rows' = DOMAIN rows /\ rows'[name] = body
      /\ \A other \in DOMAIN rows : other # name => rows'[other] = rows[other]
  BY <1>0 DEF With
<1>3. /\ DOMAIN requests' = DOMAIN requests
      /\ \A j \in DOMAIN requests : /\ requests'[j].kind = requests[j].kind
                                  /\ requests'[j].what = requests[j].what
                                  /\ requests'[j].body = requests[j].body
                                  /\ InFlight(j)' <=> InFlight(j)
                                  /\ ~InFlight(j) => requests'[j] = requests[j]
      /\ \A j \in DOMAIN requests : j # i => requests'[j] = requests[j]
      /\ requests'[i].served = TRUE
  BY DEF OnlyAt, InFlight
<1>4. ASSUME NEW j \in DOMAIN requests', requests'[j].kind = "update_row"
      PROVE  /\ requests'[j].body \in BOOLEAN /\ requests'[j].what \in DOMAIN switches'
             /\ InFlight(j)' => switches'[requests'[j].what].waits = j
  <2>1. /\ j \in DOMAIN requests /\ requests[j].kind = "update_row"
        /\ requests'[j].what = requests[j].what /\ requests'[j].body = requests[j].body
        /\ InFlight(j)' => InFlight(j)
    BY <1>3, <1>4 DEF InFlight
  <2>2. /\ requests[j].body \in BOOLEAN /\ requests[j].what \in DOMAIN switches
        /\ InFlight(j) => switches[requests[j].what].waits = j
    BY <2>1 DEF SwitchesInv
  <2> QED
    BY <2>1, <2>2
<1>5. ASSUME NEW other \in DOMAIN switches, AllTold("update_row", other)'
      PROVE  SwitchFollows(other)'
  <2>1. CASE other # name
    BY <1>2, <1>3, <1>5, <2>1, OthersFollow, <1>0 DEF SwitchesInv
  <2>2. CASE other = name
    <3>1. About("update_row", name)' = About("update_row", name) /\ i \in About("update_row", name)
      BY <1>0, <1>3 DEF About
    <3>2. AllTold("update_row", name)
      <4> SUFFICES ASSUME NEW j \in About("update_row", name), ~InFlight(j) PROVE Known(requests[j])
        BY DEF AllTold
      <4>1. j \in DOMAIN requests /\ requests'[j] = requests[j]
        BY <1>3 DEF About, InFlight
      <4>2. ~InFlight(j)'
        BY <4>1 DEF InFlight
      <4> QED
        BY <1>5, <2>2, <3>1, <4>1, <4>2 DEF AllTold
    <3>3. switches[name].checked = body
      BY <1>0, <1>1, <3>2 DEF SwitchesInv, SwitchFollows
    <3>4. /\ switches'[name].waits = i /\ switches'[name].checked = body
          /\ requests'[i].body = body /\ requests'[i].served = TRUE /\ rows'[name] = body
      BY <1>0, <1>1, <1>2, <1>3, <3>3
    <3>5. InFlight(i)'
      BY <1>1, <1>3 DEF InFlight
    <3> QED
      BY <2>2, <3>1, <3>4, <3>5 DEF SwitchFollows
  <2> QED
    BY <2>1, <2>2
<1>6. \A other \in DOMAIN rows' : rows'[other] \in BOOLEAN
  BY <1>1, <1>2 DEF SwitchesInv
<1> QED
  BY <1>2, <1>4, <1>5, <1>6 DEF SwitchesInv

(* The answer of a change: it stays, is taken back, or has not told.       *)
LEMMA ToggleAnsweredFollows ==
  ASSUME RequestsOK, SwitchesInv, NEW i \in DOMAIN requests, requests[i].at = "answered",
         requests[i].kind = "update_row", Over(i), ToggleAnswered(i), UNCHANGED rows
  PROVE  SwitchesInv'
<1>0. PICK name, body, answer, shown :
        /\ name = requests[i].what /\ body = requests[i].body
        /\ answer = requests[i].answer /\ shown = TakenBack(requests[i])
  OBVIOUS
<1>1. /\ body \in BOOLEAN /\ name \in DOMAIN switches /\ switches[name].waits = i
      /\ InFlight(i) /\ DOMAIN switches[name] = {"checked", "waits"}
      /\ switches[name].checked \in BOOLEAN
  BY <1>0 DEF SwitchesInv, InFlight
<1>2. /\ DOMAIN shown = DOMAIN switches
      /\ \A other \in DOMAIN switches : other # name => shown[other] = switches[other]
      /\ shown[name].waits = 0 /\ DOMAIN shown[name] = {"checked", "waits"}
      /\ shown[name].checked = IF answer \in {"refused", "failed"} THEN ~body
                                                          ELSE switches[name].checked
  BY <1>0, <1>1 DEF TakenBack
<1>3. switches' = shown \/ switches' = Refreshed(shown)
  BY <1>0 DEF ToggleAnswered
<1>4. OnlyAt(i, "over", answer, requests[i].served)
  BY <1>0, OverIs
<1>5. /\ \A other \in DOMAIN switches : other \in DOMAIN switches' /\ switches'[other] = shown[other]
      /\ \A other \in DOMAIN switches' \ DOMAIN switches :
           other \in DOMAIN rows /\ switches'[other] = [checked |-> rows[other], waits |-> 0]
      /\ DOMAIN switches' \subseteq DOMAIN rows
  BY <1>2, <1>3 DEF Refreshed, SwitchOf, SwitchesInv
<1>6. \A other \in DOMAIN switches' : /\ DOMAIN switches'[other] = {"checked", "waits"}
                                    /\ switches'[other].checked \in BOOLEAN
  <2> TAKE other \in DOMAIN switches'
  <2>1. CASE other \in DOMAIN switches /\ other # name
    BY <1>2, <1>5, <2>1 DEF SwitchesInv
  <2>2. CASE other = name
    BY <1>1, <1>2, <1>5, <2>2
  <2>3. CASE other \notin DOMAIN switches
    BY <1>5, <2>3 DEF SwitchesInv
  <2> QED
    BY <2>1, <2>2, <2>3
<1>7. ASSUME NEW j \in DOMAIN requests', requests'[j].kind = "update_row"
      PROVE  /\ requests'[j].body \in BOOLEAN /\ requests'[j].what \in DOMAIN switches'
             /\ InFlight(j)' => switches'[requests'[j].what].waits = j
  <2>1. /\ j \in DOMAIN requests /\ requests[j].kind = "update_row"
        /\ requests'[j].what = requests[j].what /\ requests'[j].body = requests[j].body
        /\ InFlight(j)' => InFlight(j) /\ j # i
    BY <1>4, <1>7 DEF OnlyAt, InFlight
  <2>2. /\ requests[j].body \in BOOLEAN /\ requests[j].what \in DOMAIN switches
        /\ InFlight(j) => switches[requests[j].what].waits = j
    BY <2>1 DEF SwitchesInv
  <2> QED
    BY <1>1, <1>2, <1>5, <2>1, <2>2
<1>8. ASSUME NEW other \in DOMAIN switches', AllTold("update_row", other)'
      PROVE  SwitchFollows(other)'
  <2>1. CASE other \notin DOMAIN switches
    BY <1>5, <2>1 DEF SwitchFollows
  <2>2. CASE other \in DOMAIN switches /\ other # name
    BY <1>2, <1>4, <1>5, <1>8, <2>2, OthersFollow, <1>0 DEF SwitchesInv, OnlyAt
  <2>3. CASE other = name
    <3>1. About("update_row", name)' = About("update_row", name) /\ i \in About("update_row", name)
      BY <1>0, <1>4 DEF About, OnlyAt
    <3>2. Known(requests'[i])
      <4>1. ~InFlight(i)'
        BY <1>4 DEF OnlyAt, InFlight
      <4> QED
        BY <1>8, <2>3, <3>1, <4>1 DEF AllTold
    <3>3. AllTold("update_row", name)
      <4> SUFFICES ASSUME NEW j \in About("update_row", name), j # i
                   PROVE  InFlight(j) \/ Known(requests[j])
        BY <1>1 DEF AllTold
      <4>1. j \in DOMAIN requests /\ requests'[j] = requests[j]
        BY <1>4 DEF About, OnlyAt
      <4> QED
        BY <1>8, <2>3, <3>1, <4>1 DEF AllTold, InFlight
    <3>4. /\ switches[name].checked = body
          /\ rows[name] = IF requests[i].served THEN body ELSE ~body
      <4>1. SwitchFollows(name)
        BY <1>1, <3>3 DEF SwitchesInv
      <4>2. i # 0
        BY DEF RequestsOK, IsSeq
      <4> QED
        BY <1>0, <1>1, <4>1, <4>2 DEF SwitchFollows
    <3>5. \/ answer = "ok" /\ requests[i].served
          \/ answer \in {"refused", "failed"} /\ ~requests[i].served
      <4>1. requests'[i].answer = answer /\ requests'[i].served = requests[i].served
        BY <1>4 DEF OnlyAt
      <4>2. answer = "ok" => requests[i].served
        BY <1>0 DEF RequestsOK, RequestOK
      <4> QED
        BY <3>2, <4>1, <4>2 DEF Known
    <3>6. shown[name].checked = rows[name]
      BY <1>2, <3>4, <3>5
    <3> QED
      BY <1>1, <1>2, <1>5, <2>3, <3>6 DEF SwitchFollows
  <2> QED
    BY <2>1, <2>2, <2>3
<1> QED
  BY <1>5, <1>6, <1>7, <1>8 DEF SwitchesInv

(* A new name in the table is that of no switch.                           *)
LEMMA InsertRowFollows ==
  ASSUME SwitchesInv, NoneOf("update_row"), NEW name, name \notin DOMAIN rows,
         rows' = With(rows, name, FALSE), UNCHANGED switches
  PROVE  SwitchesInv'
<1>1. /\ DOMAIN rows' = DOMAIN rows \cup {name} /\ rows'[name] = FALSE
      /\ \A other \in DOMAIN rows : rows'[other] = rows[other]
  BY DEF With
<1>2. \A other \in DOMAIN rows' : rows'[other] \in BOOLEAN
  BY <1>1 DEF SwitchesInv
<1>3. \A other \in DOMAIN switches : rows'[other] = rows[other]
  BY <1>1 DEF SwitchesInv
<1> QED
  BY <1>1, <1>2, <1>3, KeepSwitches

-----------------------------------------------------------------------------
(* The rates.                                                              *)

(* A step that changes no rate.                                            *)
LEMMA KeepEntries ==
  ASSUME EntriesInv, NoneOf("price"),
         DOMAIN rates' = DOMAIN rates, rates'.entries = rates.entries,
         PriceKeys \subseteq DOMAIN prices', \A k \in PriceKeys : prices'[k] = prices[k]
  PROVE  EntriesInv'
<1>1. \A i \in DOMAIN requests' : requests'[i].kind = "price" => requests'[i].what \in PriceKeys
  BY DEF NoneOf, EntriesInv
<1>2. AloneMeansAlone'
  <2> SUFFICES ASSUME NEW i \in DOMAIN requests', NEW j \in DOMAIN requests', i < j,
                      requests'[i].kind = "price", requests'[j].kind = "price",
                      requests'[i].what = requests'[j].what, requests'[j].alone
               PROVE  ~InFlight(i)'
    BY DEF AloneMeansAlone
  <2>1. /\ i \in DOMAIN requests /\ j \in DOMAIN requests
        /\ requests[i].kind = "price" /\ requests[j].kind = "price"
        /\ requests[i].what = requests[j].what /\ requests[j].alone
        /\ InFlight(i)' <=> InFlight(i)
    BY DEF NoneOf
  <2>2. ~InFlight(i)
    BY <2>1 DEF EntriesInv, AloneMeansAlone
  <2> QED
    BY <2>1, <2>2
<1>3. ASSUME NEW k \in PriceKeys, AllAlone(k)', AllTold("price", k)' PROVE RateFollows(k)'
  <2>1. About("price", k)' = About("price", k) /\ AllTold("price", k)
    BY <1>3, SameAbout
  <2>2. ASSUME NEW i \in About("price", k)
        PROVE  /\ requests'[i].alone = requests[i].alone /\ requests'[i].body = requests[i].body
               /\ requests'[i].served = requests[i].served
               /\ InFlight(i)' <=> InFlight(i)
    <3>1. i \in DOMAIN requests' /\ requests'[i].kind = "price"
      BY <2>1 DEF About
    <3> QED
      BY <3>1 DEF NoneOf
  <2>3. AllAlone(k)
    BY <1>3, <2>1, <2>2 DEF AllAlone
  <2>4. RateFollows(k)
    BY <2>1, <2>3 DEF EntriesInv
  <2>5. CASE /\ rates.entries[k] = prices[k]
             /\ \A i \in About("price", k) : InFlight(i) => ~requests[i].served
    <3>1. \A i \in About("price", k) : InFlight(i)' => ~requests'[i].served
      BY <2>2, <2>5
    <3> QED
      BY <2>1, <2>5, <3>1 DEF RateFollows
  <2>6. ASSUME NEW i \in About("price", k), InFlight(i), requests[i].served,
               prices[k] = Rounded(requests[i].body)
        PROVE  RateFollows(k)'
    <3>1. InFlight(i)' /\ requests'[i].served /\ prices'[k] = Rounded(requests'[i].body)
      BY <2>2, <2>6
    <3> QED
      BY <2>1, <3>1 DEF RateFollows
  <2> QED
    BY <2>4, <2>5, <2>6 DEF RateFollows
<1> QED
  BY <1>1, <1>2, <1>3 DEF EntriesInv

(* A rate is sent.                                                         *)
LEMMA SendRateFollows ==
  ASSUME RequestsOK, EntriesInv, NEW key \in PriceKeys, NEW from, NEW body,
         Send("price", from, key, body),
         DOMAIN rates' = DOMAIN rates, rates'.entries = rates.entries, UNCHANGED prices
  PROVE  EntriesInv'
<1>1. PICK n : n = NextRequest
  OBVIOUS
<1>2. /\ n \in Nat /\ n \notin DOMAIN requests /\ DOMAIN requests \subseteq 1..(n-1)
      /\ DOMAIN requests' = DOMAIN requests \cup {n}
      /\ \A i \in DOMAIN requests : requests'[i] = requests[i]
      /\ requests'[n].kind = "price" /\ requests'[n].what = key /\ requests'[n].body = body
      /\ requests'[n].at = "sent" /\ requests'[n].served = FALSE
      /\ requests'[n].alone => \A i \in About("price", key) : ~InFlight(i)
  BY <1>1, SendAddsOne
<1>3. \A i \in DOMAIN requests' : requests'[i].kind = "price" => requests'[i].what \in PriceKeys
  BY <1>2 DEF EntriesInv
<1>4. AloneMeansAlone'
  <2> SUFFICES ASSUME NEW i \in DOMAIN requests', NEW j \in DOMAIN requests', i < j,
                      requests'[i].kind = "price", requests'[j].kind = "price",
                      requests'[i].what = requests'[j].what, requests'[j].alone
               PROVE  ~InFlight(i)'
    BY DEF AloneMeansAlone
  <2>1. i \in DOMAIN requests /\ requests'[i] = requests[i]
    BY <1>2
  <2>2. CASE j = n
    <3>1. i \in About("price", key)
      BY <1>2, <2>1, <2>2 DEF About
    <3> QED
      BY <1>2, <2>1, <2>2, <3>1 DEF InFlight
  <2>3. CASE j # n
    <3>1. j \in DOMAIN requests /\ requests'[j] = requests[j]
      BY <1>2, <2>3
    <3>2. ~InFlight(i)
      BY <2>1, <3>1 DEF EntriesInv, AloneMeansAlone
    <3> QED
      BY <2>1, <3>2 DEF InFlight
  <2> QED
    BY <2>2, <2>3
<1>5. ASSUME NEW k \in PriceKeys, AllAlone(k)', AllTold("price", k)' PROVE RateFollows(k)'
  <2>1. /\ About("price", k) \subseteq About("price", k)'
        /\ About("price", k)' \subseteq About("price", k) \cup {n}
        /\ \A i \in About("price", k) : requests'[i] = requests[i]
    BY <1>2 DEF About
  <2>2. AllAlone(k) /\ AllTold("price", k)
    BY <1>5, <2>1 DEF AllAlone, AllTold, InFlight
  <2>3. RateFollows(k)
    BY <2>2 DEF EntriesInv
  <2>4. CASE /\ rates.entries[k] = prices[k]
             /\ \A i \in About("price", k) : InFlight(i) => ~requests[i].served
    <3>1. \A i \in About("price", k)' : InFlight(i)' => ~requests'[i].served
      BY <1>2, <2>1, <2>4 DEF InFlight
    <3> QED
      BY <2>4, <3>1 DEF RateFollows
  <2>5. ASSUME NEW i \in About("price", k), InFlight(i), requests[i].served,
               prices[k] = Rounded(requests[i].body)
        PROVE  RateFollows(k)'
    <3>1. /\ i \in About("price", k)' /\ InFlight(i)' /\ requests'[i].served
          /\ prices'[k] = Rounded(requests'[i].body)
      BY <2>1, <2>5 DEF InFlight
    <3> QED
      BY <3>1 DEF RateFollows
  <2> QED
    BY <2>3, <2>4, <2>5 DEF RateFollows
<1> QED
  BY <1>3, <1>4, <1>5 DEF EntriesInv

(* Of the changes of a rate that were sent alone one at most is in flight. *)
LEMMA OneChangeInFlight ==
  ASSUME RequestsOK, EntriesInv, NEW k, AllAlone(k),
         NEW i \in About("price", k), InFlight(i), NEW j \in About("price", k), InFlight(j)
  PROVE  i = j
<1>1. /\ i \in DOMAIN requests /\ j \in DOMAIN requests /\ i \in Nat /\ j \in Nat
      /\ requests[i].kind = "price" /\ requests[j].kind = "price"
      /\ requests[i].what = k /\ requests[j].what = k
      /\ requests[i].alone /\ requests[j].alone
  BY DEF About, AllAlone, RequestsOK, IsSeq
<1>2. ~(i < j) /\ ~(j < i)
  BY <1>1 DEF EntriesInv, AloneMeansAlone
<1> QED
  BY <1>1, <1>2

(* The change i of a rate goes on: what follows for the other rates.       *)
LEMMA ChangeGoesOn ==
  ASSUME RequestsOK, EntriesInv, NEW i \in DOMAIN requests, InFlight(i),
         requests[i].kind = "price", NEW key, key = requests[i].what,
         NEW at, NEW answer, NEW served, OnlyAt(i, at, answer, served),
         DOMAIN rates' = DOMAIN rates, PriceKeys \subseteq DOMAIN rates'.entries,
         PriceKeys \subseteq DOMAIN prices',
         \A k \in PriceKeys \ {key} :
           prices'[k] = prices[k] /\ rates'.entries[k] = rates.entries[k],
         AllAlone(key)' /\ AllTold("price", key)' => RateFollows(key)'
  PROVE  EntriesInv'
<1>1. /\ DOMAIN requests' = DOMAIN requests
      /\ \A j \in DOMAIN requests : /\ requests'[j].kind = requests[j].kind
                                  /\ requests'[j].what = requests[j].what
                                  /\ requests'[j].alone = requests[j].alone
      /\ \A j \in DOMAIN requests : j # i => requests'[j] = requests[j]
  BY DEF OnlyAt
<1>2. \A j \in DOMAIN requests' : requests'[j].kind = "price" => requests'[j].what \in PriceKeys
  BY <1>1 DEF EntriesInv
<1>3. AloneMeansAlone'
  <2> SUFFICES ASSUME NEW l \in DOMAIN requests', NEW j \in DOMAIN requests', l < j,
                      requests'[l].kind = "price", requests'[j].kind = "price",
                      requests'[l].what = requests'[j].what, requests'[j].alone
               PROVE  ~InFlight(l)'
    BY DEF AloneMeansAlone
  <2>1. ~InFlight(l)
    BY <1>1 DEF EntriesInv, AloneMeansAlone
  <2>2. requests'[l] = requests[l]
    BY <1>1, <2>1
  <2> QED
    BY <2>1, <2>2 DEF InFlight
<1>4. ASSUME NEW k \in PriceKeys, k # key, AllAlone(k)', AllTold("price", k)' PROVE RateFollows(k)'
  <2>1. /\ About("price", k)' = About("price", k)
        /\ \A j \in About("price", k) : requests'[j] = requests[j]
    BY <1>1, <1>4 DEF About
  <2>2. AllAlone(k) /\ AllTold("price", k)
    BY <1>4, <2>1 DEF AllAlone, AllTold, InFlight
  <2>3. RateFollows(k)
    BY <2>2 DEF EntriesInv
  <2>4. prices'[k] = prices[k] /\ rates'.entries[k] = rates.entries[k]
    BY <1>4
  <2>5. CASE /\ rates.entries[k] = prices[k]
             /\ \A j \in About("price", k) : InFlight(j) => ~requests[j].served
    BY <2>1, <2>4, <2>5 DEF RateFollows, InFlight
  <2>6. ASSUME NEW j \in About("price", k), InFlight(j), requests[j].served,
               prices[k] = Rounded(requests[j].body)
        PROVE  RateFollows(k)'
    <3>1. /\ j \in About("price", k)' /\ InFlight(j)' /\ requests'[j].served
          /\ prices'[k] = Rounded(requests'[j].body)
      BY <2>1, <2>4, <2>6 DEF InFlight
    <3> QED
      BY <3>1 DEF RateFollows
  <2> QED
    BY <2>3, <2>5, <2>6 DEF RateFollows
<1> QED
  BY <1>2, <1>3, <1>4 DEF EntriesInv

(* What was known of the rate before the change i went on.                 *)
LEMMA ChangeIsAlone ==
  ASSUME RequestsOK, EntriesInv, NEW i \in DOMAIN requests, InFlight(i),
         requests[i].kind = "price", NEW key, key = requests[i].what,
         NEW at, NEW answer, NEW served, OnlyAt(i, at, answer, served),
         AllAlone(key)', AllTold("price", key)'
  PROVE  /\ RateFollows(key)
         /\ About("price", key)' = About("price", key) /\ i \in About("price", key)
         /\ \A j \in About("price", key) : j # i => ~InFlight(j) /\ ~InFlight(j)'
<1>1. /\ DOMAIN requests' = DOMAIN requests
      /\ \A j \in DOMAIN requests : /\ requests'[j].kind = requests[j].kind
                                  /\ requests'[j].what = requests[j].what
                                  /\ requests'[j].alone = requests[j].alone
      /\ \A j \in DOMAIN requests : j # i => requests'[j] = requests[j]
  BY DEF OnlyAt
<1>2. About("price", key)' = About("price", key) /\ i \in About("price", key)
  BY <1>1 DEF About
<1>3. AllAlone(key)
  BY <1>1, <1>2 DEF AllAlone, About
<1>4. ASSUME NEW j \in About("price", key), j # i
      PROVE  ~InFlight(j) /\ ~InFlight(j)' /\ Known(requests[j])
  <2>1. ~InFlight(j)
    BY <1>2, <1>3, <1>4, OneChangeInFlight
  <2>2. requests'[j] = requests[j]
    BY <1>1, <1>4 DEF About
  <2>3. ~InFlight(j)'
    BY <2>1, <2>2 DEF InFlight
  <2>4. Known(requests'[j])
    BY <1>2, <2>3 DEF AllTold
  <2> QED
    BY <2>1, <2>2, <2>3, <2>4
<1>5. AllTold("price", key)
  BY <1>4 DEF AllTold
<1>6. key \in PriceKeys
  BY DEF EntriesInv
<1> QED
  BY <1>2, <1>3, <1>4, <1>5, <1>6 DEF EntriesInv

(* The API has a rate.                                                     *)
LEMMA UpsertFollows ==
  ASSUME RequestsOK, EntriesInv, NEW i \in DOMAIN requests, requests[i].at = "sent",
         requests[i].kind = "price", OnlyAt(i, "answered", "ok", TRUE),
         prices' = With(prices, requests[i].what, Rounded(requests[i].body)), UNCHANGED rates
  PROVE  EntriesInv'
<1>1. PICK key, body : key = requests[i].what /\ body = requests[i].body
  OBVIOUS
<1>2. InFlight(i) /\ InFlight(i)' /\ requests'[i].served = TRUE /\ requests'[i].body = body
  BY <1>1 DEF InFlight, OnlyAt
<1>3. /\ PriceKeys \subseteq DOMAIN prices' /\ prices'[key] = Rounded(body)
      /\ \A k \in PriceKeys \ {key} : prices'[k] = prices[k]
  BY <1>1 DEF With, EntriesInv
<1>4. ASSUME AllAlone(key)', AllTold("price", key)' PROVE RateFollows(key)'
  <2>1. i \in About("price", key)'
    BY <1>1, <1>2, <1>4, ChangeIsAlone
  <2> QED
    BY <1>2, <1>3, <2>1 DEF RateFollows
<1>5. PriceKeys \subseteq DOMAIN rates'.entries
  BY DEF EntriesInv
<1> QED
  BY <1>1, <1>2, <1>3, <1>4, <1>5, ChangeGoesOn

(* The answer of a change: the entry is what was sent, or stays.           *)
LEMMA RateAnsweredFollows ==
  ASSUME RequestsOK, EntriesInv, NEW i \in DOMAIN requests, requests[i].at = "answered",
         requests[i].kind = "price", Over(i), RateAnswered(i), UNCHANGED prices
  PROVE  EntriesInv'
<1>1. PICK key, body, answer :
        key = requests[i].what /\ body = requests[i].body /\ answer = requests[i].answer
  OBVIOUS
<1>2. InFlight(i) /\ OnlyAt(i, "over", answer, requests[i].served)
  BY <1>1, OverIs DEF InFlight
<1>3. ~InFlight(i)' /\ requests'[i].answer = answer /\ requests'[i].served = requests[i].served
  BY <1>2 DEF InFlight, OnlyAt
<1>4. key \in PriceKeys /\ key \in DOMAIN rates.entries
  BY <1>1 DEF EntriesInv
<1>5. /\ DOMAIN rates' = DOMAIN rates
      /\ rates'.entries = IF answer = "ok" THEN [rates.entries EXCEPT ![key] = Rounded(body)]
                                           ELSE rates.entries
  BY <1>1 DEF RateAnswered, EntriesInv
<1>6. /\ DOMAIN rates'.entries = DOMAIN rates.entries
      /\ \A k \in PriceKeys \ {key} : rates'.entries[k] = rates.entries[k]
      /\ rates'.entries[key] = IF answer = "ok" THEN Rounded(body) ELSE rates.entries[key]
  BY <1>4, <1>5 DEF EntriesInv
<1>7. ASSUME AllAlone(key)', AllTold("price", key)' PROVE RateFollows(key)'
  <2>1. /\ RateFollows(key)
        /\ About("price", key)' = About("price", key) /\ i \in About("price", key)
        /\ \A j \in About("price", key) : j # i => ~InFlight(j) /\ ~InFlight(j)'
    BY <1>1, <1>2, <1>7, ChangeIsAlone
  <2>2. Known(requests'[i])
    BY <1>3, <1>7, <2>1 DEF AllTold
  <2>3. \/ answer = "ok" /\ requests[i].served
        \/ answer \in {"refused", "failed"} /\ ~requests[i].served
    <3>1. answer = "ok" => requests[i].served
      BY <1>1 DEF RequestsOK, RequestOK
    <3> QED
      BY <1>3, <2>2, <3>1 DEF Known
  <2>4. prices[key] = IF requests[i].served THEN Rounded(body) ELSE rates.entries[key]
    BY <1>1, <1>2, <2>1 DEF RateFollows
  <2>5. rates'.entries[key] = prices'[key]
    BY <1>6, <2>3, <2>4
  <2>6. \A j \in About("price", key)' : ~InFlight(j)'
    BY <1>3, <2>1
  <2> QED
    BY <2>5, <2>6 DEF RateFollows
<1>8. PriceKeys \subseteq DOMAIN prices'
  BY DEF EntriesInv
<1>9. PriceKeys \subseteq DOMAIN rates'.entries
  BY <1>6 DEF EntriesInv
<1> QED
  BY <1>1, <1>2, <1>5, <1>6, <1>7, <1>8, <1>9, ChangeGoesOn

-----------------------------------------------------------------------------
(* The steps.                                                              *)

ShownInv == SwitchesInv /\ EntriesInv

(* A step that has nothing to do with switches and rates.                  *)
LEMMA KeepShown ==
  ASSUME ShownInv, NoneOf("update_row"), NoneOf("price"), UNCHANGED <<rows, prices>>,
         \/ switches' = switches
         \/ switches' = Refreshed(switches),
         DOMAIN rates' = DOMAIN rates, rates'.entries = rates.entries
  PROVE  ShownInv'
<1>1. SwitchesInv'
  BY KeepSwitches DEF ShownInv, SwitchesInv
<1>2. EntriesInv'
  BY KeepEntries DEF ShownInv, EntriesInv
<1> QED
  BY <1>1, <1>2 DEF ShownInv

LEMMA UserKeepsShown == ASSUME RequestsOK, ShownInv, UserStep PROVE ShownInv'
<1>1. ASSUME UNCHANGED <<requests, rows, prices, switches, rates>> PROVE ShownInv'
  BY <1>1, NoneWhileUnchanged, KeepShown
<1>2. ASSUME NEW kind, NEW from, NEW what, NEW body, Send(kind, from, what, body),
             kind \notin {"update_row", "price"}, UNCHANGED <<rows, prices, switches, rates>>
      PROVE  ShownInv'
  BY <1>2, NoneWhileSending, KeepShown
<1>3. ASSUME NEW t \in Tabs, NEW a, NEW edit,
             OpenEditor(t, a) \/ EditForm(t, edit) \/ LeaveEditor(t) \/ SetOpen
      PROVE  ShownInv'
  <2>1. UNCHANGED <<requests, rows, prices, switches, rates>>
    BY <1>3 DEF OpenEditor, EditForm, LeaveEditor, SetOpen, tables
  <2> QED
    BY <1>1, <2>1
<1>3a. ASSUME SetOpen PROVE ShownInv'
  <2>1. UNCHANGED <<requests, rows, prices, switches, rates>>
    BY <1>3a DEF SetOpen, tables
  <2> QED
    BY <1>1, <2>1
<1>4. ASSUME NEW t \in Tabs, NEW m, AddModel(t, m) PROVE ShownInv'
  <2>1. PICK what : Send("model", t, m, what)
    BY <1>4 DEF AddModel
  <2>2. UNCHANGED <<rows, prices, switches, rates>>
    BY <1>4 DEF AddModel, tab, tables
  <2> QED
    BY <1>2, <2>1, <2>2
<1>5. ASSUME NEW t \in Tabs, SubmitAgent(t) PROVE ShownInv'
  <2>1. PICK kind, what, body :
          Send(kind, t, what, body) /\ kind \in {"create_agent", "update_agent"}
    BY <1>5 DEF SubmitAgent
  <2>2. UNCHANGED <<rows, prices, switches, rates>>
    BY <1>5 DEF SubmitAgent, tables
  <2> QED
    BY <1>2, <2>1, <2>2
<1>6. ASSUME NEW what, SubmitDialog(what) PROVE ShownInv'
  <2>1. PICK kind, from, body :
          Send(kind, from, what, body) /\ kind \in {"create_row", "call"}
    BY <1>6 DEF SubmitDialog, NewTrunkDialog, NewWebhookEndpointDialog, NewCallDialog
  <2>2. UNCHANGED <<rows, prices, switches, rates>>
    BY <1>6 DEF SubmitDialog, tables
  <2> QED
    BY <1>2, <2>1, <2>2
<1>7. ASSUME NEW valid \in BOOLEAN, SubmitLogin(valid) PROVE ShownInv'
  <2>1. PICK body : Send("login", None, None, body)
    BY <1>7 DEF SubmitLogin
  <2>2. UNCHANGED <<rows, prices, switches, rates>>
    BY <1>7 DEF SubmitLogin, tab, tables
  <2> QED
    BY <1>2, <2>1, <2>2
<1>8. ASSUME NEW name, Toggle(name) PROVE ShownInv'
  <2>1. SwitchesInv'
    BY <1>8, ToggleFollows DEF ShownInv
  <2>2. PICK from, body : Send("update_row", from, name, body)
    BY <1>8 DEF Toggle, TrunkActiveToggle, WebhookEndpointEnabledToggle
  <2>3. NoneOf("price") /\ UNCHANGED <<prices, rates>>
    BY <1>8, <2>2, NoneWhileSending DEF Toggle, tables
  <2>4. EntriesInv'
    BY <2>3, KeepEntries DEF ShownInv, EntriesInv
  <2> QED
    BY <2>1, <2>4 DEF ShownInv
<1>9. ASSUME NEW k \in PriceKeys, SaveRate(k) PROVE ShownInv'
  <2>1. /\ UNCHANGED <<rows, prices, switches>>
        /\ DOMAIN rates' = DOMAIN rates /\ rates'.entries = rates.entries
        /\ \/ UNCHANGED requests
           \/ \E from, body : Send("price", from, k, body)
    BY <1>9 DEF SaveRate, tables, ShownInv, EntriesInv
  <2>2. CASE UNCHANGED requests
    BY <2>1, <2>2, NoneWhileUnchanged, KeepShown
  <2>3. ASSUME NEW from, NEW body, Send("price", from, k, body) PROVE ShownInv'
    <3>1. EntriesInv'
      BY <2>1, <2>3, SendRateFollows DEF ShownInv
    <3>2. NoneOf("update_row")
      BY <2>3, NoneWhileSending
    <3>3. SwitchesInv'
      BY <2>1, <3>2, KeepSwitches DEF ShownInv, SwitchesInv
    <3> QED
      BY <3>1, <3>3 DEF ShownInv
  <2> QED
    BY <2>1, <2>2, <2>3
<1>10. ASSUME NEW k, NEW text, TypeRate(k, text) PROVE ShownInv'
  <2>1. /\ UNCHANGED <<requests, rows, prices, switches>>
        /\ DOMAIN rates' = DOMAIN rates /\ rates'.entries = rates.entries
    BY <1>10 DEF TypeRate, tables, ShownInv, EntriesInv
  <2> QED
    BY <2>1, NoneWhileUnchanged, KeepShown
<1> QED
  BY <1>3, <1>3a, <1>4, <1>5, <1>6, <1>7, <1>8, <1>9, <1>10 DEF UserStep

LEMMA ArriveKeepsShown ==
  ASSUME RequestsOK, ShownInv, NEW i \in DOMAIN requests, Arrive(i)
  PROVE  ShownInv'
<1>1. PICK ok \in BOOLEAN :
        Serve(requests[i], ok) /\ Answered(i, IF ok THEN "ok" ELSE "refused", ok)
  BY DEF Arrive
<1>2. UNCHANGED <<switches, rates>> /\ requests[i].at = "sent" /\ requests[i].at # "over"
  BY DEF Arrive, tab
<1>3. CASE UNCHANGED <<rows, prices>> /\ (~ok \/ requests[i].kind \notin {"update_row", "price"})
  BY <1>1, <1>2, <1>3, NoneWhileAnswered, KeepShown
<1>4. CASE /\ ok /\ requests[i].kind = "update_row" /\ requests[i].what \in DOMAIN rows
           /\ rows' = With(rows, requests[i].what, requests[i].body) /\ UNCHANGED prices
  <2>1. OnlyAt(i, "answered", "ok", TRUE)
    <3>1. Answered(i, "ok", TRUE)
      BY <1>1, <1>4
    <3> QED
      BY <3>1, AnsweredIs DEF OnlyAt
  <2>2. SwitchesInv'
    BY <1>2, <1>4, <2>1, SetActiveFollows DEF ShownInv
  <2>3. NoneOf("price")
    BY <1>1, <1>2, <1>4, NoneWhileAnswered
  <2>4. EntriesInv'
    BY <1>2, <1>4, <2>3, KeepEntries DEF ShownInv, EntriesInv
  <2> QED
    BY <2>2, <2>4 DEF ShownInv
<1>5. CASE /\ requests[i].kind = "create_row" /\ requests[i].what \notin DOMAIN rows
           /\ rows' = With(rows, requests[i].what, FALSE) /\ UNCHANGED prices
  <2>1. NoneOf("price") /\ NoneOf("update_row")
    BY <1>1, <1>2, <1>5, NoneWhileAnswered
  <2>2. SwitchesInv'
    BY <1>2, <1>5, <2>1, InsertRowFollows DEF ShownInv
  <2>3. EntriesInv'
    BY <1>2, <1>5, <2>1, KeepEntries DEF ShownInv, EntriesInv
  <2> QED
    BY <2>2, <2>3 DEF ShownInv
<1>6. CASE /\ ok /\ requests[i].kind = "price" /\ UNCHANGED rows
           /\ prices' = With(prices, requests[i].what, Rounded(requests[i].body))
  <2>1. OnlyAt(i, "answered", "ok", TRUE)
    <3>1. Answered(i, "ok", TRUE)
      BY <1>1, <1>6
    <3> QED
      BY <3>1, AnsweredIs DEF OnlyAt
  <2>2. EntriesInv'
    BY <1>2, <1>6, <2>1, UpsertFollows DEF ShownInv
  <2>3. NoneOf("update_row")
    BY <1>1, <1>2, <1>6, NoneWhileAnswered
  <2>4. SwitchesInv'
    BY <1>2, <1>6, <2>3, KeepSwitches DEF ShownInv, SwitchesInv
  <2> QED
    BY <2>2, <2>4 DEF ShownInv
<1> QED
  BY <1>1, <1>3, <1>4, <1>5, <1>6
  DEF Serve, CreateAgent, UpdateAgent, AddModelOption, CreateTrunk, CreateEndpoint,
      InsertRow, UpdateTrunk, UpdateEndpoint, SetActive, UpsertPrice, StartCall, tables

LEMMA AnswerKeepsShown ==
  ASSUME RequestsOK, ShownInv, NEW i \in DOMAIN requests, Answer(i)
  PROVE  ShownInv'
<1>1. Over(i) /\ requests[i].at = "answered" /\ UNCHANGED <<rows, prices>>
  BY DEF Answer, tables
<1>2. CASE /\ requests[i].kind \notin {"update_row", "price"} /\ UNCHANGED rates
           /\ switches' = switches \/ switches' = Refreshed(switches)
  BY <1>1, <1>2, NoneWhileOver, KeepShown
<1>3. CASE requests[i].kind = "update_row" /\ ToggleAnswered(i)
  <2>1. SwitchesInv'
    BY <1>1, <1>3, ToggleAnsweredFollows DEF ShownInv
  <2>2. NoneOf("price") /\ UNCHANGED rates
    BY <1>1, <1>3, NoneWhileOver DEF ToggleAnswered
  <2>3. EntriesInv'
    BY <1>1, <2>2, KeepEntries DEF ShownInv, EntriesInv
  <2> QED
    BY <2>1, <2>3 DEF ShownInv
<1>4. CASE requests[i].kind = "price" /\ RateAnswered(i)
  <2>1. EntriesInv'
    BY <1>1, <1>4, RateAnsweredFollows DEF ShownInv
  <2>2. NoneOf("update_row") /\ UNCHANGED switches
    BY <1>1, <1>4, NoneWhileOver DEF RateAnswered
  <2>3. SwitchesInv'
    BY <1>1, <2>2, KeepSwitches DEF ShownInv, SwitchesInv
  <2> QED
    BY <2>1, <2>3 DEF ShownInv
<1> QED
  BY <1>2, <1>3, <1>4
  DEF Answer, AgentAnswered, ModelAnswered, DialogAnswered, LoginAnswered

LEMMA StepKeepsShown == ASSUME FormsInv, ShownInv, [Next]_vars PROVE ShownInv'
<1>0. RequestsOK
  BY DEF FormsInv
<1>1. ASSUME NEW i \in DOMAIN requests, Redirected(i) \/ Login(i) \/ LoseRequest(i) \/ LoseAnswer(i)
      PROVE  ShownInv'
  <2>1. /\ UNCHANGED <<rows, prices, switches, rates>> /\ requests[i].at # "over"
        /\ \E answer : \E served \in BOOLEAN :
             Answered(i, answer, served) /\ (~served \/ requests[i].kind = "login")
    <3>1. CASE Redirected(i)
      BY <3>1 DEF Redirected, tables, tab
    <3>2. CASE Login(i)
      <4>1. requests[i].body \in BOOLEAN
        BY <1>0, <3>2 DEF Login, RequestsOK, RequestOK, SentOK
      <4> QED
        BY <4>1, <3>2 DEF Login, tables, tab
    <3>3. CASE LoseRequest(i)
      BY <3>3 DEF LoseRequest, tables, tab
    <3>4. CASE LoseAnswer(i)
      BY <3>4 DEF LoseAnswer, tables, tab
    <3> QED
      BY <1>1, <3>1, <3>2, <3>3, <3>4
  <2>2. NoneOf("update_row") /\ NoneOf("price")
    BY <1>0, <2>1, NoneWhileAnswered
  <2> QED
    BY <2>1, <2>2, KeepShown
<1>2. CASE EndSession \/ (\E a \in AgentNames : DeleteAgent(a)) \/ Meter \/ UNCHANGED vars
  <2>1. UNCHANGED <<requests, rows, prices, switches, rates>>
    BY <1>2 DEF EndSession, DeleteAgent, Meter, vars, tables, tab
  <2> QED
    BY <2>1, NoneWhileUnchanged, KeepShown
<1> QED
  BY <1>0, <1>1, <1>2, UserKeepsShown, ArriveKeepsShown, AnswerKeepsShown DEF Next, Progress

(* When nothing is in flight the page's switches and rates are the tables':*)
(* a change that was refused is taken back, one that was served is there,  *)
(* however changes of other rows, new rows and lost answers come between   *)
(* (trunk-active-toggle.tsx:12-29, price-table-editor.tsx:27-66).  Given   *)
(* that every change has told its outcome, and that no two changes of one  *)
(* rate overlapped.                                                        *)
THEOREM QuietPageIsTrue == Spec => []QuietPageShowsTheTables
<1>1. FormsInv /\ ShownInv => QuietPageShowsTheTables
  <2> SUFFICES ASSUME FormsInv, ShownInv PROVE QuietPageShowsTheTables
    OBVIOUS
  <2>1. ASSUME NEW name \in DOMAIN switches,
               \A i \in About("update_row", name) : ~InFlight(i) /\ Known(requests[i])
        PROVE  switches[name].checked = rows[name]
    <3>1. AllTold("update_row", name)
      BY <2>1 DEF AllTold
    <3> QED
      BY <2>1, <3>1 DEF ShownInv, SwitchesInv, SwitchFollows
  <2>2. ASSUME NEW k \in PriceKeys,
               \A i \in About("price", k) :
                 ~InFlight(i) /\ Known(requests[i]) /\ requests[i].alone
        PROVE  rates.entries[k] = prices[k]
    <3>1. AllTold("price", k) /\ AllAlone(k)
      BY <2>2 DEF AllTold, AllAlone
    <3> QED
      BY <2>2, <3>1 DEF ShownInv, EntriesInv, RateFollows
  <2> QED
    BY <2>1, <2>2 DEF QuietPageShowsTheTables
<1>2. Init => FormsInv /\ ShownInv
  BY InitFormsInv, InitShownInv DEF ShownInv
<1>3. FormsInv /\ ShownInv /\ [Next]_vars => FormsInv' /\ ShownInv'
  BY StepFormsInv, StepKeepsShown
<1> QED
  BY <1>1, <1>2, <1>3, PTL DEF Spec
=============================================================================
