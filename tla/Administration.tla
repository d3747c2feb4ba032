--------------------------- MODULE Administration ---------------------------
(***************************************************************************)
(* The console's forms: the agent editor, the dialogs and switches of the  *)
(* trunks and webhook endpoints, the price editor, the new call and the    *)
(* login form.  Each sends a request to the console's server, which passes *)
(* it on to the API if the browser has a session, and does with the answer *)
(* what its handler does.                                                  *)
(*                                                                         *)
(* The user works on one page, in as many tabs as there are Tabs; meanwhile*)
(* an API client deletes agents, the session ends, and the worker meters a *)
(* call of an agent that is being edited.                                  *)
(*                                                                         *)
(* Rates are in ten-millionths, one digit more than their column keeps;    *)
(* what is finer than that makes no difference to it.                      *)
(***************************************************************************)
EXTENDS Integers, Sequences, FiniteSets, AgentConfigs

CONSTANTS
  Pages,         \* the pages the user may work on, of AllPages
  Tabs,          \* the tabs with an agent editor
  AgentNames,    \* names of agents
  InitialAgents, \* the agents there are: a row each
  Edits,         \* the changes the user makes: column and value
  ModelNames,    \* names of models a user may add
  RowNames,      \* names of trunks and endpoints
  InitialRows,   \* those there are: whether each is active
  InitialPrices, \* the price table: a rate for each key it has
  Texts,         \* what the user types as a rate, and
  NumberOf,      \* the number JavaScript makes of it
  RateLimit,     \* what the column of the rates has no room for
  MaxRequests,   \* bound: how many requests the page sends
  MaxFaults,     \* bound: how many of the Faults happen
  Faults         \* what may go wrong, of FaultKinds

(* request_lost: fetch rejects, and the API has not had the request.       *)
(* api_fails:    the API, or the console's server, answers with a failure. *)
(* answer_lost:  the API has served the request, and fetch rejects or the  *)
(*               console's server answers with a failure.                  *)
(* session_ends: the cookie expires, or the user logs out elsewhere.       *)
(* agent_deleted: a client of the API deletes an agent.                    *)
FaultKinds == {"request_lost", "api_fails", "answer_lost", "session_ends", "agent_deleted"}

Tables == {"trunks", "webhooks"}
AllPages == {"agents", "calls", "settings", "playground"} \cup Tables

ASSUME PagesAssumption == Pages \subseteq AllPages
ASSUME AgentsAssumption ==
  /\ DOMAIN InitialAgents \subseteq AgentNames
  /\ \A a \in DOMAIN InitialAgents :
       DOMAIN InitialAgents[a] = Columns /\ Fits(InitialAgents[a])
ASSUME EditsAssumption ==
  \A edit \in Edits : edit[1] \in Columns /\ edit[2] # Null
ASSUME ModelsAssumption == ModelNames \cap {Null, ""} = {}
ASSUME RowsAssumption ==
  /\ DOMAIN InitialRows \subseteq RowNames
  /\ \A name \in DOMAIN InitialRows : InitialRows[name] \in BOOLEAN

(* Decimal(18, 6): the sixth digit is rounded half up, of what is not      *)
(* negative.                                                               *)
Rounded(n) == ((n + 5) \div 10) * 10

ASSUME PricesAssumption ==
  \A k \in DOMAIN InitialPrices :
    InitialPrices[k] \in Nat /\ Rounded(InitialPrices[k]) = InitialPrices[k]
ASSUME TextsAssumption == NumberOf \in [Texts -> Int]
ASSUME LimitAssumption == RateLimit \in Nat
ASSUME RequestsAssumption == MaxRequests \in Nat
ASSUME MaxFaultsAssumption == MaxFaults \in Nat
ASSUME FaultsAssumption == Faults \subseteq FaultKinds

PriceKeys == DOMAIN InitialPrices
None == "none"

VARIABLES
  page,      \* the page the user works on
  cookie,    \* whether the browser has a session
  requests,  \* the requests sent, in this order
  faults,    \* how many faults have happened
  agents,    \* the tables: agent_configs, of the names in its domain,
  rows,      \* sip_trunks and webhook_endpoints, whether each is active,
  prices,    \* price_table, and of calls
  called,    \* the agents that have one
  editors,   \* the agent editor of each tab
  dialog,    \* the dialog or login form in use
  switches,  \* the switches the page shows
  rates,     \* the price editor
  saved,     \* the requests after which a form was left as saved
  call       \* a completed call of an agent, and what it is billed for

tab == <<editors, dialog, switches, rates, saved>>
tables == <<agents, rows, prices, called>>
vars == <<page, cookie, requests, faults, tables, tab, call>>

Fault(kind) ==
  /\ kind \in Faults
  /\ faults < MaxFaults
  /\ faults' = faults + 1

(* A function without, and with another, argument.                         *)
Without(f, x) == [y \in DOMAIN f \ {x} |-> f[y]]
With(f, x, value) == [y \in DOMAIN f \cup {x} |-> IF y = x THEN value ELSE f[y]]

Closed == [open |-> FALSE, name |-> None, isNew |-> FALSE, form |-> NewForm, waits |-> 0,
           error |-> FALSE]

(* A completed call of an agent that is configured for this mode.          *)
Completed(a, mode) ==
  [agent |-> a, placed |-> mode, at |-> "ended", usage |-> FALSE, legs |-> {}]

NoCall == [Completed(None, None) EXCEPT !.at = "none"]

Init ==
  /\ page \in Pages
  /\ cookie = TRUE
  /\ requests = <<>>
  /\ faults = 0
  /\ agents = InitialAgents
  /\ rows = InitialRows
  /\ prices = InitialPrices
  /\ editors = [t \in Tabs |-> Closed]
  /\ dialog = [open |-> FALSE, waits |-> 0, error |-> FALSE]
  /\ switches = [name \in DOMAIN rows |-> [checked |-> rows[name], waits |-> 0]]
  /\ rates = [entries |-> prices, drafts |-> <<>>, savingId |-> {}, errorId |-> {}]
  /\ saved = {}
  /\ called \in SUBSET (IF page = "agents" THEN DOMAIN InitialAgents ELSE {})
  /\ call \in {NoCall} \cup {Completed(a, InitialAgents[a]["voiceMode"]) : a \in called}

-----------------------------------------------------------------------------
(* Requests.                                                               *)

NextRequest == Len(requests) + 1

(* Bound: forms are opened and filled in only while they may be sent.      *)
MaySend == Len(requests) < MaxRequests

InFlight(i) == requests[i].at # "over"

(* fetch: kind is the route, from the tab, page or text it comes from,     *)
(* what the row it names.                                                  *)
Send(kind, from, what, body) ==
  /\ MaySend
  /\ requests' =
       Append(requests,
              [kind |-> kind, from |-> from, what |-> what, body |-> body, at |-> "sent",
               answer |-> None, served |-> FALSE,
               alone |-> \A i \in DOMAIN requests :
                           requests[i].kind = kind /\ requests[i].what = what => ~InFlight(i)])

Answered(i, answer, served) ==
  requests' = [requests EXCEPT ![i].at = "answered", ![i].answer = answer,
                               ![i].served = @ \/ served]

(* The routes of the API.  Each is one statement, and either serves the    *)
(* request or refuses it.                                                  *)
CreateAgent(r, ok) ==
  /\ ok = (ValidCreate(r.body) /\ r.what \notin DOMAIN agents)
  /\ agents' = IF ok THEN With(agents, r.what, Created(r.body)) ELSE agents
  /\ UNCHANGED <<rows, prices, called>>

UpdateAgent(r, ok) ==
  /\ ok = (ValidUpdate(r.body) /\ r.what \in DOMAIN agents)
  /\ agents' = IF ok THEN With(agents, r.what, Updated(agents[r.what], r.body)) ELSE agents
  /\ UNCHANGED <<rows, prices, called>>

(* Upsert by name and type.                                                *)
AddModelOption(r, ok) == ok /\ UNCHANGED tables

(* The repositories of the trunks and of the endpoints: the name is unique *)
(* in a table, and what is not there is not updated.  The dialogs do not   *)
(* say whether a row is active, and the columns' default is that it is not.*)
InsertRow(r, ok) ==
  /\ ok = (r.what \notin DOMAIN rows)
  /\ rows' = IF ok THEN With(rows, r.what, FALSE) ELSE rows
  /\ UNCHANGED <<agents, prices, called>>

SetActive(r, ok) ==
  /\ ok = (r.what \in DOMAIN rows)
  /\ rows' = IF ok THEN With(rows, r.what, r.body) ELSE rows
  /\ UNCHANGED <<agents, prices, called>>

CreateTrunk(r, ok) == r.from = "trunks" /\ InsertRow(r, ok)
UpdateTrunk(r, ok) == r.from = "trunks" /\ SetActive(r, ok)
CreateEndpoint(r, ok) == r.from = "webhooks" /\ InsertRow(r, ok)
UpdateEndpoint(r, ok) == r.from = "webhooks" /\ SetActive(r, ok)

(* UpsertPriceTableEntryBodySchema.                                        *)
ValidRate(n) == n >= 0

(* The database rounds the number, and refuses one that does not fit.      *)
UpsertPrice(r, ok) ==
  /\ ok = (ValidRate(r.body) /\ Rounded(r.body) < RateLimit)
  /\ prices' = IF ok THEN With(prices, r.what, Rounded(r.body)) ELSE prices
  /\ UNCHANGED <<agents, rows, called>>

StartCall(r, ok) ==
  /\ ok = (r.what \in DOMAIN agents)
  /\ called' = IF ok THEN called \cup {r.what} ELSE called
  /\ UNCHANGED <<agents, rows, prices>>

Serve(r, ok) ==
  \/ r.kind = "create_agent" /\ CreateAgent(r, ok)
  \/ r.kind = "update_agent" /\ UpdateAgent(r, ok)
  \/ r.kind = "model" /\ AddModelOption(r, ok)
  \/ r.kind = "create_row" /\ (CreateTrunk(r, ok) \/ CreateEndpoint(r, ok))
  \/ r.kind = "update_row" /\ (UpdateTrunk(r, ok) \/ UpdateEndpoint(r, ok))
  \/ r.kind = "price" /\ UpsertPrice(r, ok)
  \/ r.kind = "call" /\ StartCall(r, ok)

(* The middleware lets the request pass, the proxy passes on the answer.   *)
Arrive(i) ==
  /\ requests[i].at = "sent"
  /\ requests[i].kind # "login" /\ cookie
  /\ \E ok \in BOOLEAN :
       Serve(requests[i], ok) /\ Answered(i, IF ok THEN "ok" ELSE "refused", ok)
  /\ UNCHANGED <<page, cookie, faults, tab, call>>

(* Without a session the middleware redirects to /login; fetch follows and *)
(* has the login page, or the refusal to POST there, for an answer.        *)
Redirected(i) ==
  /\ requests[i].at = "sent"
  /\ requests[i].kind # "login" /\ ~cookie
  /\ \E answer \in {"login", "failed"} : Answered(i, answer, FALSE)
  /\ UNCHANGED <<page, cookie, faults, tables, tab, call>>

Login(i) ==
  /\ requests[i].at = "sent"
  /\ requests[i].kind = "login"
  /\ cookie' = (cookie \/ requests[i].body)
  /\ Answered(i, IF requests[i].body THEN "ok" ELSE "refused", requests[i].body)
  /\ UNCHANGED <<page, faults, tables, tab, call>>

LoseRequest(i) ==
  /\ requests[i].at = "sent"
  /\ \/ Fault("request_lost") /\ Answered(i, "rejected", FALSE)
     \/ Fault("api_fails") /\ Answered(i, "failed", FALSE)
  /\ UNCHANGED <<page, cookie, tables, tab, call>>

LoseAnswer(i) ==
  /\ requests[i].at = "answered"
  /\ requests[i].answer \in {"ok", "refused"}
  /\ Fault("answer_lost")
  /\ \E answer \in {"rejected", "failed"} : Answered(i, answer, FALSE)
  /\ UNCHANGED <<page, cookie, tables, tab, call>>

EndSession ==
  /\ cookie
  /\ Fault("session_ends")
  /\ cookie' = FALSE
  /\ UNCHANGED <<page, requests, tables, tab, call>>

(* DELETE /v1/agents/:name, by a client of the API.  The calls refer to    *)
(* their agent: the database refuses to delete one that has a call.        *)
DeleteAgent(a) ==
  /\ page \in {"agents", "calls"}
  /\ a \in DOMAIN agents \ called
  /\ Fault("agent_deleted")
  /\ agents' = Without(agents, a)
  /\ UNCHANGED <<page, cookie, requests, rows, prices, called, tab, call>>

-----------------------------------------------------------------------------
(* Mutation: response.ok is not looked at.                                 *)
AnyResponse(answer) == answer # "rejected"

(* What a handler looks at.  The answers of the API are JSON.              *)
ResponseOk(answer) == answer \in {"ok", "login"}
IsJson(answer) == answer \in {"ok", "refused"}

Over(i) == requests' = [requests EXCEPT ![i].at = "over"]

(* The agent editor: opened for an agent, or a new one.                    *)
OpenEditor(t, a) ==
  /\ MaySend
  /\ page = "agents" /\ cookie
  /\ ~editors[t].open
  /\ editors' = [editors EXCEPT ![t] =
       [Closed EXCEPT !.open = TRUE, !.name = a, !.isNew = a \notin DOMAIN agents,
                      !.form = IF a \in DOMAIN agents THEN FormOf(agents[a]) ELSE NewForm]]
  /\ UNCHANGED <<page, cookie, requests, faults, tables, dialog, switches, rates, saved, call>>

(* A link of the console leads to another page; what is under way goes on. *)
LeaveEditor(t) ==
  /\ editors[t].open
  /\ editors' = [editors EXCEPT ![t] = Closed]
  /\ UNCHANGED <<page, cookie, requests, faults, tables, dialog, switches, rates, saved,
                 call>>

EditForm(t, edit) ==
  /\ MaySend
  /\ editors[t].open /\ edit[1] \in EditableColumns(editors[t].form)
  /\ editors' = [editors EXCEPT ![t].form[edit[1]] = edit[2]]
  /\ UNCHANGED <<page, cookie, requests, faults, tables, dialog, switches, rates, saved,
                 call>>

(* handleSubmit.  The Save button is disabled while it waits.              *)
SubmitAgent(t) ==
  /\ editors[t].open /\ editors[t].waits = 0
  /\ Send(IF editors[t].isNew THEN "create_agent" ELSE "update_agent", t, editors[t].name,
          Body(editors[t].form, editors[t].isNew))
  /\ editors' = [editors EXCEPT ![t].waits = NextRequest, ![t].error = FALSE]
  /\ UNCHANGED <<page, cookie, faults, tables, dialog, switches, rates, saved, call>>

(* Hard navigation on success, from wherever the tab is by now; an error   *)
(* otherwise, unless fetch rejects.                                        *)
AgentAnswered(i) ==
  LET t == requests[i].from
      answer == requests[i].answer
  IN /\ editors' =
          IF ResponseOk(answer) THEN [editors EXCEPT ![t] = Closed]
          ELSE IF editors[t].waits # i THEN editors
          ELSE [editors EXCEPT ![t].waits = 0, ![t].error = answer # "rejected"]
     /\ saved' = IF ResponseOk(answer) THEN saved \cup {i} ELSE saved
     /\ UNCHANGED <<dialog, switches, rates>>

(* handleAddCustomModel: the column is that of the mode at the click.      *)
AddModel(t, m) ==
  /\ editors[t].open
  /\ Send("model", t, m,
          IF editors[t].form["voiceMode"] = "cascade" THEN "llmModel" ELSE "s2sModel")
  /\ UNCHANGED <<page, cookie, faults, tables, tab, call>>

ModelAnswered(i) ==
  LET r == requests[i]
      t == r.from
  IN /\ editors' = IF r.answer = "ok" /\ editors[t].open
                   THEN [editors EXCEPT ![t].form[r.body] = r.what]
                   ELSE editors
     /\ UNCHANGED <<dialog, switches, rates, saved>>

-----------------------------------------------------------------------------
(* The dialogs "New trunk", "New endpoint" and "New call", and the login   *)
(* form.                                                                   *)

(* onOpenChange: the trigger, or Escape.                                   *)
SetOpen ==
  /\ page \in Tables \cup {"calls"}
  /\ dialog' = [dialog EXCEPT !.open = ~@]
  /\ UNCHANGED <<page, cookie, requests, faults, tables, editors, switches, rates, saved,
                 call>>

(* The three dialogs send what is in their fields, of which the name       *)
(* matters.                                                                *)
NewTrunkDialog(name) ==
  page = "trunks" /\ name \in RowNames /\ Send("create_row", page, name, TRUE)

NewWebhookEndpointDialog(name) ==
  page = "webhooks" /\ name \in RowNames /\ Send("create_row", page, name, TRUE)

(* A number that is not E.164 is not sent, and changes nothing but the     *)
(* message beside it.                                                      *)
NewCallDialog(agent) ==
  page = "calls" /\ agent \in AgentNames /\ Send("call", page, agent, TRUE)

SubmitDialog(what) ==
  /\ dialog.open /\ dialog.waits = 0
  /\ NewTrunkDialog(what) \/ NewWebhookEndpointDialog(what) \/ NewCallDialog(what)
  /\ dialog' = [dialog EXCEPT !.waits = NextRequest, !.error = FALSE]
  /\ UNCHANGED <<page, cookie, faults, tables, editors, switches, rates, saved, call>>

(* The page gives every row a switch with its state; router.refresh() lets *)
(* it do so again, and a switch that is shown already keeps its own.       *)
SwitchOf(name) == [checked |-> rows[name], waits |-> 0]

Refreshed(shown) ==
  [name \in DOMAIN rows |-> IF name \in DOMAIN shown THEN shown[name] ELSE SwitchOf(name)]

(* Mutation: a body that is not JSON skips what should be done finally.    *)
DialogAnsweredUnlessThrown(i) ==
  LET answer == requests[i].answer
      closes == answer = "ok"
  IN /\ dialog' = IF IsJson(answer)
                  THEN [dialog EXCEPT !.waits = 0, !.open = @ /\ ~closes,
                                      !.error = answer = "refused"]
                  ELSE dialog
     /\ saved' = IF closes THEN saved \cup {i} ELSE saved
     /\ switches' = IF closes /\ page \in Tables THEN Refreshed(switches) ELSE switches
     /\ UNCHANGED <<editors, rates>>

(* The body is parsed before response.ok is looked at: what is not JSON    *)
(* throws, and leaves the dialog open without an error.                    *)
DialogAnswered(i) ==
  LET answer == requests[i].answer
      closes == answer = "ok"
  IN /\ dialog' = [dialog EXCEPT !.waits = 0, !.open = @ /\ ~closes,
                                 !.error = answer = "refused"]
     /\ saved' = IF closes THEN saved \cup {i} ELSE saved
     /\ switches' = IF closes /\ page \in Tables THEN Refreshed(switches) ELSE switches
     /\ UNCHANGED <<editors, rates>>

(* The login form, in a tab of its own.  Its answer sends that tab to the  *)
(* page it was redirected from, or shows an error.                         *)
SubmitLogin(valid) ==
  /\ ~cookie
  /\ \A i \in DOMAIN requests : requests[i].kind = "login" => ~InFlight(i)
  /\ Send("login", None, None, valid)
  /\ UNCHANGED <<page, cookie, faults, tables, tab, call>>

LoginAnswered(i) ==
  /\ saved' = IF ResponseOk(requests[i].answer) THEN saved \cup {i} ELSE saved
  /\ UNCHANGED <<editors, dialog, switches, rates>>

-----------------------------------------------------------------------------
(* TrunkActiveToggle and WebhookEndpointEnabledToggle.                     *)

TrunkActiveToggle(name) ==
  page = "trunks" /\ Send("update_row", page, name, ~switches[name].checked)

WebhookEndpointEnabledToggle(name) ==
  page = "webhooks" /\ Send("update_row", page, name, ~switches[name].checked)

Toggle(name) ==
  /\ name \in DOMAIN switches /\ switches[name].waits = 0
  /\ TrunkActiveToggle(name) \/ WebhookEndpointEnabledToggle(name)
  /\ switches' = [switches EXCEPT ![name].checked = ~@, ![name].waits = NextRequest]
  /\ UNCHANGED <<page, cookie, faults, tables, editors, dialog, rates, saved, call>>

(* Mutation: a refused change is not taken back.                           *)
NeverTakenBack(r) ==
  [switches EXCEPT ![r.what].waits = 0]

(* The switch is turned back, unless fetch rejects.                        *)
TakenBack(r) ==
  [switches EXCEPT ![r.what].waits = 0,
                   ![r.what].checked = IF r.answer \in {"refused", "failed"} THEN ~r.body ELSE @]

ToggleAnswered(i) ==
  LET r == requests[i]
      shown == TakenBack(r)
  IN /\ switches' = IF ResponseOk(r.answer) THEN Refreshed(shown) ELSE shown
     /\ UNCHANGED <<editors, dialog, rates, saved>>

-----------------------------------------------------------------------------
(* PriceTableEditor.                                                       *)

TypeRate(k, text) ==
  /\ MaySend
  /\ page = "settings"
  /\ rates' = [rates EXCEPT !.drafts = With(@, k, text)]
  /\ UNCHANGED <<page, cookie, requests, faults, tables, editors, dialog, switches, saved,
                 call>>

(* Mutation: the empty text is the number 0.                               *)
AnyRate(text) == NumberOf[text] >= 0

IsRate(text) == text # "" /\ NumberOf[text] >= 0

(* handleSave.  Only the row that savingId names has its button disabled.  *)
SaveRate(k) ==
  /\ page = "settings"
  /\ k \notin rates.savingId
  /\ IF k \in DOMAIN rates.drafts /\ ~IsRate(rates.drafts[k])
     THEN /\ rates' = [rates EXCEPT !.errorId = {k}]
          /\ UNCHANGED requests
     ELSE /\ IF k \in DOMAIN rates.drafts
             THEN Send("price", rates.drafts[k], k, NumberOf[rates.drafts[k]])
             ELSE Send("price", None, k, rates.entries[k])
          /\ rates' = [rates EXCEPT !.savingId = {k}, !.errorId = {}]
  /\ UNCHANGED <<page, cookie, faults, tables, editors, dialog, switches, saved, call>>

(* The answer is the row as it is stored.                                  *)
RateAnswered(i) ==
  LET r == requests[i]
  IN /\ rates' = IF r.answer = "ok"
                 THEN [rates EXCEPT !.entries[r.what] = Rounded(r.body),
                                    !.drafts = Without(@, r.what), !.savingId = {}]
                 ELSE [rates EXCEPT !.errorId = {r.what}, !.savingId = {}]
     /\ UNCHANGED <<editors, dialog, switches, saved>>

-----------------------------------------------------------------------------
(* The handler of the form goes on with the answer.                        *)
Answer(i) ==
  /\ requests[i].at = "answered"
  /\ Over(i)
  /\ \/ requests[i].kind \in {"create_agent", "update_agent"} /\ AgentAnswered(i)
     \/ requests[i].kind = "model" /\ ModelAnswered(i)
     \/ requests[i].kind \in {"create_row", "call"} /\ DialogAnswered(i)
     \/ requests[i].kind = "login" /\ LoginAnswered(i)
     \/ requests[i].kind = "update_row" /\ ToggleAnswered(i)
     \/ requests[i].kind = "price" /\ RateAnswered(i)
  /\ UNCHANGED <<page, cookie, faults, tables, call>>

-----------------------------------------------------------------------------
(* meterCallCost, for a call whose scenario has usage or not: it reads the *)
(* agent, and every leg becomes a CallCost row, or a cost_unpriced_leg     *)
(* event for want of a price.  That writes may fail is CallExecutor's.     *)
Meter ==
  /\ call.at = "ended"
  /\ \E usage \in BOOLEAN :
       call' = [call EXCEPT !.at = "metered", !.usage = usage,
                            !.legs = IF usage THEN LegsOf(agents[call.agent]) ELSE {}]
  /\ UNCHANGED <<page, cookie, requests, faults, tables, tab>>

-----------------------------------------------------------------------------
UserStep ==
  \/ \E t \in Tabs :
       \/ \E a \in AgentNames : OpenEditor(t, a)
       \/ \E edit \in Edits : EditForm(t, edit)
       \/ \E m \in ModelNames : AddModel(t, m)
       \/ SubmitAgent(t) \/ LeaveEditor(t)
  \/ SetOpen
  \/ \E what \in RowNames \cup AgentNames : SubmitDialog(what)
  \/ \E valid \in BOOLEAN : SubmitLogin(valid)
  \/ \E name \in RowNames : Toggle(name)
  \/ \E k \in PriceKeys : SaveRate(k) \/ \E text \in Texts : TypeRate(k, text)

Progress(i) == i \in DOMAIN requests /\ (Arrive(i) \/ Redirected(i) \/ Login(i) \/ Answer(i))

Next ==
  \/ UserStep
  \/ \E i \in DOMAIN requests : Progress(i) \/ LoseRequest(i) \/ LoseAnswer(i)
  \/ EndSession
  \/ \E a \in AgentNames : DeleteAgent(a)
  \/ Meter

(* The network answers or fails, and the worker goes on.                   *)
Fairness == (\A i \in 1..MaxRequests : WF_vars(Progress(i))) /\ WF_vars(Meter)

Spec == Init /\ [][Next]_vars /\ Fairness

-----------------------------------------------------------------------------
(* The fields of every agent fit its mode, whatever editors save at the    *)
(* same time and whichever answers are lost: a change of the mode leaves   *)
(* no provider behind that the list of the agents, which shows             *)
(* s2sProvider ?? llmProvider, would take for the agent's (admin.ts:76-83).*)
FieldsFitMode ==
  \A a \in DOMAIN agents :
    /\ Fits(agents[a])
    /\ ListedProvider(agents[a]) =
         agents[a][IF agents[a]["voiceMode"] = "cascade" THEN "llmProvider" ELSE "s2sProvider"]

(* docs/cost-model.md:8-14: what a call of this mode uses.                 *)
LegsIn(mode) ==
  CASE mode = "realtime" -> {"s2sProvider"}
    [] mode = "cascade" -> {"sttProvider", "llmProvider", "ttsProvider"}
    [] mode = "half_cascade" -> {"s2sProvider", "ttsProvider"}

About(kind, what) == {i \in DOMAIN requests : requests[i].kind = kind /\ requests[i].what = what}

(* The modes the call's agent has had since the call was placed.           *)
ModesSince ==
  {call.placed} \cup
    {requests[i].body["voiceMode"] :
       i \in {j \in About("update_agent", call.agent) : requests[j].served}}

(* meterCallUsage skips a leg without a provider, silently, and the agent  *)
(* is read when the call has ended (meter-call-cost.ts:31).  Still, a      *)
(* completed call with usage is billed every leg of one mode that its agent*)
(* has had since it was placed, and none of another: not of a mixture of   *)
(* what two tabs have saved, nor of a mode that was never in force.        *)
BilledInOneMode ==
  call.at = "metered" /\ call.usage => \E mode \in ModesSince : call.legs = LegsIn(mode)

(* A form that is left as saved was served by the API, unless the session  *)
(* had ended.                                                              *)
SavedMeansServed ==
  \A i \in saved : requests[i].served \/ requests[i].answer = "login"

(* The requests whose outcome the console knows from the answer.           *)
Known(r) ==
  \/ r.answer = "ok"
  \/ r.answer \in {"refused", "failed"} /\ ~r.served

(* When nothing is in flight the switches and rates of the page are those  *)
(* in the database: if the outcome of every change was known, and no two   *)
(* changes of a rate overlapped.                                           *)
QuietPageShowsTheTables ==
  /\ \A name \in DOMAIN switches :
       (\A i \in About("update_row", name) : ~InFlight(i) /\ Known(requests[i]))
         => switches[name].checked = rows[name]
  /\ page = "settings" =>
       \A k \in PriceKeys :
         (\A i \in About("price", k) : ~InFlight(i) /\ Known(requests[i]) /\ requests[i].alone)
           => rates.entries[k] = prices[k]

(* What somebody typed for this rate, as its column keeps it.              *)
Typed(k) ==
  {Rounded(NumberOf[requests[i].from]) :
     i \in {j \in About("price", k) : requests[j].from \in Texts \ {""}}}

(* No rate comes out of nothing: each is the initial one or was typed into *)
(* its row, however saves and answers overlap, whichever are lost, and     *)
(* whatever older rate the page still shows and sends again.  Above all, no*)
(* emptied field makes a leg free (price-table-editor.tsx:30-31).          *)
RatesWereTyped == \A k \in PriceKeys : prices[k] \in {InitialPrices[k]} \cup Typed(k)

(* What waits for an answer.                                               *)
WaitsFor(i) ==
  \/ \E t \in Tabs : editors[t].waits = i
  \/ dialog.waits = i
  \/ \E name \in DOMAIN switches : switches[name].waits = i
  \/ i \in DOMAIN requests /\ requests[i].kind = "price" /\ requests[i].what \in rates.savingId

(* No form, dialog, switch or rate waits for ever, whatever the answer is: *)
(* again and again (with finitely many requests: in the end) none waits.   *)
NoFormHangs == []<>(\A i \in 1..MaxRequests : ~WaitsFor(i))
=============================================================================
