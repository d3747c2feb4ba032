---------------------------- MODULE AgentConfigs ----------------------------
(***************************************************************************)
(* An agent's configuration: the row, the editor's form, the body the form *)
(* sends, what the API makes of it, and what a call of the agent is billed *)
(* for.  Pure operators.                                                   *)
(*                                                                         *)
(* The columns are those whose meaning depends on the voice mode, and the  *)
(* language profile.  prompt, enableShortFirstResponse and isActive are    *)
(* sent and stored as they are, always, and are left out.                  *)
(***************************************************************************)
EXTENDS Integers, FiniteSets

VoiceModes == {"cascade", "half_cascade", "realtime"}
S2sProviders == {"gemini", "openai", "azure"}
SttProviders == {"deepgram"}
LlmProviders == {"openai", "google", "azure"}
TtsProviders == {"elevenlabs", "cartesia"}
ReasoningEfforts == {"none", "low", "medium", "high"}

ProviderColumns == {"s2sProvider", "sttProvider", "llmProvider", "ttsProvider"}
OptionalColumns == {"s2sModel", "llmModel", "ttsVoiceId"}
ModeColumns == ProviderColumns \cup OptionalColumns \cup {"reasoningEffort"}
Columns == ModeColumns \cup {"voiceMode", "languageProfileId"}

Null == "null"

(* usesS2s, usesStt, usesLlm, usesTts: the columns a mode has a use for.   *)
UsedColumns(mode) ==
  {c \in ModeColumns :
     \/ mode \in {"realtime", "half_cascade"} /\ c \in {"s2sProvider", "s2sModel"}
     \/ mode = "cascade" /\ c \in {"sttProvider", "llmProvider", "llmModel"}
     \/ mode \in {"cascade", "half_cascade"} /\ c \in {"ttsProvider", "ttsVoiceId"}
     \/ mode = "realtime" /\ c = "reasoningEffort"}

UnusedColumns(mode) == ModeColumns \ UsedColumns(mode)

-----------------------------------------------------------------------------
(* The editor.                                                             *)

(* The fields that are shown, of which sttProvider cannot be changed.      *)
EditableColumns(form) ==
  {"voiceMode", "languageProfileId"} \cup (UsedColumns(form["voiceMode"]) \ {"sttProvider"})

(* What the form shows for a column without a value, and for a new agent.  *)
FormDefault(c) ==
  CASE c = "voiceMode" -> "cascade"
    [] c = "s2sProvider" -> "gemini"
    [] c = "sttProvider" -> "deepgram"
    [] c = "llmProvider" -> "openai"
    [] c = "ttsProvider" -> "elevenlabs"
    [] c = "reasoningEffort" -> "none"
    [] OTHER -> ""

NewForm == [c \in Columns |-> FormDefault(c)]

FormOf(row) == [c \in Columns |-> IF row[c] = Null THEN FormDefault(c) ELSE row[c]]

(* Mutation: what cannot be changed is not sent.                           *)
SentWhenEditable(form) ==
  {"voiceMode"}
    \cup {c \in EditableColumns(form) \cap ModeColumns : c \in OptionalColumns => form[c] # ""}
    \cup {c \in {"languageProfileId"} : form[c] # ""}

(* The columns handleSubmit sends with the form's values.                  *)
SentColumns(form) ==
  {"voiceMode"}
    \cup {c \in UsedColumns(form["voiceMode"]) : c \in OptionalColumns => form[c] # ""}
    \cup {c \in {"languageProfileId"} : form[c] # ""}

(* Mutation: a change of the mode does not clear the other mode's columns. *)
ClearedNone(form) == {c \in {"languageProfileId"} : form[c] = ""}

(* The columns it clears in a row that exists.                             *)
ClearedColumns(form) ==
  UnusedColumns(form["voiceMode"]) \cup {c \in {"languageProfileId"} : form[c] = ""}

(* The request body: a column that is not in its domain is omitted.        *)
Body(form, isNew) ==
  LET sent == SentColumns(form)
      cleared == IF isNew THEN {} ELSE ClearedColumns(form)
  IN [c \in sent \cup cleared |-> IF c \in sent THEN form[c] ELSE Null]

-----------------------------------------------------------------------------
(* The API.                                                                *)

(* The Zod schemas: the enums, and a model's or voice's name, which is any *)
(* nonempty text.                                                          *)
ValidValue(c, value) ==
  CASE c = "voiceMode" -> value \in VoiceModes
    [] c = "s2sProvider" -> value \in S2sProviders
    [] c = "sttProvider" -> value \in SttProviders
    [] c = "llmProvider" -> value \in LlmProviders
    [] c = "ttsProvider" -> value \in TtsProviders
    [] c = "reasoningEffort" -> value \in ReasoningEfforts
    [] c = "languageProfileId" -> TRUE
    [] OTHER -> value # ""

(* CreateAgentConfigBodySchema, and UpdateAgentConfigBodySchema, in which  *)
(* every column but the mode may be null.                                  *)
ValidCreate(body) == \A c \in DOMAIN body : body[c] # Null /\ ValidValue(c, body[c])

ValidUpdate(body) ==
  \A c \in DOMAIN body :
    \/ body[c] = Null /\ c # "voiceMode"
    \/ ValidValue(c, body[c])

(* agentConfigRepo.create and update: omitted is null, and unchanged.      *)
Created(body) == [c \in Columns |-> IF c \in DOMAIN body THEN body[c] ELSE Null]

Updated(row, body) == [c \in Columns |-> IF c \in DOMAIN body THEN body[c] ELSE row[c]]

-----------------------------------------------------------------------------
(* What is made of a row.                                                  *)

(* s2sProvider ?? llmProvider, in the list of the agents.                  *)
ListedProvider(row) == IF row["s2sProvider"] # Null THEN row["s2sProvider"] ELSE row["llmProvider"]

(* meterCallUsage: the legs of a mode,                                     *)
BilledColumns(mode) ==
  {c \in ProviderColumns :
     \/ mode \in {"realtime", "half_cascade"} /\ c = "s2sProvider"
     \/ mode = "cascade" /\ c \in {"sttProvider", "llmProvider"}
     \/ mode \in {"cascade", "half_cascade"} /\ c = "ttsProvider"}

(* of which those with a provider are metered.                             *)
LegsOf(row) == {c \in BilledColumns(row["voiceMode"]) : row[c] # Null}

-----------------------------------------------------------------------------
(* The fields fit the mode: what the mode does not use is empty, and every *)
(* provider it uses is there.                                              *)
Fits(row) ==
  /\ row["voiceMode"] \in VoiceModes
  /\ \A c \in UnusedColumns(row["voiceMode"]) : row[c] = Null
  /\ \A c \in UsedColumns(row["voiceMode"]) \cap ProviderColumns : row[c] # Null
=============================================================================
