--------------------------- MODULE VoiceSessions ---------------------------
(***************************************************************************)
(* How a call's voice session is put together: the runner the worker takes,*)
(* the providers a session of each voice mode is built from, the failover  *)
(* along a chain of providers and the language profile.  Pure operators,   *)
(* and theorems about them; the builders are ready but not wired to the    *)
(* worker, whose runners play the scripted session.                        *)
(*                                                                         *)
(* A session is the function from its legs, named as the columns of an     *)
(* agent's row, to the engine of each: the provider, and the model, voice, *)
(* language and key it is created with.  env is the set of the environment *)
(* variables that are set; a key is named after its variable.              *)
(* PROVIDER_STUB_MODE and CALL_RUNNER are in env if they are "true" and    *)
(* "livekit".                                                              *)
(***************************************************************************)
EXTENDS AgentConfigs, Sequences, WellFoundedInduction, TLAPS

CONSTANTS
  GeminiModels,    \* the names of models that start with "gemini-"
  PrimaryTag       \* of each language code, what stands before its "-"

Stub == "stub session"

isAzureConfigured(env) == {"AZURE_OPENAI_API_KEY", "AZURE_OPENAI_ENDPOINT"} \subseteq env

-----------------------------------------------------------------------------
(* The engines.  Null is also what is left to the provider.                *)

OrElse(value, default) == IF value # Null THEN value ELSE default

(* The variable that holds the key of a provider.                          *)
KeyName ==
  [deepgram |-> "DEEPGRAM_API_KEY", elevenlabs |-> "ELEVENLABS_API_KEY",
   cartesia |-> "CARTESIA_API_KEY", openai |-> "OPENAI_API_KEY",
   azure |-> "AZURE_OPENAI_API_KEY", google |-> "GOOGLE_API_KEY", gemini |-> "GOOGLE_API_KEY"]

(* The keys a builder hands out, of the variables that are set.            *)
resolveApiKeys(env) ==
  [name \in {KeyName[provider] : provider \in DOMAIN KeyName} |-> IF name \in env THEN name ELSE Null]

Engine(provider, model, voice, language, apiKey) ==
  [provider |-> provider, model |-> model, voice |-> voice, language |-> language, apiKey |-> apiKey]

createDeepgramStt(apiKey, language) ==
  Engine("deepgram", "nova-3", Null, OrElse(language, "en-US"), apiKey)

createGeminiLlm(apiKey, model) ==
  Engine("google", OrElse(model, "gemini-2.0-flash-001"), Null, Null, apiKey)

createAzureLlm(apiKey, deployment) == Engine("azure", deployment, Null, Null, apiKey)

createElevenLabsTts(apiKey, voiceId, languageCode) ==
  Engine("elevenlabs", "eleven_flash_v2_5", OrElse(voiceId, "Bella"), OrElse(languageCode, "en"), apiKey)

createCartesiaTts(apiKey, voiceId, languageCode) ==
  Engine("cartesia", "sonic-3", OrElse(voiceId, "62ae83ad"), OrElse(languageCode, "en"), apiKey)

createGeminiRealtimeModel(apiKey, model, language) ==
  Engine("gemini", OrElse(model, "gemini-2.0-flash-live-001"), Null, language, apiKey)

createOpenAIRealtimeModel(apiKey, model) ==
  Engine("openai", OrElse(model, "gpt-realtime"), "marin", Null, apiKey)

createAzureRealtimeModel(apiKey, azureDeployment) ==
  Engine("azure", azureDeployment, "marin", Null, apiKey)

-----------------------------------------------------------------------------
(* The sessions, of an agent's row in a language.                          *)

buildTts(p, lang, env) ==
  LET keys == resolveApiKeys(env)
  IN IF p["ttsProvider"] = "cartesia"
     THEN createCartesiaTts(keys["CARTESIA_API_KEY"], p["ttsVoiceId"], PrimaryTag[lang])
     ELSE createElevenLabsTts(keys["ELEVENLABS_API_KEY"], p["ttsVoiceId"], PrimaryTag[lang])

buildCascadeSession(p, lang, env) ==
  LET keys == resolveApiKeys(env)
  IN [sttProvider |-> createDeepgramStt(keys["DEEPGRAM_API_KEY"], lang),
      llmProvider |-> IF p["llmModel"] \in GeminiModels
                      THEN createGeminiLlm(keys["GOOGLE_API_KEY"], p["llmModel"])
                      ELSE createAzureLlm(keys["AZURE_OPENAI_API_KEY"], p["llmModel"]),
      ttsProvider |-> buildTts(p, lang, env)]

(* The speech-to-speech model of a session that is not Gemini's.           *)
OpenAIModel(p, env) ==
  LET keys == resolveApiKeys(env)
  IN IF p["s2sProvider"] = "azure" \/ isAzureConfigured(env)
     THEN createAzureRealtimeModel(keys["AZURE_OPENAI_API_KEY"], OrElse(p["s2sModel"], p["llmModel"]))
     ELSE createOpenAIRealtimeModel(keys["OPENAI_API_KEY"], p["s2sModel"])

(* Gemini's has an STT of its own beside it, if there is a key for one.    *)
buildRealtimeSession(p, lang, env) ==
  LET keys == resolveApiKeys(env)
      gemini == createGeminiRealtimeModel(keys["GOOGLE_API_KEY"], p["s2sModel"], lang)
  IN IF p["s2sProvider"] # "gemini" THEN [s2sProvider |-> OpenAIModel(p, env)]
     ELSE IF "DEEPGRAM_API_KEY" \in env
     THEN [s2sProvider |-> gemini, sttProvider |-> createDeepgramStt("DEEPGRAM_API_KEY", lang)]
     ELSE [s2sProvider |-> gemini]

buildHalfCascadeSession(p, lang, env) ==
  IF p["s2sProvider"] = "gemini" THEN buildRealtimeSession(p, lang, env)
  ELSE [s2sProvider |-> OpenAIModel(p, env), ttsProvider |-> buildTts(p, lang, env)]

buildSessionFromMode(p, lang, env) ==
  CASE p["voiceMode"] = "cascade" -> buildCascadeSession(p, lang, env)
    [] p["voiceMode"] = "realtime" -> buildRealtimeSession(p, lang, env)
    [] p["voiceMode"] = "half_cascade" -> buildHalfCascadeSession(p, lang, env)

resolveVoiceSession(p, lang, env) ==
  IF "PROVIDER_STUB_MODE" \in env THEN Stub ELSE buildSessionFromMode(p, lang, env)

(* The runner of a call, or that its job fails.                            *)
buildCallRunner(call, env) ==
  IF "CALL_RUNNER" \notin env THEN "StubCallRunner"
  ELSE IF "PROVIDER_STUB_MODE" \notin env THEN "throws"
  ELSE IF call.channel # "sip" THEN "RealCallRunner"
  ELSE IF call.toNumber = Null THEN "throws"
  ELSE "RealCallRunner"

-----------------------------------------------------------------------------
(* Failover.                                                               *)

(* The chain of a type: its active profiles, the primary ones first.       *)
ActiveProfiles(profiles, type) == {p \in profiles : p.providerType = type /\ p.isActive}

IsProviderChain(chain, profiles, type) ==
  /\ chain \in Seq(ActiveProfiles(profiles, type))
  /\ \A p \in ActiveProfiles(profiles, type) : \E i \in DOMAIN chain : chain[i] = p
  /\ \A i, j \in DOMAIN chain :
       chain[i].priority = "secondary" /\ chain[j].priority = "primary" => j < i

(* The entries, by place, for which initFn is called: working are those it *)
(* resolves for, lost those whose failover_triggered event cannot be       *)
(* appended, which rejects the whole resolution.                           *)
Tried(chain, working, lost) ==
  {i \in DOMAIN chain : \A j \in DOMAIN chain : j < i => j \notin working \cup lost}

(* What resolveProvider returns, if anything, the events it has appended,  *)
(* and why it throws.                                                      *)
resolveProvider(chain, working, lost) ==
  LET tried == Tried(chain, working, lost)
  IN [result |-> tried \cap working,
      events |-> tried \ (working \cup lost),
      error |-> IF tried \cap working # {} THEN "none"
                ELSE IF tried \cap lost # {} THEN "append"
                ELSE "AllProvidersFailedError"]

-----------------------------------------------------------------------------
(* profiles is the function from the language codes there are to their     *)
(* profiles.                                                               *)
NoLanguageContext(languageCode) ==
  [systemPromptPrefix |-> "", ttsVoiceId |-> Null, sttLanguageCode |-> languageCode]

LanguageContext(profile, languageCode) ==
  [systemPromptPrefix |-> profile.systemPromptPrefix,
   ttsVoiceId |-> profile.defaultTtsVoiceId,
   sttLanguageCode |-> IF profile.defaultSttLanguageCode # Null
                       THEN profile.defaultSttLanguageCode ELSE languageCode]

loadByCode(profiles, languageCode) ==
  IF languageCode \in DOMAIN profiles
  THEN LanguageContext(profiles[languageCode], languageCode)
  ELSE IF "en-US" \in DOMAIN profiles
  THEN LanguageContext(profiles["en-US"], languageCode)
  ELSE NoLanguageContext(languageCode)

-----------------------------------------------------------------------------
LEMMA LeastElement ==
  ASSUME NEW T \in SUBSET Nat, T # {}
  PROVE  \E m \in T : \A k \in T : m <= k
<1>1. PICK m \in T : \A k \in T : <<k, m>> \notin OpToRel(<, Nat)
  BY NatLessThanWellFounded, WFMin
<1>2. OpToRel(<, Nat) = {ss \in Nat \X Nat : ss[1] < ss[2]}
  BY DEF OpToRel
<1>3. \A k \in T : m <= k
  <2>1. SUFFICES ASSUME NEW k \in T, ~(m <= k) PROVE FALSE
    OBVIOUS
  <2>2. k < m /\ <<k, m>> \in Nat \X Nat
    BY <2>1
  <2> QED
    BY <1>1, <1>2, <2>1, <2>2
<1> QED
  BY <1>3

LEMMA Keys ==
  ASSUME NEW env
  PROVE  \A provider \in DOMAIN KeyName :
           resolveApiKeys(env)[KeyName[provider]] \in {Null, KeyName[provider]}
BY DEF resolveApiKeys

(* A TTS has the key of its provider, the agent's voice, if it has one,    *)
(* and the language of the call.                                           *)
LEMMA TtsEngine ==
  ASSUME NEW p, NEW lang, NEW env
  PROVE  LET tts == buildTts(p, lang, env)
         IN /\ tts.provider = IF p["ttsProvider"] = "cartesia" THEN "cartesia" ELSE "elevenlabs"
            /\ tts.apiKey \in {Null, KeyName[tts.provider]}
            /\ p["ttsVoiceId"] # Null => tts.voice = p["ttsVoiceId"]
            /\ tts.language = OrElse(PrimaryTag[lang], "en")
BY Keys DEF buildTts, createCartesiaTts, createElevenLabsTts, Engine, OrElse, KeyName

(* A speech-to-speech model that is not Gemini's has the key of its        *)
(* provider, and the agent's model, if it has one.                         *)
LEMMA OpenAIEngine ==
  ASSUME NEW p, NEW env
  PROVE  LET s2s == OpenAIModel(p, env)
         IN /\ s2s.provider = IF p["s2sProvider"] = "azure" \/ isAzureConfigured(env)
                              THEN "azure" ELSE "openai"
            /\ s2s.apiKey \in {Null, KeyName[s2s.provider]}
            /\ p["s2sModel"] # Null => s2s.model = p["s2sModel"]
            /\ s2s.language = Null
BY Keys DEF OpenAIModel, createAzureRealtimeModel, createOpenAIRealtimeModel, Engine, OrElse, KeyName

LEMMA GeminiEngine ==
  ASSUME NEW p, NEW lang, NEW env, p["s2sProvider"] = "gemini"
  PROVE  LET s == buildRealtimeSession(p, lang, env)
         IN /\ DOMAIN s \in {{"s2sProvider"}, {"s2sProvider", "sttProvider"}}
            /\ s["s2sProvider"].provider = "gemini"
            /\ \A leg \in DOMAIN s : s[leg].apiKey \in {Null, KeyName[s[leg].provider]}
            /\ p["s2sModel"] # Null => s["s2sProvider"].model = p["s2sModel"]
            /\ s["s2sProvider"].language = lang
            /\ "sttProvider" \in DOMAIN s => s["sttProvider"].language = OrElse(lang, "en-US")
BY Keys DEF buildRealtimeSession, createGeminiRealtimeModel, createDeepgramStt, Engine, OrElse, KeyName

LEMMA CascadeEngines ==
  ASSUME NEW p, NEW lang, NEW env
  PROVE  LET s == buildCascadeSession(p, lang, env)
         IN /\ DOMAIN s = {"sttProvider", "llmProvider", "ttsProvider"}
            /\ s["sttProvider"].provider = "deepgram" /\ s["ttsProvider"] = buildTts(p, lang, env)
            /\ \A leg \in {"sttProvider", "llmProvider"} :
                 s[leg].apiKey \in {Null, KeyName[s[leg].provider]}
            /\ p["llmModel"] # Null => s["llmProvider"].model = p["llmModel"]
            /\ s["sttProvider"].language = OrElse(lang, "en-US")
BY Keys DEF buildCascadeSession, createDeepgramStt, createGeminiLlm, createAzureLlm, Engine, OrElse, KeyName

LEMMA SessionShapes ==
  ASSUME NEW p, NEW lang, NEW env, p["voiceMode"] \in VoiceModes
  PROVE  LET s == buildSessionFromMode(p, lang, env)
         IN \/ p["voiceMode"] = "cascade" /\ s = buildCascadeSession(p, lang, env)
            \/ /\ p["voiceMode"] # "cascade" /\ p["s2sProvider"] = "gemini"
               /\ s = buildRealtimeSession(p, lang, env)
            \/ /\ p["voiceMode"] = "realtime" /\ p["s2sProvider"] # "gemini"
               /\ s = [s2sProvider |-> OpenAIModel(p, env)]
            \/ /\ p["voiceMode"] = "half_cascade" /\ p["s2sProvider"] # "gemini"
               /\ s = [s2sProvider |-> OpenAIModel(p, env), ttsProvider |-> buildTts(p, lang, env)]
BY DEF VoiceModes, buildSessionFromMode, buildRealtimeSession, buildHalfCascadeSession

(* A session is built of the legs its calls are billed for, and of no      *)
(* other: except that half_cascade with Gemini is a realtime session,      *)
(* whose calls are billed for speech nobody synthesises, and that the STT  *)
(* beside Gemini's realtime model is billed to nobody (session-builders.ts *)
(* :107-111 and :132-140 against cost-meter.ts).                           *)
THEOREM LegsAreBilled ==
  ASSUME NEW p \in [Columns -> STRING], Fits(p), NEW lang, NEW env
  PROVE  LET legs == DOMAIN buildSessionFromMode(p, lang, env)
             gemini == p["s2sProvider"] = "gemini"
         IN /\ BilledColumns(p["voiceMode"]) \ legs \subseteq
                 {leg \in {"ttsProvider"} : p["voiceMode"] = "half_cascade" /\ gemini}
            /\ legs \ BilledColumns(p["voiceMode"]) \subseteq
                 {leg \in {"sttProvider"} : p["voiceMode"] # "cascade" /\ gemini}
<1>1. p["voiceMode"] \in VoiceModes
  BY DEF Fits
<1>2. CASE p["voiceMode"] = "cascade"
  BY <1>2 DEF buildSessionFromMode, buildCascadeSession, BilledColumns, ProviderColumns
<1>3. CASE p["voiceMode"] = "realtime"
  BY <1>3 DEF buildSessionFromMode, buildRealtimeSession, BilledColumns, ProviderColumns
<1>4. CASE p["voiceMode"] = "half_cascade"
  BY <1>4 DEF buildSessionFromMode, buildHalfCascadeSession, buildRealtimeSession,
              BilledColumns, ProviderColumns
<1> QED
  BY <1>1, <1>2, <1>3, <1>4 DEF VoiceModes

(* Each leg is served by the provider in the agent's row, with the         *)
(* exceptions that the builders make: OpenAI's speech-to-speech model is   *)
(* Azure's where Azure is configured, and the LLM is chosen by the name of *)
(* the model, whatever llmProvider says (session-builders.ts:65-79).       *)
THEOREM ConfiguredProviderServes ==
  ASSUME NEW p \in [Columns -> STRING], Fits(p), NEW lang, NEW env,
         \A c \in Columns : p[c] = Null \/ ValidValue(c, p[c]),
         NEW leg \in DOMAIN buildSessionFromMode(p, lang, env), p[leg] # Null
  PROVE  \/ buildSessionFromMode(p, lang, env)[leg].provider = p[leg]
         \/ leg = "s2sProvider" /\ p[leg] = "openai" /\ isAzureConfigured(env)
         \/ leg = "llmProvider"
<1> DEFINE session == buildSessionFromMode(p, lang, env)
<1>1. p["voiceMode"] \in VoiceModes
  BY DEF Fits
<1>2. \A c \in ProviderColumns : p[c] # Null => ValidValue(c, p[c])
  BY DEF ProviderColumns, ModeColumns, Columns
<1>3. /\ p["s2sProvider"] # Null => p["s2sProvider"] \in S2sProviders
      /\ p["sttProvider"] # Null => p["sttProvider"] = "deepgram"
      /\ p["ttsProvider"] # Null => p["ttsProvider"] \in TtsProviders
  BY <1>2 DEF ValidValue, ProviderColumns, SttProviders
<1>4. p["ttsProvider"] # Null => buildTts(p, lang, env).provider = p["ttsProvider"]
  BY <1>3, TtsEngine DEF TtsProviders
<1>5. p["s2sProvider"] # Null /\ p["s2sProvider"] # "gemini" =>
        \/ OpenAIModel(p, env).provider = p["s2sProvider"]
        \/ p["s2sProvider"] = "openai" /\ isAzureConfigured(env)
  BY <1>3, OpenAIEngine DEF S2sProviders
<1>6. CASE p["voiceMode"] = "cascade"
  <2>1. /\ DOMAIN session = {"sttProvider", "llmProvider", "ttsProvider"}
        /\ session["sttProvider"].provider = "deepgram"
        /\ session["ttsProvider"] = buildTts(p, lang, env)
    BY <1>1, <1>6, SessionShapes, CascadeEngines
  <2> QED
    BY <1>3, <1>4, <2>1
<1>7. CASE p["voiceMode"] # "cascade"
  <2>1. p["sttProvider"] = Null
    BY <1>7 DEF Fits, UnusedColumns, UsedColumns, ModeColumns, ProviderColumns
  <2>2. CASE p["s2sProvider"] = "gemini"
    <3>1. /\ DOMAIN session \in {{"s2sProvider"}, {"s2sProvider", "sttProvider"}}
          /\ session["s2sProvider"].provider = "gemini"
      BY <1>1, <1>7, <2>2, SessionShapes, GeminiEngine
    <3> QED
      BY <2>1, <2>2, <3>1
  <2>3. CASE p["s2sProvider"] # "gemini"
    <3>1. /\ DOMAIN session \subseteq {"s2sProvider", "ttsProvider"}
          /\ session["s2sProvider"] = OpenAIModel(p, env)
          /\ "ttsProvider" \in DOMAIN session => session["ttsProvider"] = buildTts(p, lang, env)
      BY <1>1, <1>7, <2>3, SessionShapes
    <3> QED
      BY <1>4, <1>5, <2>3, <3>1
  <2> QED
    BY <2>2, <2>3
<1> QED
  BY <1>6, <1>7

(* No provider is handed the key of another one: each engine of a session  *)
(* is created with the key of its own provider or with none, for which the *)
(* SDK then looks itself, whichever keys are set (session-builders.ts:34). *)
THEOREM KeysGoToTheirProviders ==
  ASSUME NEW p \in [Columns -> STRING], Fits(p), NEW lang, NEW env,
         NEW leg \in DOMAIN buildSessionFromMode(p, lang, env)
  PROVE  LET engine == buildSessionFromMode(p, lang, env)[leg]
         IN engine.apiKey \in {Null, KeyName[engine.provider]}
<1> DEFINE session == buildSessionFromMode(p, lang, env)
<1>1. p["voiceMode"] \in VoiceModes
  BY DEF Fits
<1>2. CASE session = buildCascadeSession(p, lang, env)
  BY <1>2, CascadeEngines, TtsEngine
<1>3. CASE p["s2sProvider"] = "gemini" /\ session = buildRealtimeSession(p, lang, env)
  BY <1>3, GeminiEngine
<1>4. CASE session = [s2sProvider |-> OpenAIModel(p, env)]
  BY <1>4, OpenAIEngine
<1>5. CASE session = [s2sProvider |-> OpenAIModel(p, env), ttsProvider |-> buildTts(p, lang, env)]
  BY <1>5, OpenAIEngine, TtsEngine
<1> QED
  BY <1>1, <1>2, <1>3, <1>4, <1>5, SessionShapes

(* A model or a voice chosen in the editor is what the session is created  *)
(* with, in each mode that keeps the column: but for the voice of a        *)
(* half_cascade agent with Gemini, which speaks with a voice of its own    *)
(* (session-builders.ts:137-140).                                          *)
THEOREM ChoicesReachTheirEngines ==
  ASSUME NEW p \in [Columns -> STRING], Fits(p), NEW lang, NEW env
  PROVE  LET session == buildSessionFromMode(p, lang, env)
         IN /\ p["llmModel"] # Null =>
                 "llmProvider" \in DOMAIN session /\ session["llmProvider"].model = p["llmModel"]
            /\ p["s2sModel"] # Null =>
                 "s2sProvider" \in DOMAIN session /\ session["s2sProvider"].model = p["s2sModel"]
            /\ p["ttsVoiceId"] # Null =>
                 \/ "ttsProvider" \in DOMAIN session /\ session["ttsProvider"].voice = p["ttsVoiceId"]
                 \/ p["voiceMode"] = "half_cascade" /\ p["s2sProvider"] = "gemini"
<1> DEFINE session == buildSessionFromMode(p, lang, env)
<1>1. p["voiceMode"] \in VoiceModes
  BY DEF Fits
<1>2. /\ p["voiceMode"] # "cascade" => p["llmModel"] = Null
      /\ p["voiceMode"] = "cascade" => p["s2sModel"] = Null
      /\ p["voiceMode"] = "realtime" => p["ttsVoiceId"] = Null
  BY DEF Fits, UnusedColumns, UsedColumns, ModeColumns, ProviderColumns, OptionalColumns
<1>3. CASE p["voiceMode"] = "cascade" /\ session = buildCascadeSession(p, lang, env)
  BY <1>2, <1>3, CascadeEngines, TtsEngine
<1>4. CASE /\ p["voiceMode"] # "cascade" /\ p["s2sProvider"] = "gemini"
           /\ session = buildRealtimeSession(p, lang, env)
  BY <1>1, <1>2, <1>4, GeminiEngine DEF VoiceModes
<1>5. CASE /\ p["voiceMode"] = "realtime"
           /\ session = [s2sProvider |-> OpenAIModel(p, env)]
  BY <1>2, <1>5, OpenAIEngine
<1>6. CASE /\ p["voiceMode"] = "half_cascade"
           /\ session = [s2sProvider |-> OpenAIModel(p, env), ttsProvider |-> buildTts(p, lang, env)]
  BY <1>2, <1>6, OpenAIEngine, TtsEngine
<1> QED
  BY <1>1, <1>3, <1>4, <1>5, <1>6, SessionShapes

(* While the real runner is in use no call may have a real provider: it    *)
(* only plays the script, and an agent that is to be real is refused       *)
(* (build-call-runner.ts:31-36).                                           *)
THEOREM RealRunnerPlaysTheStub ==
  ASSUME NEW call, NEW p, NEW lang, NEW env, buildCallRunner(call, env) = "RealCallRunner"
  PROVE  resolveVoiceSession(p, lang, env) = Stub
BY DEF buildCallRunner, resolveVoiceSession

-----------------------------------------------------------------------------
(* The first provider of the chain that can be initialised is the one, and *)
(* no other is initialised after it; each one before it has its event; and *)
(* it is found, unless an event before it cannot be recorded               *)
(* (failover-resolver.ts:42-78).                                           *)
THEOREM FirstWorkingProviderWins ==
  ASSUME NEW S, NEW chain \in Seq(S),
         NEW working \in SUBSET DOMAIN chain, NEW lost \in SUBSET DOMAIN chain,
         working \cap lost = {}
  PROVE  LET r == resolveProvider(chain, working, lost)
         IN /\ \A i \in r.result : (\A j \in working : i <= j) /\ r.events = 1..(i-1)
            /\ r.error = "none" <=> \E i \in working : \A j \in lost : i < j
<1> DEFINE tried == Tried(chain, working, lost)
<1>1. DOMAIN chain = 1..Len(chain) /\ Len(chain) \in Nat
  OBVIOUS
<1>2. ASSUME NEW i \in tried \cap working
      PROVE  (\A j \in working : i <= j) /\ tried \ (working \cup lost) = 1..(i-1)
  <2>1. i \in 1..Len(chain) /\ \A j \in 1..Len(chain) : j < i => j \notin working \cup lost
    BY <1>1, <1>2 DEF Tried
  <2>2. \A j \in 1..(i-1) : j \in tried \ (working \cup lost)
    BY <1>1, <2>1 DEF Tried
  <2>3. \A j \in tried \ (working \cup lost) : j \in 1..(i-1)
    <3>1. SUFFICES ASSUME NEW j \in tried, j \notin 1..(i-1), j \notin working
                   PROVE  FALSE
      OBVIOUS
    <3>2. j \in 1..Len(chain) /\ \A k \in 1..Len(chain) : k < j => k \notin working
      BY <1>1 DEF Tried
    <3>3. i < j
      BY <1>1, <1>2, <2>1, <3>1, <3>2
    <3> QED
      BY <1>2, <2>1, <3>2, <3>3
  <2>4. \A j \in working : i <= j
    BY <1>1, <2>1
  <2>5. tried \ (working \cup lost) = 1..(i-1)
    BY <2>2, <2>3
  <2> QED
    BY <2>4, <2>5
<1>3. (tried \cap working # {}) <=> \E i \in working : \A j \in lost : i < j
  <2>1. ASSUME NEW i \in tried \cap working
        PROVE  \A j \in lost : i < j
    BY <1>1, <2>1 DEF Tried
  <2>2. ASSUME NEW i \in working, \A j \in lost : i < j
        PROVE  tried \cap working # {}
    <3>1. PICK m \in working : \A k \in working : m <= k
      BY <1>1, LeastElement, working \in SUBSET Nat, working # {}
    <3>2. m <= i /\ i \in Nat /\ m \in Nat
      BY <1>1, <3>1
    <3>3. m \in tried
      BY <1>1, <2>2, <3>1, <3>2 DEF Tried
    <3> QED
      BY <3>1, <3>3
  <2> QED
    BY <2>1, <2>2
<1> QED
  BY <1>2, <1>3 DEF resolveProvider

(* A secondary provider serves a call only when every active primary one   *)
(* has failed, and the call's events say so (provider-registry.ts:16-20).  *)
THEOREM SecondaryIsTheLastResort ==
  ASSUME NEW profiles, NEW type, NEW chain, IsProviderChain(chain, profiles, type),
         NEW working \in SUBSET DOMAIN chain, NEW lost \in SUBSET DOMAIN chain,
         NEW i \in resolveProvider(chain, working, lost).result,
         chain[i].priority = "secondary",
         NEW p \in ActiveProfiles(profiles, type), p.priority = "primary"
  PROVE  \E j \in resolveProvider(chain, working, lost).events : chain[j] = p
<1>1. /\ i \in DOMAIN chain
      /\ \A j \in DOMAIN chain : j < i => j \notin working \cup lost
  BY DEF resolveProvider, Tried
<1>2. PICK j \in DOMAIN chain : chain[j] = p
  BY DEF IsProviderChain
<1>3. j < i
  BY <1>1, <1>2 DEF IsProviderChain
<1>4. \A k \in DOMAIN chain : k < j => k < i
  BY <1>1, <1>3 DEF IsProviderChain
<1> QED
  BY <1>1, <1>2, <1>3, <1>4 DEF resolveProvider, Tried

(* A call has a language to transcribe, whatever profiles there are: the   *)
(* one of its profile, of that of en-US, or the one that was asked for     *)
(* (language-profile-loader.ts:10-15).                                     *)
THEOREM LanguageIsKnown ==
  ASSUME NEW profiles, NEW languageCode, languageCode # Null
  PROVE  loadByCode(profiles, languageCode).sttLanguageCode # Null
BY DEF loadByCode, LanguageContext, NoLanguageContext, Null
=============================================================================
