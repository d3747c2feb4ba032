----------------------------- MODULE MCConsole -----------------------------
(***************************************************************************)
(* The console as one user works with it: on one of its pages, with the    *)
(* forms of Administration, or on the playground, with BrowserCall.  The   *)
(* two share nothing but the bounds, so that the instance is their sum.    *)
(***************************************************************************)
EXTENDS Administration, BrowserCall, TLC

ConsoleInit == Init /\ CallInit

ConsoleNext ==
  \/ Next /\ page # "playground" /\ UNCHANGED callVars
  \/ CallNext /\ page = "playground" /\ UNCHANGED vars

ConsoleSpec ==
  /\ ConsoleInit /\ [][ConsoleNext]_<<vars, callVars>>
  /\ Fairness /\ CallFairness

Row(mode, s2s, stt, llm, tts) ==
  [c \in Columns |->
     CASE c = "voiceMode" -> mode
       [] c = "s2sProvider" -> s2s
       [] c = "sttProvider" -> stt
       [] c = "llmProvider" -> llm
       [] c = "ttsProvider" -> tts
       [] OTHER -> Null]

OneAgent == "a1" :> Row("half_cascade", "gemini", Null, Null, "elevenlabs")
ToCascade == {<<"voiceMode", "cascade">>}
OneRow == "r1" :> TRUE
TwoPrices == <<"s2sProvider", "gemini">> :> 20 @@ <<"ttsProvider", "elevenlabs">> :> 30

(* "tiny" is 0.0000004, and "huge" has no room in the column.              *)
Numbers == "" :> 0 @@ "tiny" :> 4 @@ "rate" :> 55 @@ "huge" :> 995 @@ "negative" :> -50
=============================================================================
