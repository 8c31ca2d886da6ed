------------------------------ MODULE Providers ------------------------------
(***************************************************************************)
(* One request to the chain of providers: reasoning (reasonerChain and     *)
(* defaultReasoner of cmd/hyprvalet/main.go, adapters/fallback and         *)
(* adapters/realtime/fallback.go, over OpenAI, Groq and Ollama) and speech *)
(* to text (adapters/stt, over Groq and whisper.cpp).                      *)
(*                                                                         *)
(* Each layer has a limit of its own and all share the deadline of the     *)
(* request's context.  A cloud that is out of reach refuses at once, or    *)
(* says nothing until one of the two is over.                              *)
(***************************************************************************)
EXTENDS Naturals

CONSTANTS
    Timeout,   \* the limit of each layer's client
    Deadline,  \* the deadline of each operation, 0 for none
    MaxClock   \* bound on time (model checking)

Layer == {"realtime", "openai", "groq", "ollama", "groqstt", "whisper"}
Key == {"OPENAI_API_KEY", "GROQ_API_KEY"}
Reasoning == {"interpret", "plan", "chat"}
Op == Reasoning \cup {"transcribe", "transcribeTimed"}

VARIABLES
    keys,       \* the keys that are set
    realtime,   \* streaming is on; its stub answers (set, with a usable key)
    op,         \* the request
    layer,      \* the layer being asked, "none" when there is no more
    spent,      \* time since this layer was asked
    clock,      \* time since the request began
    asked,      \* the layers asked while the context was live
    cancelled,  \* the caller gave the request up
    outcome     \* none, answered, failed

config == <<keys, realtime, op>>
chainVars == <<config, layer, spent, clock, asked, cancelled, outcome>>

-----------------------------------------------------------------------------
(* The chain, most preferred first: a layer is in it when its key is set,  *)
(* and the local one is always last.                                       *)

FromGroq == IF "GROQ_API_KEY" \in keys THEN "groq" ELSE "ollama"
FromOpenAI == IF "OPENAI_API_KEY" \in keys THEN "openai" ELSE FromGroq

\* The planning conversation does not go through realtime.
First ==
    IF op \in Reasoning
    THEN IF realtime.on /\ op # "chat" THEN "realtime" ELSE FromOpenAI
    ELSE IF "GROQ_API_KEY" \in keys THEN "groqstt" ELSE "whisper"

Backup == IF layer = "realtime" THEN FromOpenAI
          ELSE IF layer = "openai" THEN FromGroq
          ELSE IF layer = "groq" THEN "ollama"
          ELSE IF layer = "groqstt" THEN "whisper" ELSE "none"

Local == IF op \in Reasoning THEN "ollama" ELSE "whisper"

ChainInit ==
    /\ keys \in SUBSET Key
    /\ realtime \in [on : BOOLEAN, stub : BOOLEAN]
    /\ op \in Op
    /\ layer = First
    /\ spent = 0
    /\ clock = 0
    /\ asked = {First}
    /\ cancelled = FALSE
    /\ outcome = "none"

-----------------------------------------------------------------------------
Live == ~cancelled /\ (Deadline[op] = 0 \/ clock < Deadline[op])

\* The realtime layer of the command line never waits; whisper has no limit.
Waits == layer # "realtime"
Over == layer # "whisper" /\ spent >= Timeout[layer]

\* A usable answer: the status, the shape and the parsing are right.
Answers ==
    /\ outcome = "none" /\ Live
    /\ layer = "realtime" => realtime.stub
    /\ outcome' = "answered"
    /\ UNCHANGED <<config, layer, spent, clock, asked, cancelled>>

\* The layer fails: of its own (refused, a bad status, an unusable answer, no
\* sidecar), by its limit or with the context; the backup is asked, and with
\* the context gone it fails too.
Fails ==
    /\ outcome = "none"
    /\ layer = "realtime" /\ Live => ~realtime.stub
    /\ layer' = Backup
    /\ spent' = 0
    /\ asked' = IF Live /\ Backup # "none" THEN asked \cup {Backup} ELSE asked
    /\ outcome' = IF Backup = "none" THEN "failed" ELSE "none"
    /\ UNCHANGED <<config, clock, cancelled>>

\* Time passes while the layer says nothing.
Waiting ==
    /\ outcome = "none" /\ Live /\ Waits /\ ~Over /\ clock < MaxClock
    /\ clock' = clock + 1
    /\ spent' = spent + 1
    /\ UNCHANGED <<config, layer, asked, cancelled, outcome>>

\* A conversation, or the capture a transcription is for, is interrupted.
Cancels ==
    /\ outcome = "none" /\ ~cancelled
    /\ op \notin {"interpret", "plan"}
    /\ cancelled' = TRUE
    /\ UNCHANGED <<config, layer, spent, clock, asked, outcome>>

ChainNext == Answers \/ Fails \/ Waiting \/ Cancels

ChainSpec == ChainInit /\ [][ChainNext]_chainVars

-----------------------------------------------------------------------------
(* Properties.                                                             *)

\* The state is well formed.
ChainTypeOK ==
    /\ keys \subseteq Key
    /\ realtime \in [on : BOOLEAN, stub : BOOLEAN]
    /\ op \in Op
    /\ layer \in Layer \cup {"none"}
    /\ spent \in Nat /\ clock \in Nat
    /\ asked \subseteq Layer
    /\ cancelled \in BOOLEAN
    /\ outcome \in {"none", "answered", "failed"}

\* What the layers before this one may have spent, each up to its limit.
Ahead == [l \in Layer |-> IF l = "groq" THEN Timeout["openai"]
                          ELSE IF l = "ollama" THEN Timeout["openai"] + Timeout["groq"]
                          ELSE IF l = "whisper" THEN Timeout["groqstt"] ELSE 0]

\* openai.go:10-11: "The caller composes this client with a local fallback so
\* losing the network never silences the agent": no request fails without the
\* local provider having been asked while there was time for an answer.
NeverSilent == outcome = "failed" => Local \in asked \/ cancelled

\* The limits of the cloud layers leave the local one a part of the deadline.
LimitsFit == \A o \in Op : Deadline[o] # 0 =>
                Ahead[IF o \in Reasoning THEN "ollama" ELSE "whisper"] < Deadline[o]

=============================================================================
