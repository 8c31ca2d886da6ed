---------------------------- MODULE MCProviders -----------------------------
(* The limits and deadlines of the code, in units of thirty seconds.        *)
EXTENDS Providers

MCTimeout == [l \in Layer |-> CASE l \in {"openai", "groq"} -> 2
                                [] l = "ollama" -> 4
                                [] l = "groqstt" -> 1
                                [] OTHER -> 0]

MCDeadline == [o \in Op |-> CASE o = "interpret" -> 3
                              [] o = "plan" -> 4
                              [] o = "transcribe" -> 2
                              [] OTHER -> 0]

=============================================================================
