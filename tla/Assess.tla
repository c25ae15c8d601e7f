------------------------------- MODULE Assess -------------------------------
(***************************************************************************)
(* internal/assess: one question put to a language-model service, through    *)
(* the API of Anthropic (assess.go) or of OpenRouter (openrouter.go), and    *)
(* whether what comes back is taken for a verdict.  Everything else is an    *)
(* error, on which the commands give up.                                     *)
(***************************************************************************)
CONSTANTS
    Keys          \* the services whose key is in the environment

Service == {"anthropic", "openrouter"}

ASSUME KeysAssumption == Keys \subseteq Service

\* What may come back.  content is the text of the answer: none, text that does
\* not parse, such as one cut short, or a verdict, which both services promise
\* when they are given a schema.  A service that declines gives no verdict; an
\* error of OpenRouter, under whatever status, may come with part of an answer.
Reply(service) ==
    {r \in [delivered : BOOLEAN,   \* in time, and as the API lays it out
            ok : BOOLEAN,          \* the status is 200
            error : BOOLEAN,       \* the body has an error
            refused : BOOLEAN,
            choices : BOOLEAN,     \* the list of answers is not empty
            content : {"none", "garbled", "verdict"}] :
       /\ r.refused => r.content # "verdict"
       /\ ~r.choices => r.content = "none"
       /\ service = "anthropic" /\ r.error => ~r.choices}

\* What the service stands by as its answer.
IsVerdict(r) ==
    r.delivered /\ r.ok /\ ~r.error /\ ~r.refused /\ r.content = "verdict"

\* NewAssessor: the service asked, "" when it returns an error.  Anthropic's
\* client may find a profile on disk, so it needs no key.
NewAssessor(provider) ==
    CASE provider = "anthropic" -> "anthropic"
      [] provider = "openrouter" -> IF "openrouter" \in Keys THEN "openrouter" ELSE ""
      [] provider = "auto" -> IF Keys = {"openrouter"} THEN "openrouter" ELSE "anthropic"
      [] OTHER -> ""

Provider == Service \cup {"auto", "other"}

\* Client.ask; the client itself turns a bad status into an error.
AnthropicTakes(r) ==
    r.delivered /\ r.ok /\ ~r.refused /\ r.content = "verdict"

\* OpenRouter.ask, which knows of no refusals: the error in the body is looked
\* at before the status.
OpenRouterTakes(r) ==
    r.delivered /\ ~r.error /\ r.ok /\ r.choices /\ r.content = "verdict"

Takes(service, r) ==
    CASE service = "anthropic" -> AnthropicTakes(r)
      [] service = "openrouter" -> OpenRouterTakes(r)
      [] OTHER -> FALSE

\* The replies on which a command goes on.
Taken ==
    UNION {{r \in Reply(NewAssessor(p)) : Takes(NewAssessor(p), r)} : p \in Provider}
=============================================================================
