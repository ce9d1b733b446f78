----------------------------- MODULE MCGateway -----------------------------
(* Small instances of Gateway: the reasoning and utility tiers of the
   default registry with their chains. *)
EXTENDS Gateway, TLC

CONSTANTS global, agent, user, c1, c2, c3

\* Two calls of one agent for a user, one of the agent alone (the worker).
MCPath == [c \in Caller |-> IF c = c3 THEN <<global, agent>>
                            ELSE <<global, agent, user>>]

MCBudget ==
    {[scope |-> global, period |-> "monthly", limit |-> 2],
     [scope |-> agent, period |-> "daily", limit |-> 1]}

\* One scope, a daily and a monthly row.
TwoPeriods ==
    {[scope |-> global, period |-> "daily", limit |-> 1],
     [scope |-> global, period |-> "monthly", limit |-> 3]}

MCModel == {"reasoning", "reasoning-fallback", "local-reasoning", "utility",
            "utility-fallback"}

MCLocal == {"local-reasoning"}

MCRoleOf == [m \in MCModel |->
    IF m \in {"utility", "utility-fallback"} THEN "utility" ELSE "reasoning"]

MCClearance == [m \in MCModel |-> IF m \in MCLocal THEN PII ELSE INTERNAL]

MCChain == [m \in MCModel |->
    CASE m = "reasoning" -> {"reasoning-fallback", "local-reasoning"}
      [] m = "reasoning-fallback" -> {"local-reasoning"}
      [] m = "utility" -> {"utility-fallback"}
      [] OTHER -> {}]

Ask(role, sensitivity, redacted, streamed) ==
    [role |-> role, sensitivity |-> sensitivity,
     redacted |-> redacted, streamed |-> streamed]

\* The utility tier has no local model: its last request is refused.
MCRequest ==
    {Ask("reasoning", INTERNAL, FALSE, TRUE),
     Ask("reasoning", CONFIDENTIAL, TRUE, FALSE),
     Ask("reasoning", PII, TRUE, FALSE),
     Ask("utility", CONFIDENTIAL, FALSE, FALSE)}

Alike == Permutations({c1, c2})
=============================================================================
