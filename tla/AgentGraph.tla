----------------------------- MODULE AgentGraph -----------------------------
(***************************************************************************)
(* The base graph of an agent on one thread, which the checkpointer keeps  *)
(* between invocations: the pause gate, the model, the approval of a tool  *)
(* call by its risk class, the read-only gate, the tool.                   *)
(*                                                                         *)
(* A key of the state that no node writes keeps the value of the previous  *)
(* invocation.  What the KillSwitch answers about the agent is any         *)
(* Boolean here (module KillSwitch); the read-only mode is its own flag,   *)
(* read afresh before each tool.                                           *)
(***************************************************************************)
EXTENDS Naturals

CONSTANTS
    Tool,           \* the tools of the agent
    NoTool,         \* no call, or a call of a tool the agent does not have
    RiskOf,         \* RiskOf[t]: the risk class of a tool
    Thread,         \* the threads, each invoked again and again
    SpecOf          \* SpecOf[h]: of the AgentSpec of its agent, the evaluation
                    \* pass rate in percent, and whether autonomy is enabled

RiskClass == {"read", "write:internal", "write:external"}

\* What the constants must be.
GraphAssumption ==
    /\ NoTool \notin Tool
    /\ RiskOf \in [Tool -> RiskClass]
    /\ SpecOf \in [Thread -> [rate : 0..100, autonomy : BOOLEAN]]

VARIABLES
    at,             \* at[h]: the node the thread stands before
    call,           \* call[h]: the tool call of the state
    paused,         \* paused[h], rejected[h]: keys of the state
    rejected,
    blocked,        \* blocked[h]: its key blocked_read_only
    readOnly,       \* the global read-only flag
    granted,        \* history: a person approved the call the thread holds
    caught          \* history: threads past the gate when the flag was raised

vars == <<at, call, paused, rejected, blocked, readOnly, granted, caught>>

Node == {"end", "killswitch_gate", "call_model", "hitl", "execute_tool", "tool"}

TypeOK ==
    /\ at \in [Thread -> Node]
    /\ call \in [Thread -> Tool \cup {NoTool}]
    /\ \A flags \in {paused, rejected, blocked, granted} :
          flags \in [Thread -> BOOLEAN]
    /\ readOnly \in BOOLEAN
    /\ caught \subseteq Thread

Init ==
    /\ at = [h \in Thread |-> "end"]
    /\ call = [h \in Thread |-> NoTool]
    /\ paused = [h \in Thread |-> FALSE]
    /\ rejected = [h \in Thread |-> FALSE]
    /\ blocked = [h \in Thread |-> FALSE]
    /\ readOnly = FALSE
    /\ granted = [h \in Thread |-> FALSE]
    /\ caught = {}

-----------------------------------------------------------------------------
(* core.hitl and KillSwitch.blocks_tool. *)

\* A plausible slip: either condition of autonomy waives the approval.
RequiresApprovalUnlessEither(risk, spec) ==
    \/ risk = "write:external"
    \/ risk = "write:internal" /\ ~ (spec.autonomy \/ spec.rate >= 90)

RequiresApproval(risk, spec) ==
    \/ risk = "write:external"
    \/ risk = "write:internal" /\ ~ (spec.autonomy /\ spec.rate >= 90)

IsWrite(risk) == risk # "read"

\* A plausible slip: read-only mode is taken to be about the outside.
BlocksExternal(risk) == risk = "write:external" /\ readOnly

BlocksTool(risk) == IsWrite(risk) /\ readOnly

Goto(h, node) == at' = [at EXCEPT ![h] = node]

-----------------------------------------------------------------------------
\* A new message, on a thread that is done or that waits for an approval.
Invoke(h) ==
    /\ at[h] \in {"end", "hitl"}
    /\ Goto(h, "killswitch_gate")
    /\ UNCHANGED <<call, paused, rejected, blocked, readOnly, granted, caught>>

\* killswitch_gate writes the key only to set it; the route reads the key.
KillswitchGate(h, answer) ==
    /\ at[h] = "killswitch_gate"
    /\ paused' = [paused EXCEPT ![h] = @ \/ answer]
    /\ Goto(h, IF paused'[h] THEN "end" ELSE "call_model")
    /\ UNCHANGED <<call, rejected, blocked, readOnly, granted, caught>>

\* route_after_model.
RouteAfterModel(h, t) ==
    IF t = NoTool THEN "end"
    ELSE IF RequiresApproval(RiskOf[t], SpecOf[h]) THEN "hitl" ELSE "execute_tool"

\* context_builder, guardrails_in, call_model; citation_attach when no tool
\* follows.
CallModel(h, t) ==
    /\ at[h] = "call_model"
    /\ call' = [call EXCEPT ![h] = t]
    /\ granted' = [granted EXCEPT ![h] = FALSE]
    /\ Goto(h, RouteAfterModel(h, t))
    /\ UNCHANGED <<paused, rejected, blocked, readOnly, caught>>

\* route_after_hitl reads the key, which an earlier rejection may have set.
RouteAfterHitl(isRejected) == IF isRejected THEN "end" ELSE "execute_tool"

Resume(h, approved) ==
    /\ at[h] = "hitl"
    /\ rejected' = [rejected EXCEPT ![h] = @ \/ ~ approved]
    /\ call' = [call EXCEPT ![h] = IF approved THEN @ ELSE NoTool]
    /\ granted' = [granted EXCEPT ![h] = approved]
    /\ Goto(h, RouteAfterHitl(rejected'[h]))
    /\ UNCHANGED <<paused, blocked, readOnly, caught>>

\* execute_tool up to the call: the read-only flag is read, then the tool runs.
ExecuteTool(h) ==
    LET stop == BlocksTool(RiskOf[call[h]]) IN
    /\ at[h] = "execute_tool"
    /\ blocked' = [blocked EXCEPT ![h] = @ \/ stop]
    /\ Goto(h, IF stop THEN "end" ELSE "tool")
    /\ UNCHANGED <<call, paused, rejected, readOnly, granted, caught>>

\* tool.fn, then citation_attach.
RunTool(h) ==
    /\ at[h] = "tool"
    /\ Goto(h, "end")
    /\ caught' = caught \ {h}
    /\ UNCHANGED <<call, paused, rejected, blocked, readOnly, granted>>

\* The model or the tool raises, or the process stops.
Fail(h) ==
    /\ at[h] \notin {"end", "hitl"}
    /\ Goto(h, "end")
    /\ caught' = caught \ {h}
    /\ UNCHANGED <<call, paused, rejected, blocked, readOnly, granted>>

\* set_global_read_only.
SetReadOnly(enabled) ==
    /\ readOnly' = enabled
    /\ caught' = IF enabled /\ ~ readOnly THEN {h \in Thread : at[h] = "tool"}
                 ELSE caught
    /\ UNCHANGED <<at, call, paused, rejected, blocked, granted>>

Next ==
    \/ \E h \in Thread :
          \/ Invoke(h)
          \/ \E answer \in BOOLEAN : KillswitchGate(h, answer)
          \/ \E t \in Tool \cup {NoTool} : CallModel(h, t)
          \/ \E approved \in BOOLEAN : Resume(h, approved)
          \/ ExecuteTool(h) \/ RunTool(h) \/ Fail(h)
    \/ \E enabled \in BOOLEAN : SetReadOnly(enabled)

Spec == Init /\ [][Next]_vars

-----------------------------------------------------------------------------
(* A tool that writes runs under a person's approval of this very call, not
   of an earlier one of the thread, unless its agent has earned autonomy over
   internal writes; what leaves the company is never waived. *)
WritesAreCleared ==
    \A h \in Thread : at[h] = "tool" /\ IsWrite(RiskOf[call[h]]) =>
        \/ granted[h]
        \/ /\ RiskOf[call[h]] = "write:internal"
           /\ SpecOf[h].autonomy /\ SpecOf[h].rate >= 90

(* Once the platform is read-only no writing tool runs, save those already
   past the gate when the flag was raised; an approval given in the meantime
   does not get a write through. *)
ReadOnlyHolds ==
    \A h \in Thread :
        readOnly /\ at[h] = "tool" /\ IsWrite(RiskOf[call[h]]) => h \in caught
=============================================================================
