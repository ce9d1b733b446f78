----------------------------- MODULE KillSwitch -----------------------------
(***************************************************************************)
(* Pausing an agent.  The row of the agent says so in the database, where  *)
(* the console reads it; a flag in Redis says so to the runtime, which     *)
(* asks for it before a graph runs a step and remembers the answer for TTL *)
(* seconds in each process.  An administrator's request commits the row    *)
(* and then writes the flag, under the name the row had when it was read.  *)
(* Requests overlap, and one may end between its two writes.               *)
(*                                                                         *)
(* One agent row is followed from its creation to its deletion, under the  *)
(* names it may be given.                                                  *)
(***************************************************************************)
EXTENDS Naturals

CONSTANTS
    Name,       \* the names the agent may have
    NoName,     \* it has none: not created yet, or deleted
    Request,    \* the pause and resume requests that may be under way
    Process,    \* the processes of the runtime, each with a KillSwitch
    TTL         \* how many seconds a process trusts its last answer

\* What the constants must be.
SwitchAssumption ==
    /\ NoName \notin Name
    /\ TTL \in Nat \ {0}

VARIABLES
    name,       \* the name in the row
    status,     \* its status
    flag,       \* flag[n]: Redis holds "1" under agent:paused:n
    op,         \* op[r]: the request, what it read, how far it has come
    cache,      \* cache[p][n]: what the process last read, and how long ago
    held,       \* history: for how long flag[n] has been up, at most TTL
    torn        \* history: a request ended half-way, or two overlapped, or
                \* the row was renamed or deleted, since the last full request

vars == <<name, status, flag, op, cache, held, torn>>

Status == {"active", "paused"}

\* The kinds of request, and the status each leaves behind.
Wanted == [pause |-> "paused", resume |-> "active"]

Free == [step |-> "free"]
Underway == [step : {"read", "committed"}, kind : DOMAIN Wanted,
             name : Name, was : Status]

Unknown == [known |-> FALSE]
Answer == [known : {TRUE}, paused : BOOLEAN, age : 0..TTL]

TypeOK ==
    /\ name \in Name \cup {NoName}
    /\ status \in Status
    /\ flag \in [Name -> BOOLEAN]
    /\ op \in [Request -> {Free} \cup Underway]
    /\ cache \in [Process -> [Name -> {Unknown} \cup Answer]]
    /\ held \in [Name -> 0..TTL]
    /\ torn \in BOOLEAN

Init ==
    /\ name = NoName
    /\ status = "active"
    /\ flag = [n \in Name |-> FALSE]
    /\ op = [r \in Request |-> Free]
    /\ cache = [p \in Process |-> [n \in Name |-> Unknown]]
    /\ held = [n \in Name |-> 0]
    /\ torn = FALSE

-----------------------------------------------------------------------------
(* The registry of agents. *)

\* A pause or resume has read the row and not ended.
Busy == \E r \in Request : op[r] # Free

\* create_agent: a new row is active, whatever Redis remembers of its name.
Create(n) ==
    /\ name = NoName
    /\ name' = n
    /\ status' = "active"
    /\ torn' = (Busy \/ flag[n])
    /\ UNCHANGED <<flag, op, cache, held>>

\* update_agent sets every field of AgentIn: the name is one, the status not.
Rename(n) ==
    /\ name # NoName
    /\ name' = n
    /\ torn' = (torn \/ Busy \/ flag[n] # flag[name])
    /\ UNCHANGED <<status, flag, op, cache, held>>

\* delete_agent leaves the flag as it is.
Delete ==
    /\ name # NoName
    /\ name' = NoName
    /\ status' = "active"
    /\ torn' = TRUE
    /\ UNCHANGED <<flag, op, cache, held>>

-----------------------------------------------------------------------------
(* pause_agent and resume_agent. *)

\* session.get: 404 when there is no row.
Read(r, kind) ==
    /\ op[r] = Free
    /\ name # NoName
    /\ torn' = (torn \/ Busy)
    /\ op' = [op EXCEPT ![r] = [step |-> "read", kind |-> kind,
                                name |-> name, was |-> status]]
    /\ UNCHANGED <<name, status, flag, cache, held>>

\* A plausible slip: resume_agent takes down the flag and forgets the row.
WrittenOnPause(r) == IF op[r].kind = "pause" THEN "paused" ELSE status

\* The commit updates the status if the one that was read differs; a row that
\* has gone since makes the update fail.
Written(r) == IF op[r].was # Wanted[op[r].kind] THEN Wanted[op[r].kind] ELSE status

Commit(r) ==
    /\ op[r].step = "read"
    /\ name # NoName \/ op[r].was = Wanted[op[r].kind]
    /\ status' = IF name = NoName THEN status ELSE Written(r)
    /\ op' = [op EXCEPT ![r].step = "committed"]
    /\ UNCHANGED <<name, flag, cache, held, torn>>

\* KillSwitch.pause_agent / resume_agent, under the name that was read.
WriteFlag(r) ==
    LET n == op[r].name IN
    /\ op[r].step = "committed"
    /\ flag' = [flag EXCEPT ![n] = (op[r].kind = "pause")]
    /\ held' = [held EXCEPT ![n] = IF flag'[n] THEN held[n] ELSE 0]
    /\ op' = [op EXCEPT ![r] = Free]
    /\ torn' = (torn /\ ~ (/\ n = name
                           /\ status = Wanted[op[r].kind]
                           /\ \A q \in Request \ {r} : op[q] = Free))
    /\ UNCHANGED <<name, status, cache>>

\* The request fails: its row has gone, Redis does not answer, the API stops.
Break(r) ==
    /\ op[r] # Free
    /\ op' = [op EXCEPT ![r] = Free]
    /\ torn' = (torn \/ op[r].step = "committed")
    /\ UNCHANGED <<name, status, flag, cache, held>>

-----------------------------------------------------------------------------
(* The runtime, before any node runs. *)

\* A plausible slip: an answer is trusted at the age at which it expires.
FreshAtTheLimit(p, n) == cache[p][n].known /\ cache[p][n].age <= TTL

Fresh(p, n) == cache[p][n].known /\ cache[p][n].age < TTL

\* is_agent_paused: the cached answer while it is fresh, otherwise Redis.
Ask(p, n) ==
    /\ ~ Fresh(p, n)
    /\ cache' = [cache EXCEPT ![p][n] = [known |-> TRUE, paused |-> flag[n], age |-> 0]]
    /\ UNCHANGED <<name, status, flag, op, held, torn>>

Restart(p) ==
    /\ cache' = [cache EXCEPT ![p] = [n \in Name |-> Unknown]]
    /\ UNCHANGED <<name, status, flag, op, held, torn>>

\* A second passes.
Older(age) == IF age < TTL THEN age + 1 ELSE age

Tick ==
    /\ cache' = [p \in Process |-> [n \in Name |->
                    IF cache[p][n].known
                    THEN [cache[p][n] EXCEPT !.age = Older(@)] ELSE Unknown]]
    /\ held' = [n \in Name |-> IF flag[n] THEN Older(held[n]) ELSE 0]
    /\ UNCHANGED <<name, status, flag, op, torn>>

Next ==
    \/ \E n \in Name : Create(n) \/ Rename(n)
    \/ Delete
    \/ \E r \in Request :
          \/ \E kind \in DOMAIN Wanted : Read(r, kind)
          \/ Commit(r)
          \/ WriteFlag(r)
          \/ Break(r)
    \/ \E p \in Process : Restart(p) \/ \E n \in Name : Ask(p, n)
    \/ Tick

Spec == Init /\ [][Next]_vars

-----------------------------------------------------------------------------
(* What a graph may do: route_after_killswitch goes on unless it is told the
   agent is paused. *)
Runs(p, n) == Fresh(p, n) /\ ~ cache[p][n].paused

(* A pause reaches every process within TTL seconds of reaching Redis: from
   then on no graph of the agent starts, whatever its process has cached. *)
PauseReachesEveryProcess ==
    \A p \in Process, n \in Name : Runs(p, n) => held[n] < TTL

(* The console shows what the runtime enforces: with no request under way,
   row and flag agree unless a request ended between its two writes, two
   overlapped, or the agent was renamed, deleted or given a name in use. *)
StatusAgrees ==
    name # NoName /\ ~ Busy /\ ~ torn => (flag[name] <=> status = "paused")
=============================================================================
