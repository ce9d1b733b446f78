---------------------------- MODULE ApprovalGate ----------------------------
(***************************************************************************)
(* What the approval queue promises, without rows, graphs or payloads.     *)
(*                                                                         *)
(* Operators read a run while it is undecided; only those who did may      *)
(* decide it, each of them once.  A decision entitles the request that     *)
(* made it to at most one write, and no request writes before one of them  *)
(* has granted the run.  The promise is weaker than "one decision, one     *)
(* write": decide_approval checks `pending` when it reads the row and not  *)
(* when it updates it, so operators who read the row together all decide.  *)
(***************************************************************************)
CONSTANTS Run, Request

VARIABLES
    readers,    \* readers[r]: the requests that read r while it was undecided
    granted,    \* granted[r]: those that approved it
    refused,    \* refused[r]: those that rejected it
    wrote       \* wrote[r]: those that made the run's write

vars == <<readers, granted, refused, wrote>>

NobodyYet == [r \in Run |-> {}]

Init ==
    /\ readers = NobodyYet
    /\ granted = NobodyYet
    /\ refused = NobodyYet
    /\ wrote = NobodyYet

Decided(r) == granted[r] \union refused[r]

Read(r, q) ==
    /\ Decided(r) = {}
    /\ \A s \in Run : q \notin readers[s]
    /\ readers' = [readers EXCEPT ![r] = @ \union {q}]
    /\ UNCHANGED <<granted, refused, wrote>>

Grant(r, q) ==
    /\ q \in readers[r] \ Decided(r)
    /\ granted' = [granted EXCEPT ![r] = @ \union {q}]
    /\ UNCHANGED <<readers, refused, wrote>>

Refuse(r, q) ==
    /\ q \in readers[r] \ Decided(r)
    /\ refused' = [refused EXCEPT ![r] = @ \union {q}]
    /\ UNCHANGED <<readers, granted, wrote>>

\* A request that refused may still finish a write another one was granted and
\* did not complete.
DoWrite(r, q) ==
    /\ granted[r] # {}
    /\ q \in Decided(r) \ wrote[r]
    /\ wrote' = [wrote EXCEPT ![r] = @ \union {q}]
    /\ UNCHANGED <<readers, granted, refused>>

Next ==
    \E r \in Run, q \in Request :
        Read(r, q) \/ Grant(r, q) \/ Refuse(r, q) \/ DoWrite(r, q)

Spec == Init /\ [][Next]_vars
=============================================================================
