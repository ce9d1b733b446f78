--------------------------- MODULE SemanticCache ---------------------------
(***************************************************************************)
(* The semantic cache of the answers an agent gave over a collection.  An  *)
(* entry is filed under the generation its collection has when the entry   *)
(* is stored; invalidating the collection moves the generation on, so that *)
(* no earlier entry is found again.                                        *)
(*                                                                         *)
(* One agent and one collection: the keys of others never match.  An       *)
(* asker looks a question up and, on a miss, computes an answer from the   *)
(* collection as it is and stores it; each call to Redis is a step.  How   *)
(* the answer is used is the caller's, which src/ does not have yet.       *)
(***************************************************************************)
EXTENDS Naturals

CONSTANTS
    Asker,          \* requests that may overlap
    Question,       \* questions no two of which are similar
    MaxGeneration   \* bound: how often the collection changes

\* What the constants must be.
CacheAssumption == MaxGeneration \in Nat

VARIABLES
    generation,     \* the counter; also how often the collection has changed
    behind,         \* the collection changed and is not invalidated yet
    entry,          \* what Redis holds: question, generation, answer
    ask             \* ask[a]: the request, the generation it read, its answer

vars == <<generation, behind, entry, ask>>

\* An answer is known by the version of the collection it was computed from.
Version == 0..MaxGeneration
Entry == [question : Question, generation : Version, answer : Version,
          late : BOOLEAN]

Idle == [step |-> "idle"]
Asking == [step : {"lookup", "scan", "compute", "computed", "store", "served"},
           question : Question, generation : Version, answer : Version,
           since : Version,     \* history: the generation when it began
           late : BOOLEAN]      \* history: an invalidation fell between the
                                \* answer's computation and its filing

TypeOK ==
    /\ generation \in Version
    /\ behind \in BOOLEAN
    /\ entry \subseteq Entry
    /\ ask \in [Asker -> {Idle} \cup Asking]

Init ==
    /\ generation = 0
    /\ behind = FALSE
    /\ entry = {}
    /\ ask = [a \in Asker |-> Idle]

\* The version of the collection: a change comes before its invalidation.
Content == IF behind THEN generation + 1 ELSE generation

-----------------------------------------------------------------------------
\* A document is ingested, replaced or deleted, and then the caller
\* invalidates the collection.
Change ==
    /\ ~ behind /\ generation < MaxGeneration
    /\ behind' = TRUE
    /\ UNCHANGED <<generation, entry, ask>>

InvalidateCollection ==
    /\ behind
    /\ behind' = FALSE
    /\ generation' = generation + 1
    /\ ask' = [a \in Asker |-> IF ask[a].step = "computed"
                               THEN [ask[a] EXCEPT !.late = TRUE] ELSE ask[a]]
    /\ UNCHANGED entry

Begin(a, q) ==
    /\ ask[a].step \in {"idle", "served"}
    /\ ask' = [ask EXCEPT ![a] = [step |-> "lookup", question |-> q, generation |-> 0,
                                  answer |-> 0, since |-> generation,
                                  late |-> FALSE]]
    /\ UNCHANGED <<generation, behind, entry>>

\* lookup reads the generation, then the entries under its prefix, the best
\* match of which is served when it is similar enough.
ReadGeneration(a, from, to) ==
    /\ ask[a].step = from
    /\ ask' = [ask EXCEPT ![a].step = to, ![a].generation = generation]
    /\ UNCHANGED <<generation, behind, entry>>

\* A plausible slip: the prefix of the entries leaves the generation out.
MatchesAnyGeneration(a) == {e \in entry : e.question = ask[a].question}

Matches(a) == {e \in entry : /\ e.question = ask[a].question
                             /\ e.generation = ask[a].generation}

Hit(a) ==
    /\ ask[a].step = "scan"
    /\ \E e \in Matches(a) :
          ask' = [ask EXCEPT ![a].step = "served", ![a].answer = e.answer,
                               ![a].late = e.late]
    /\ UNCHANGED <<generation, behind, entry>>

Miss(a) ==
    /\ ask[a].step = "scan"
    /\ Matches(a) = {}
    /\ ask' = [ask EXCEPT ![a].step = "compute"]
    /\ UNCHANGED <<generation, behind, entry>>

\* The answer is computed from the collection, then store reads the
\* generation and files the answer under it.
Compute(a) ==
    /\ ask[a].step = "compute"
    /\ ask' = [ask EXCEPT ![a].step = "computed", ![a].answer = Content]
    /\ UNCHANGED <<generation, behind, entry>>

Store(a) ==
    /\ ask[a].step = "store"
    /\ entry' = entry \cup {[question |-> ask[a].question,
                             generation |-> ask[a].generation,
                             answer |-> ask[a].answer,
                             late |-> ask[a].late]}
    /\ ask' = [ask EXCEPT ![a].step = "served"]
    /\ UNCHANGED <<generation, behind>>

\* An entry outlives its time, or a request its caller.
Expire(e) ==
    /\ entry' = entry \ {e}
    /\ UNCHANGED <<generation, behind, ask>>

Abandon(a) ==
    /\ ask[a] # Idle
    /\ ask' = [ask EXCEPT ![a] = Idle]
    /\ UNCHANGED <<generation, behind, entry>>

Next ==
    \/ Change \/ InvalidateCollection
    \/ \E a \in Asker :
          \/ \E q \in Question : Begin(a, q)
          \/ ReadGeneration(a, "lookup", "scan")
          \/ Hit(a) \/ Miss(a) \/ Compute(a)
          \/ ReadGeneration(a, "computed", "store")
          \/ Store(a) \/ Abandon(a)
    \/ \E e \in entry : Expire(e)

Spec == Init /\ [][Next]_vars

-----------------------------------------------------------------------------
(* Whoever asks after a collection was invalidated is not served an answer
   from before the change, unless the answer was on its way to the cache when
   the invalidation came: store files it under the new generation then. *)
ServedIsFresh ==
    \A a \in Asker :
        ask[a].step = "served" /\ ~ ask[a].late => ask[a].answer >= ask[a].since
=============================================================================
