------------------------- MODULE FailoverConnection -------------------------
(***************************************************************************)
(* The SDK's connection to several RPC endpoints with a circuit breaker    *)
(* for each.  Calls of exec() run concurrently and share the breakers;     *)
(* each holds the list of endpoints it made when it began.                 *)
(***************************************************************************)
EXTENDS Integers, Sequences, FiniteSets

CONSTANTS
    Endpoints,    \* positions in the list the connection was made from
    Weight,       \* weight of each
    MaxFailures,  \* maxFailures
    Cooldown      \* cooldownMs, in ticks of the clock

ASSUME FailoverAssumption ==
    /\ Endpoints \subseteq Nat /\ Endpoints # {} /\ IsFiniteSet(Endpoints)
    /\ Weight \in [Endpoints -> Nat]
    /\ MaxFailures \in Nat \ {0}
    /\ Cooldown \in Nat \ {0}

VARIABLES
    failures,  \* failures of each endpoint since its last success
    cooling    \* ticks until openUntil; 0 when that is in the past

failoverVars == <<failures, cooling>>

InitFailover ==
    /\ failures = [e \in Endpoints |-> 0]
    /\ cooling = [e \in Endpoints |-> 0]

Healthy(e) == failures[e] < MaxFailures \/ cooling[e] = 0

\* Sorted by weight, in list order among equals (the sort is stable).
Preferred(e, f) == Weight[e] > Weight[f] \/ (Weight[e] = Weight[f] /\ e < f)

CoolsSooner(e, f) == cooling[e] < cooling[f] \/ (cooling[e] = cooling[f] /\ e < f)

Sorted(S, Before(_, _)) ==
    CHOOSE s \in [1 .. Cardinality(S) -> S] :
        \A i, j \in 1 .. Cardinality(S) : i < j => Before(s[i], s[j])

\* exec(): the healthy endpoints, or all of them when there is none.
Candidates ==
    IF \E e \in Endpoints : Healthy(e)
    THEN Sorted({e \in Endpoints : Healthy(e)}, Preferred)
    ELSE Sorted(Endpoints, CoolsSooner)

\* Mutant: a success leaves the circuit open.
AnsweredKeepsOpen(e) ==
    /\ failures' = [failures EXCEPT ![e] = 0]
    /\ UNCHANGED cooling

Answered(e) ==
    /\ failures' = [failures EXCEPT ![e] = 0]
    /\ cooling' = [cooling EXCEPT ![e] = 0]

Failed(e) ==
    /\ failures' = [failures EXCEPT ![e] = @ + 1]
    /\ cooling' = [cooling EXCEPT ![e] =
                     IF failures[e] + 1 >= MaxFailures THEN Cooldown ELSE @]

\* The clock, as far as the breakers see it.
Tick ==
    /\ \E e \in Endpoints : cooling[e] > 0
    /\ cooling' = [e \in Endpoints |->
                     IF cooling[e] > 0 THEN cooling[e] - 1 ELSE 0]
    /\ UNCHANGED failures

=============================================================================
