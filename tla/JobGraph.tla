------------------------------ MODULE JobGraph ------------------------------
(***************************************************************************)
(* The workflow graph of a meeting's job                                   *)
(* (src/mom_igd/jobs/state_machine.py): which transition is legal, and     *)
(* whether transition_path finds a route.                                  *)
(***************************************************************************)
EXTENDS Integers, FiniteSets

JobStates == {"DRAFT", "READY", "RECORDING", "RECORDED", "QUEUED", "PROCESSING",
              "REVIEW_REQUIRED", "APPROVED", "FAILED", "CANCELLED"}

AllowedTransitions ==
    [DRAFT           |-> {"READY", "CANCELLED"},
     READY           |-> {"RECORDING", "DRAFT", "CANCELLED"},
     RECORDING       |-> {"RECORDED", "FAILED", "CANCELLED"},
     RECORDED        |-> {"QUEUED", "FAILED", "CANCELLED"},
     QUEUED          |-> {"PROCESSING", "CANCELLED"},
     PROCESSING      |-> {"REVIEW_REQUIRED", "FAILED", "CANCELLED"},
     REVIEW_REQUIRED |-> {"APPROVED", "PROCESSING", "FAILED", "CANCELLED"},
     APPROVED        |-> {},
     FAILED          |-> {"QUEUED", "CANCELLED"},
     CANCELLED       |-> {}]

\* The states a breadth-first search from s has seen after n rounds.
Frontier(s) ==
    LET seen[n \in 0..Cardinality(JobStates)] ==
            IF n = 0 THEN {s}
            ELSE seen[n - 1] \cup UNION {AllowedTransitions[t] : t \in seen[n - 1]}
    IN  seen

\* transition_path finds a route from s to t.
HasRoute(s, t) == t \in Frontier(s)[Cardinality(JobStates)]

\* The length of the route it finds, the shortest.
RouteLength(s, t) ==
    CHOOSE n \in 0..Cardinality(JobStates) :
        t \in Frontier(s)[n] /\ (n = 0 \/ t \notin Frontier(s)[n - 1])

TerminalStates == {"APPROVED", "CANCELLED"}

\* validate_transition_graph: every edge leads to another known state, every state is
\* reachable, and exactly the terminal ones have no way out.
TransitionGraphIsSound ==
    \A s \in JobStates :
        /\ AllowedTransitions[s] \subseteq JobStates \ {s}
        /\ (AllowedTransitions[s] = {}) = (s \in TerminalStates)
        /\ HasRoute("DRAFT", s)

ASSUME GraphAssumption == DOMAIN AllowedTransitions = JobStates /\ TransitionGraphIsSound

\* The states the job is in while it walks a shortest route from s to t.
RouteStates(s, t) ==
    {u \in JobStates : HasRoute(s, u) /\ HasRoute(u, t)
                          /\ RouteLength(s, u) + RouteLength(u, t) = RouteLength(s, t)}

\* On the way to RECORDING the job is never RECORDED, and on the way to FAILED only
\* where the way begins there.
ASSUME RouteAssumption ==
    \A s \in JobStates :
        /\ "RECORDED" \notin RouteStates(s, "RECORDING")
        /\ "RECORDED" \in RouteStates(s, "FAILED") => s = "RECORDED"
=============================================================================
