----------------------------- MODULE BuildOrder -----------------------------
(***************************************************************************)
(* What a build order promises, whatever computes it: ports are emitted    *)
(* one by one, each once, each after all it depends on, and only ports     *)
(* that the request needs.  The order is complete when it holds the whole  *)
(* request; it is refused only for a circular dependency or for a name     *)
(* that is no port.                                                        *)
(***************************************************************************)
EXTENDS Naturals, Sequences

CONSTANTS Names, Ports, Graphs, Requests

VARIABLES deps, request, ordered, outcome

orderVars == <<deps, request, ordered, outcome>>

Elems(s) == {s[i] : i \in DOMAIN s}

\* What the request needs: itself and all dependencies, of ports, in any depth.
Closed(S) == \A p \in S \cap Ports : Elems(deps[p]) \subseteq S
Needed == {p \in Names : \A S \in SUBSET Names :
                             Elems(request) \subseteq S /\ Closed(S) => p \in S}

\* In a finite graph a nonempty set in which every port depends on another one
\* of the set, or on itself, is what a cycle comes down to.
Circular(S) == S # {} /\ \A p \in S : Elems(deps[p]) \cap S # {}

OrderInit ==
    /\ deps \in Graphs
    /\ request \in Requests
    /\ ordered = <<>>
    /\ outcome = "running"

Emit(p) ==
    /\ outcome = "running"
    /\ p \in Needed \ Elems(ordered)
    /\ Elems(deps[p]) \subseteq Elems(ordered)
    /\ ordered' = Append(ordered, p)
    /\ UNCHANGED <<deps, request, outcome>>

Finish ==
    /\ outcome = "running"
    /\ Elems(request) \subseteq Elems(ordered)
    /\ outcome' = "ok"
    /\ UNCHANGED <<deps, request, ordered>>

Refuse ==
    /\ outcome = "running"
    /\ \/ /\ \E S \in SUBSET (Ports \cap Needed) : Circular(S)
          /\ outcome' = "circular"
       \/ /\ ~(Needed \subseteq Ports)
          /\ outcome' = "unknown"
    /\ UNCHANGED <<deps, request, ordered>>

OrderNext == (\E p \in Ports : Emit(p)) \/ Finish \/ Refuse
OrderSpec == OrderInit /\ [][OrderNext]_orderVars
=============================================================================
