------------------------------ MODULE PortOrder ------------------------------
(***************************************************************************)
(* builder.py resolve_requested_packages: the order in which the requested *)
(* ports and what they depend on are built.  The recursive visit is a      *)
(* stack of frames, each with the dependencies its loop has still to visit. *)
(***************************************************************************)
EXTENDS Naturals, Sequences

CONSTANTS
    Names,          \* names that PACKAGE_DEPENDENCIES may mention
    Ports,          \* PACKAGES
    Graphs,         \* the contents PACKAGE_DEPENDENCIES may have
    Requests        \* what main may ask for: names it has found in PACKAGES

ASSUME OrderAssumption ==
    /\ Ports \subseteq Names
    /\ Graphs \subseteq [Ports -> Seq(Names)]
    /\ Requests \subseteq Seq(Ports)

VARIABLES
    deps,           \* PACKAGE_DEPENDENCIES, the empty sequence where it has no entry
    request,        \* requested_packages
    todo,           \* what the outer loop has still to visit
    stack,          \* the calls of visit that have not returned
    visiting, added, ordered,
    outcome         \* "running", "ok", "circular" or "unknown"

vars == <<deps, request, todo, stack, visiting, added, ordered, outcome>>

Elems(s) == {s[i] : i \in DOMAIN s}
Frame    == [port : Ports, left : Seq(Names)]
Top      == stack[Len(stack)]

OrderTypeOK ==
    /\ deps \in Graphs
    /\ request \in Requests
    /\ todo \in Seq(Ports)
    /\ stack \in Seq(Frame)
    /\ visiting \subseteq Ports
    /\ added \subseteq Ports
    /\ ordered \in Seq(Ports)
    /\ outcome \in {"running", "ok", "circular", "unknown"}

Init ==
    /\ deps \in Graphs
    /\ request \in Requests
    /\ todo = request
    /\ stack = <<>>
    /\ visiting = {} /\ added = {}
    /\ ordered = <<>>
    /\ outcome = "running"

-----------------------------------------------------------------------------
\* Mutation: a port that is being visited counts as done.
VisitNoCycleCheck(p, rest) ==
    IF p \in added \cup visiting
    THEN /\ stack' = rest
         /\ UNCHANGED <<visiting, outcome>>
    ELSE IF p \notin Ports
    THEN /\ outcome' = "unknown" /\ stack' = rest
         /\ UNCHANGED visiting
    ELSE /\ visiting' = visiting \cup {p}
         /\ stack' = Append(rest, [port |-> p, left |-> deps[p]])
         /\ UNCHANGED outcome

\* The entry of visit, called with the frames of rest on the stack.
Visit(p, rest) ==
    IF p \in added
    THEN /\ stack' = rest
         /\ UNCHANGED <<visiting, outcome>>
    ELSE IF p \in visiting
    THEN /\ outcome' = "circular" /\ stack' = rest
         /\ UNCHANGED visiting
    ELSE IF p \notin Ports
    THEN /\ outcome' = "unknown" /\ stack' = rest
         /\ UNCHANGED visiting
    ELSE /\ visiting' = visiting \cup {p}
         /\ stack' = Append(rest, [port |-> p, left |-> deps[p]])
         /\ UNCHANGED outcome

\* Mutation: the request is worked off from its end.
VisitRequestedLast ==
    /\ outcome = "running"
    /\ stack = <<>> /\ todo # <<>>
    /\ todo' = SubSeq(todo, 1, Len(todo) - 1)
    /\ Visit(todo[Len(todo)], <<>>)
    /\ UNCHANGED <<deps, request, added, ordered>>

VisitRequested ==
    /\ outcome = "running"
    /\ stack = <<>> /\ todo # <<>>
    /\ todo' = Tail(todo)
    /\ Visit(Head(todo), <<>>)
    /\ UNCHANGED <<deps, request, added, ordered>>

\* Mutation: the loop does not get past its first dependency.
VisitFirstDependency ==
    /\ outcome = "running"
    /\ stack # <<>> /\ Top.left # <<>>
    /\ Visit(Head(Top.left), stack)
    /\ UNCHANGED <<deps, request, todo, added, ordered>>

VisitDependency ==
    /\ outcome = "running"
    /\ stack # <<>> /\ Top.left # <<>>
    /\ Visit(Head(Top.left),
             [stack EXCEPT ![Len(stack)].left = Tail(Top.left)])
    /\ UNCHANGED <<deps, request, todo, added, ordered>>

\* Mutation: a port is put before what was finished earlier.
ReturnPrepending ==
    /\ outcome = "running"
    /\ stack # <<>> /\ Top.left = <<>>
    /\ visiting' = visiting \ {Top.port}
    /\ added' = added \cup {Top.port}
    /\ ordered' = <<Top.port>> \o ordered
    /\ stack' = SubSeq(stack, 1, Len(stack) - 1)
    /\ UNCHANGED <<deps, request, todo, outcome>>

Return ==
    /\ outcome = "running"
    /\ stack # <<>> /\ Top.left = <<>>
    /\ visiting' = visiting \ {Top.port}
    /\ added' = added \cup {Top.port}
    /\ ordered' = Append(ordered, Top.port)
    /\ stack' = SubSeq(stack, 1, Len(stack) - 1)
    /\ UNCHANGED <<deps, request, todo, outcome>>

Done ==
    /\ outcome = "running"
    /\ stack = <<>> /\ todo = <<>>
    /\ outcome' = "ok"
    /\ UNCHANGED <<deps, request, todo, stack, visiting, added, ordered>>

Next == VisitRequested \/ VisitDependency \/ Return \/ Done
Spec == Init /\ [][Next]_vars

\* The resolution is a plain computation.
FairSpec == Spec /\ WF_vars(Next)

-----------------------------------------------------------------------------
Order == INSTANCE BuildOrder WITH
    deps <- deps, request <- request, ordered <- ordered, outcome <- outcome

\* No port is built before one it depends on, also when the resolution ends in
\* an error half way, and none is built twice.
DependenciesFirst ==
    /\ \A i \in DOMAIN ordered :
           Elems(deps[ordered[i]]) \subseteq {ordered[j] : j \in 1..(i - 1)}
    /\ \A i, j \in DOMAIN ordered : ordered[i] = ordered[j] => i = j

\* The frames on the stack are a path of the dependency graph, a frame's
\* dependencies are done, ahead of it or being visited, and what is finished or
\* under way is needed: this is why DependenciesFirst survives a Return and why
\* an error is true of the table.
FramesInv ==
    outcome = "running" =>
        /\ \A i \in DOMAIN stack :
               Elems(deps[stack[i].port]) \subseteq
                   Elems(stack[i].left) \cup added \cup
                       {stack[j].port : j \in DOMAIN stack \cap {i + 1}}
        /\ \A i \in DOMAIN stack : Elems(stack[i].left) \subseteq Elems(deps[stack[i].port])
        /\ \A i \in DOMAIN stack : i > 1 => stack[i].port \in Elems(deps[stack[i - 1].port])
        /\ \A i, j \in DOMAIN stack : stack[i].port = stack[j].port => i = j
        /\ visiting = {stack[i].port : i \in DOMAIN stack}

ProgressInv ==
    /\ Elems(ordered) = added
    /\ outcome = "running" =>
        /\ visiting \cap added = {}
        /\ Elems(todo) \subseteq Elems(request)
        /\ Elems(request) \subseteq Elems(todo) \cup added \cup
                                    {stack[i].port : i \in DOMAIN stack \cap {1}}

NeededInv == added \cup visiting \subseteq Order!Needed

OrderInv == FramesInv /\ ProgressInv /\ NeededInv /\ DependenciesFirst

\* "in stable topological order" (builder.py:595): a request which lists each
\* port once, with its dependencies before it, is built as it was written.
WellListed(r) ==
    \A i \in DOMAIN r :
        /\ Elems(deps[r[i]]) \subseteq {r[j] : j \in 1..(i - 1)}
        /\ r[i] \notin {r[j] : j \in 1..(i - 1)}

ListedOrderKept == outcome # "running" /\ WellListed(request) =>
    outcome = "ok" /\ ordered = request

\* The visits end, also in a dependency graph with cycles.
Resolves == <>(outcome # "running")

\* The depth-first search computes a build order: it emits only what the request
\* needs, each port after its dependencies, finishes only when the request is
\* served, and its two errors are true of the dependency table.
ImplementsBuildOrder == Order!OrderSpec
=============================================================================
