--------------------------- MODULE PortOrderProofs ---------------------------
(***************************************************************************)
(* Proofs about PortOrder, for every set of ports and dependency table.    *)
(***************************************************************************)
EXTENDS PortOrder, TLAPS

\* What Elems says of the ends of a sequence.
LEMMA ElemsEnds ==
    ASSUME NEW S, NEW s \in Seq(S)
    PROVE  /\ Elems(s) \subseteq S
           /\ s # <<>> => /\ Head(s) \in S /\ Tail(s) \in Seq(S)
                          /\ Head(s) \in Elems(s)
                          /\ Elems(s) = {Head(s)} \cup Elems(Tail(s))
           /\ s = <<>> => Elems(s) = {}
           /\ \A e \in S : Append(s, e) \in Seq(S) /\ Elems(Append(s, e)) = Elems(s) \cup {e}
  <1>1. Elems(s) \subseteq S
    BY DEF Elems
  <1>2. ASSUME s # <<>>
        PROVE  /\ Head(s) \in S /\ Tail(s) \in Seq(S)
               /\ Head(s) \in Elems(s)
               /\ Elems(s) = {Head(s)} \cup Elems(Tail(s))
    <2>1. Len(s) \in Nat \ {0} /\ Head(s) = s[1] /\ Tail(s) \in Seq(S)
          /\ DOMAIN s = 1..Len(s) /\ DOMAIN Tail(s) = 1..(Len(s) - 1)
          /\ \A i \in 1..(Len(s) - 1) : Tail(s)[i] = s[i + 1]
      BY <1>2
    <2>2. Elems(Tail(s)) \subseteq Elems(s)
      BY <2>1 DEF Elems
    <2>3. ASSUME NEW i \in 1..Len(s), i # 1
          PROVE  s[i] \in Elems(Tail(s))
      <3>1. i - 1 \in DOMAIN Tail(s) /\ Tail(s)[i - 1] = s[i]
        BY <2>1, <2>3
      <3>2. QED
        BY <3>1 DEF Elems
    <2>4. QED
      BY <2>1, <2>2, <2>3 DEF Elems
  <1>3. s = <<>> => Elems(s) = {}
    BY DEF Elems
  <1>4. ASSUME NEW e \in S
        PROVE  Append(s, e) \in Seq(S) /\ Elems(Append(s, e)) = Elems(s) \cup {e}
    <2>1. /\ Append(s, e) \in Seq(S) /\ Len(Append(s, e)) = Len(s) + 1 /\ Len(s) \in Nat
          /\ Append(s, e)[Len(s) + 1] = e
          /\ \A i \in 1..Len(s) : Append(s, e)[i] = s[i]
      OBVIOUS
    <2>2. QED
      BY <2>1 DEF Elems
  <1>5. QED
    BY <1>1, <1>2, <1>3, <1>4

\* A dependency table has a sequence of names for every port.
LEMMA DepsType ==
    ASSUME OrderTypeOK
    PROVE  deps \in [Ports -> Seq(Names)] /\ Ports \subseteq Names
  BY OrderAssumption DEF OrderTypeOK

\* The last frame, and the stack below and above it.
LEMMA StackEnds ==
    ASSUME OrderTypeOK, stack # <<>>
    PROVE  /\ Len(stack) \in Nat \ {0} /\ Len(stack) \in DOMAIN stack
           /\ Top \in Frame
           /\ SubSeq(stack, 1, Len(stack) - 1) \in Seq(Frame)
           /\ \A l \in Seq(Names) : [stack EXCEPT ![Len(stack)].left = l] \in Seq(Frame)
  <1>1. stack \in Seq(Frame) /\ Len(stack) \in Nat \ {0} /\ DOMAIN stack = 1..Len(stack)
    BY DEF OrderTypeOK
  <1>2. Top \in Frame
    BY <1>1 DEF Top
  <1>3. SubSeq(stack, 1, Len(stack) - 1) \in Seq(Frame)
    BY <1>1
  <1>4. ASSUME NEW l \in Seq(Names)
        PROVE  [stack EXCEPT ![Len(stack)].left = l] \in Seq(Frame)
    <2>1. [Top EXCEPT !.left = l] \in Frame
      BY <1>2 DEF Frame
    <2>2. [stack EXCEPT ![Len(stack)].left = l]
              = [stack EXCEPT ![Len(stack)] = [Top EXCEPT !.left = l]]
      BY <1>1 DEF Top
    <2>3. QED
      BY <1>1, <2>1, <2>2
  <1>5. QED
    BY <1>1, <1>2, <1>3, <1>4

\* A call of visit keeps the types, whatever it finds.
LEMMA VisitType ==
    ASSUME OrderTypeOK, NEW p \in Names, NEW rest \in Seq(Frame),
           outcome = "running", Visit(p, rest)
    PROVE  /\ stack' \in Seq(Frame)
           /\ visiting' \subseteq Ports
           /\ outcome' \in {"running", "ok", "circular", "unknown"}
  <1>1. CASE p \in added
    BY <1>1 DEF Visit, OrderTypeOK
  <1>2. CASE p \notin added /\ p \in visiting
    BY <1>2 DEF Visit, OrderTypeOK
  <1>3. CASE p \notin added /\ p \notin visiting /\ p \notin Ports
    BY <1>3 DEF Visit, OrderTypeOK
  <1>4. CASE p \notin added /\ p \notin visiting /\ p \in Ports
    <2>1. [port |-> p, left |-> deps[p]] \in Frame
      BY <1>4, DepsType DEF Frame
    <2>2. \A f \in Frame : Append(rest, f) \in Seq(Frame)
      OBVIOUS
    <2>3. stack' \in Seq(Frame)
      BY <1>4, <2>1, <2>2 DEF Visit
    <2>4. QED
      BY <1>4, <2>3 DEF Visit, OrderTypeOK
  <1>5. QED
    BY <1>1, <1>2, <1>3, <1>4

\* Every step keeps the types.
LEMMA TypeStep == OrderTypeOK /\ [Next]_vars => OrderTypeOK'
  <1> SUFFICES ASSUME OrderTypeOK, [Next]_vars
               PROVE  OrderTypeOK'
    OBVIOUS
  <1>1. CASE VisitRequested
    <2>1. Head(todo) \in Names /\ Tail(todo) \in Seq(Ports)
      BY <1>1, ElemsEnds, DepsType DEF VisitRequested, OrderTypeOK
    <2>2. <<>> \in Seq(Frame)
      OBVIOUS
    <2>3. QED
      BY <1>1, <2>1, <2>2, VisitType DEF VisitRequested, OrderTypeOK
  <1>2. CASE VisitDependency
    <2>1. Head(Top.left) \in Names /\ Tail(Top.left) \in Seq(Names)
      BY <1>2, ElemsEnds, StackEnds DEF VisitDependency, Frame
    <2>2. [stack EXCEPT ![Len(stack)].left = Tail(Top.left)] \in Seq(Frame)
      BY <1>2, <2>1, StackEnds DEF VisitDependency
    <2>3. QED
      BY <1>2, <2>1, <2>2, VisitType DEF VisitDependency, OrderTypeOK
  <1>3. CASE Return
    <2>1. Top.port \in Ports
      BY <1>3, StackEnds DEF Return, Frame
    <2>2. QED
      BY <1>3, <2>1, StackEnds, ElemsEnds DEF Return, OrderTypeOK
  <1>4. CASE Done
    BY <1>4 DEF Done, OrderTypeOK
  <1>5. CASE UNCHANGED vars
    BY <1>5 DEF vars, OrderTypeOK
  <1>6. QED
    BY <1>1, <1>2, <1>3, <1>4, <1>5 DEF Next

-----------------------------------------------------------------------------
(***************************************************************************)
(* The frames on the stack.                                                *)
(***************************************************************************)

\* The frames of rest while visit is being called for p from the last of them.
Calling(p, rest) ==
    /\ \A i \in DOMAIN rest :
           Elems(deps[rest[i].port]) \subseteq
               Elems(rest[i].left) \cup added \cup (IF i = Len(rest) THEN {p} ELSE {})
                   \cup {rest[j].port : j \in DOMAIN rest \cap {i + 1}}
    /\ \A i \in DOMAIN rest : Elems(rest[i].left) \subseteq Elems(deps[rest[i].port])
    /\ \A i \in DOMAIN rest : i > 1 => rest[i].port \in Elems(deps[rest[i - 1].port])
    /\ rest # <<>> => p \in Elems(deps[rest[Len(rest)].port])
    /\ \A i, j \in DOMAIN rest : rest[i].port = rest[j].port => i = j
    /\ visiting = {rest[i].port : i \in DOMAIN rest}

\* A call of visit leaves frames in order, whether it returns at once or pushes one.
LEMMA VisitFrames ==
    ASSUME OrderTypeOK, NEW p \in Names, NEW rest \in Seq(Frame), Calling(p, rest),
           Visit(p, rest), UNCHANGED <<deps, added>>
    PROVE  FramesInv'
  <1>1. /\ Len(rest) \in Nat /\ DOMAIN rest = 1..Len(rest)
        /\ rest # <<>> => Len(rest) \in DOMAIN rest
    OBVIOUS
  <1>2. CASE p \in added
    <2>1. stack' = rest /\ visiting' = visiting
      BY <1>2 DEF Visit
    <2>2. \A i \in DOMAIN rest : (IF i = Len(rest) THEN {p} ELSE {}) \subseteq added
      BY <1>2
    <2>3. \A i \in DOMAIN rest :
              Elems(deps[rest[i].port]) \subseteq
                  Elems(rest[i].left) \cup added \cup
                      {rest[j].port : j \in DOMAIN rest \cap {i + 1}}
      BY <2>2 DEF Calling
    <2>4. \A i \in DOMAIN stack' :
              Elems(deps'[stack'[i].port]) \subseteq
                  Elems(stack'[i].left) \cup added' \cup
                      {stack'[j].port : j \in DOMAIN stack' \cap {i + 1}}
      BY <2>1, <2>3
    <2>5. /\ \A i \in DOMAIN stack' : Elems(stack'[i].left) \subseteq Elems(deps'[stack'[i].port])
          /\ \A i \in DOMAIN stack' :
                i > 1 => stack'[i].port \in Elems(deps'[stack'[i - 1].port])
          /\ \A i, j \in DOMAIN stack' : stack'[i].port = stack'[j].port => i = j
          /\ visiting' = {stack'[i].port : i \in DOMAIN stack'}
      BY <2>1 DEF Calling
    <2>6. QED
      BY <2>4, <2>5 DEF FramesInv
  <1>3. CASE p \notin added /\ (p \in visiting \/ p \notin Ports)
    BY <1>3 DEF Visit, FramesInv
  <1>4. CASE p \notin added /\ p \notin visiting /\ p \in Ports
    <2> DEFINE new == [port |-> p, left |-> deps[p]]
    <2>1. new \in Frame
      BY <1>4, DepsType DEF Frame
    <2>2. visiting' = visiting \cup {p} /\ stack' = Append(rest, new)
      BY <1>4 DEF Visit
    <2> HIDE DEF new
    <2>3. /\ DOMAIN stack' = 1..(Len(rest) + 1)
          /\ \A i \in DOMAIN rest : stack'[i] = rest[i]
          /\ stack'[Len(rest) + 1] = new
      BY <1>1, <2>1, <2>2
    <2>4. new.port = p /\ new.left = deps[p]
      BY DEF new
    <2>5. \A i \in DOMAIN stack' : i \in DOMAIN rest \/ i = Len(rest) + 1
      BY <1>1, <2>3
    <2>6. \A i \in DOMAIN stack' :
              Elems(deps[stack'[i].port]) \subseteq
                  Elems(stack'[i].left) \cup added \cup
                      {stack'[j].port : j \in DOMAIN stack' \cap {i + 1}}
      <3> TAKE i \in DOMAIN stack'
      <3>1. CASE i = Len(rest) + 1
        BY <3>1, <2>3, <2>4
      <3>2. CASE i \in DOMAIN rest /\ i = Len(rest)
        <4>1. p \in {stack'[j].port : j \in DOMAIN stack' \cap {i + 1}}
          BY <3>2, <1>1, <2>3, <2>4
        <4>2. {rest[j].port : j \in DOMAIN rest \cap {i + 1}} = {}
          BY <3>2, <1>1
        <4>3. QED
          BY <3>2, <4>1, <4>2, <2>3 DEF Calling
      <3>3. CASE i \in DOMAIN rest /\ i # Len(rest)
        <4>1. {rest[j].port : j \in DOMAIN rest \cap {i + 1}}
                 \subseteq {stack'[j].port : j \in DOMAIN stack' \cap {i + 1}}
          BY <3>3, <1>1, <2>3
        <4>2. QED
          BY <3>3, <4>1, <2>3 DEF Calling
      <3>4. QED
        BY <2>5, <3>1, <3>2, <3>3
    <2>7. \A i \in DOMAIN stack' : Elems(stack'[i].left) \subseteq Elems(deps[stack'[i].port])
      BY <2>3, <2>4, <2>5 DEF Calling
    <2>8. \A i \in DOMAIN stack' : i > 1 => stack'[i].port \in Elems(deps[stack'[i - 1].port])
      <3> SUFFICES ASSUME NEW i \in DOMAIN stack', i > 1
                   PROVE  stack'[i].port \in Elems(deps[stack'[i - 1].port])
        OBVIOUS
      <3>1. i - 1 \in DOMAIN rest /\ stack'[i - 1] = rest[i - 1]
        BY <1>1, <2>3
      <3>2. CASE i = Len(rest) + 1
        BY <3>1, <3>2, <1>1, <2>3, <2>4 DEF Calling
      <3>3. CASE i \in DOMAIN rest
        BY <3>1, <3>3, <2>3 DEF Calling
      <3>4. QED
        BY <2>5, <3>2, <3>3
    <2>9. \A i, j \in DOMAIN stack' : stack'[i].port = stack'[j].port => i = j
      <3>1. \A i \in DOMAIN rest : stack'[i].port # p
        BY <1>4, <2>3 DEF Calling
      <3>2. QED
        BY <3>1, <2>3, <2>4, <2>5 DEF Calling
    <2>10. visiting' = {stack'[i].port : i \in DOMAIN stack'}
      BY <1>1, <2>2, <2>3, <2>4, <2>5 DEF Calling
    <2>11. QED
      BY <2>6, <2>7, <2>8, <2>9, <2>10 DEF FramesInv
  <1>5. QED
    BY <1>2, <1>3, <1>4

\* Every step keeps the frames a path of the graph whose done part is done.
LEMMA FramesStep ==
    ASSUME OrderTypeOK, OrderInv, [Next]_vars
    PROVE  FramesInv'
  <1>1. CASE VisitRequested
    <2>1. Head(todo) \in Names
      BY <1>1, ElemsEnds, DepsType DEF VisitRequested, OrderTypeOK
    <2>2. Calling(Head(todo), <<>>)
      BY <1>1 DEF VisitRequested, OrderInv, FramesInv, Calling
    <2>3. <<>> \in Seq(Frame)
      OBVIOUS
    <2>4. QED
      BY <1>1, <2>1, <2>2, <2>3, VisitFrames DEF VisitRequested
  <1>2. CASE VisitDependency
    <2> DEFINE rest == [stack EXCEPT ![Len(stack)].left = Tail(Top.left)]
    <2>1. /\ Head(Top.left) \in Names /\ Tail(Top.left) \in Seq(Names)
          /\ Head(Top.left) \in Elems(Top.left)
          /\ Elems(Top.left) = {Head(Top.left)} \cup Elems(Tail(Top.left))
      BY <1>2, ElemsEnds, StackEnds DEF VisitDependency, Frame
    <2>2. rest \in Seq(Frame)
      BY <1>2, <2>1, StackEnds DEF VisitDependency
    <2>3. /\ Len(stack) \in DOMAIN stack
          /\ DOMAIN rest = DOMAIN stack /\ Len(rest) = Len(stack)
          /\ \A i \in DOMAIN stack : rest[i].port = stack[i].port
          /\ \A i \in DOMAIN stack : i # Len(stack) => rest[i] = stack[i]
          /\ rest[Len(stack)].left = Tail(Top.left)
          /\ stack[Len(stack)].left = Top.left
      BY <1>2, StackEnds DEF VisitDependency, OrderTypeOK, Top, Frame
    <2>4. FramesInv /\ outcome = "running"
      BY <1>2 DEF OrderInv, VisitDependency
    <2> HIDE DEF rest
    <2>5. Calling(Head(Top.left), rest)
      <3>1. \A i \in DOMAIN rest :
               Elems(deps[rest[i].port]) \subseteq
                   Elems(rest[i].left) \cup added
                       \cup (IF i = Len(rest) THEN {Head(Top.left)} ELSE {})
                       \cup {rest[j].port : j \in DOMAIN rest \cap {i + 1}}
        <4> TAKE i \in DOMAIN rest
        <4>1. {stack[j].port : j \in DOMAIN stack \cap {i + 1}}
                 = {rest[j].port : j \in DOMAIN rest \cap {i + 1}}
          BY <2>3
        <4>2. Elems(stack[i].left) \subseteq
                  Elems(rest[i].left) \cup (IF i = Len(rest) THEN {Head(Top.left)} ELSE {})
          BY <2>1, <2>3
        <4>3. QED
          BY <4>1, <4>2, <2>3, <2>4 DEF FramesInv
      <3>2. \A i \in DOMAIN rest : Elems(rest[i].left) \subseteq Elems(deps[rest[i].port])
        BY <2>1, <2>3, <2>4 DEF FramesInv
      <3>3. \A i \in DOMAIN rest : i > 1 => rest[i].port \in Elems(deps[rest[i - 1].port])
        BY <2>2, <2>3, <2>4 DEF FramesInv
      <3>4. Head(Top.left) \in Elems(deps[rest[Len(rest)].port])
        BY <2>1, <2>3, <2>4 DEF FramesInv
      <3>5. visiting = {rest[i].port : i \in DOMAIN rest}
        BY <2>3, <2>4 DEF FramesInv
      <3>6. \A i, j \in DOMAIN rest : rest[i].port = rest[j].port => i = j
        BY <2>3, <2>4 DEF FramesInv
      <3>7. QED
        BY <3>1, <3>2, <3>3, <3>4, <3>5, <3>6 DEF Calling
    <2>6. Visit(Head(Top.left), rest) /\ UNCHANGED <<deps, added>>
      BY <1>2 DEF VisitDependency, rest
    <2>7. QED
      BY <2>1, <2>2, <2>5, <2>6, VisitFrames
  <1>3. CASE Return
    <2>1. /\ Len(stack) \in Nat \ {0} /\ DOMAIN stack = 1..Len(stack)
          /\ DOMAIN stack' = 1..(Len(stack) - 1)
          /\ \A i \in DOMAIN stack' : stack'[i] = stack[i] /\ i \in DOMAIN stack
          /\ stack[Len(stack)] = Top
      BY <1>3, StackEnds DEF Return, OrderTypeOK, Top
    <2>2. /\ FramesInv /\ outcome = "running"
          /\ added' = added \cup {Top.port} /\ visiting' = visiting \ {Top.port}
          /\ deps' = deps
      BY <1>3 DEF OrderInv, Return
    <2>3. \A i \in DOMAIN stack' :
              Elems(deps[stack'[i].port]) \subseteq
                  Elems(stack'[i].left) \cup added' \cup
                      {stack'[j].port : j \in DOMAIN stack' \cap {i + 1}}
      <3> TAKE i \in DOMAIN stack'
      <3>1. {stack[j].port : j \in DOMAIN stack \cap {i + 1}} \subseteq
                {Top.port} \cup {stack'[j].port : j \in DOMAIN stack' \cap {i + 1}}
        BY <2>1
      <3>2. QED
        BY <3>1, <2>1, <2>2 DEF FramesInv
    <2>4. visiting' = {stack'[i].port : i \in DOMAIN stack'}
      BY <2>1, <2>2 DEF FramesInv
    <2>5. \A i \in DOMAIN stack' : i > 1 => stack'[i].port \in Elems(deps[stack'[i - 1].port])
      BY <2>1, <2>2 DEF FramesInv
    <2>6. QED
      BY <2>1, <2>2, <2>3, <2>4, <2>5 DEF FramesInv
  <1>4. CASE Done
    BY <1>4 DEF Done, FramesInv
  <1>5. CASE UNCHANGED vars
    BY <1>5 DEF vars, OrderInv, FramesInv
  <1>6. QED
    BY <1>1, <1>2, <1>3, <1>4, <1>5 DEF Next

-----------------------------------------------------------------------------
(***************************************************************************)
(* What is done, what is needed and in which order it was finished.        *)
(***************************************************************************)

\* The request is needed, and so is what a needed port depends on.
LEMMA NeededClosed ==
    ASSUME OrderTypeOK
    PROVE  /\ Elems(request) \subseteq Order!Needed
           /\ \A p \in Order!Needed \cap Ports : Elems(deps[p]) \subseteq Order!Needed
  <1>1. Elems(request) \subseteq Names
    BY OrderAssumption, ElemsEnds DEF OrderTypeOK
  <1>2. \A p \in Ports : Elems(deps[p]) \subseteq Names
    BY DepsType, ElemsEnds
  <1>3. QED
    BY <1>1, <1>2 DEF Order!Needed, Order!Closed, Order!Elems, Elems

\* A call changes the ports being visited by at most the one it is called for.
LEMMA VisitVisiting ==
    ASSUME NEW p, NEW rest, Visit(p, rest), OrderTypeOK
    PROVE  /\ visiting' \subseteq visiting \cup {p}
           /\ outcome' = "running" /\ p \in visiting' => p \notin added \/ visiting' = visiting
           /\ outcome' = "running" =>
                 \/ p \in added /\ stack' = rest
                 \/ stack' = Append(rest, [port |-> p, left |-> deps[p]])
  BY DEF Visit, OrderTypeOK

\* What the top of the stack says when all its dependencies have been visited.
LEMMA ReturnReady ==
    ASSUME OrderTypeOK, OrderInv, Return
    PROVE  /\ Top.port \in Ports \cap visiting
           /\ Elems(deps[Top.port]) \subseteq added
           /\ Top.port \notin added
  <1>1. /\ Len(stack) \in DOMAIN stack /\ Top = stack[Len(stack)] /\ Top \in Frame
        /\ DOMAIN stack = 1..Len(stack) /\ Len(stack) \in Nat
    BY StackEnds DEF Return, OrderTypeOK, Top
  <1>2. FramesInv /\ ProgressInv /\ outcome = "running" /\ Top.left = <<>>
    BY DEF OrderInv, Return
  <1>3. Elems(Top.left) = {}
    BY <1>2 DEF Elems
  <1>4. DOMAIN stack \cap {Len(stack) + 1} = {}
    BY <1>1
  <1>5. Elems(deps[Top.port]) \subseteq added
    BY <1>1, <1>2, <1>3, <1>4 DEF FramesInv
  <1>6. Top.port \in visiting
    BY <1>1, <1>2 DEF FramesInv
  <1>7. QED
    BY <1>1, <1>2, <1>5, <1>6 DEF ProgressInv, Frame

\* Nothing is visited or finished that the request does not need.
LEMMA NeededStep ==
    ASSUME OrderTypeOK, OrderInv, [Next]_vars
    PROVE  NeededInv'
  <1> USE NeededClosed DEF OrderInv, NeededInv
  <1>1. CASE VisitRequested
    <2>1. Head(todo) \in Order!Needed
      BY <1>1, ElemsEnds DEF VisitRequested, OrderTypeOK, ProgressInv
    <2>2. added' = added /\ Order!Needed' = Order!Needed
      BY <1>1 DEF VisitRequested, Order!Needed, Order!Closed, Order!Elems
    <2>3. QED
      BY <1>1, <2>1, <2>2, VisitVisiting DEF VisitRequested
  <1>2. CASE VisitDependency
    <2>1. Head(Top.left) \in Elems(Top.left) /\ Len(stack) \in DOMAIN stack
          /\ Top = stack[Len(stack)] /\ Top.port \in Ports
      BY <1>2, ElemsEnds, StackEnds DEF VisitDependency, Frame, Top
    <2>2. Top.port \in visiting /\ Elems(Top.left) \subseteq Elems(deps[Top.port])
      BY <1>2, <2>1 DEF FramesInv, VisitDependency
    <2>3. Head(Top.left) \in Order!Needed
      BY <2>1, <2>2
    <2>4. added' = added /\ Order!Needed' = Order!Needed
      BY <1>2 DEF VisitDependency, Order!Needed, Order!Closed, Order!Elems
    <2>5. QED
      BY <1>2, <2>3, <2>4, VisitVisiting DEF VisitDependency
  <1>3. CASE Return
    <2>1. Order!Needed' = Order!Needed
      BY <1>3 DEF Return, Order!Needed, Order!Closed, Order!Elems
    <2>2. QED
      BY <1>3, <2>1, ReturnReady DEF Return
  <1>4. CASE Done
    <2>1. Order!Needed' = Order!Needed
      BY <1>4 DEF Done, Order!Needed, Order!Closed, Order!Elems
    <2>2. QED
      BY <1>4, <2>1 DEF Done
  <1>5. CASE UNCHANGED vars
    <2>1. Order!Needed' = Order!Needed
      BY <1>5 DEF vars, Order!Needed, Order!Closed, Order!Elems
    <2>2. QED
      BY <1>5, <2>1 DEF vars
  <1>6. QED
    BY <1>1, <1>2, <1>3, <1>4, <1>5 DEF Next

\* A finished port comes after its dependencies, and only once.
LEMMA FirstStep ==
    ASSUME OrderTypeOK, OrderInv, [Next]_vars
    PROVE  DependenciesFirst'
  <1>1. CASE Return
    <2>1. /\ ordered' = Append(ordered, Top.port) /\ deps' = deps
          /\ Elems(ordered) = added /\ DependenciesFirst
      BY <1>1 DEF Return, OrderInv, ProgressInv
    <2>2. Top.port \in Ports /\ Elems(deps[Top.port]) \subseteq Elems(ordered)
          /\ Top.port \notin Elems(ordered)
      BY <1>1, <2>1, ReturnReady
    <2>3. /\ Len(ordered) \in Nat /\ DOMAIN ordered = 1..Len(ordered)
          /\ DOMAIN ordered' = 1..(Len(ordered) + 1)
          /\ \A i \in DOMAIN ordered : ordered'[i] = ordered[i]
          /\ ordered'[Len(ordered) + 1] = Top.port
      BY <2>1, <2>2 DEF OrderTypeOK
    <2>4. Elems(ordered) = {ordered'[j] : j \in 1..Len(ordered)}
      BY <2>3 DEF Elems
    <2>5. \A i \in DOMAIN ordered' :
              Elems(deps[ordered'[i]]) \subseteq {ordered'[j] : j \in 1..(i - 1)}
      <3> TAKE i \in DOMAIN ordered'
      <3>1. CASE i = Len(ordered) + 1
        BY <3>1, <2>2, <2>3, <2>4
      <3>2. CASE i \in DOMAIN ordered
        <4>1. {ordered'[j] : j \in 1..(i - 1)} = {ordered[j] : j \in 1..(i - 1)}
          BY <3>2, <2>3
        <4>2. QED
          BY <4>1, <3>2, <2>1, <2>3 DEF DependenciesFirst
      <3>3. QED
        BY <3>1, <3>2, <2>3
    <2>6. \A i, j \in DOMAIN ordered' : ordered'[i] = ordered'[j] => i = j
      <3>1. \A i \in DOMAIN ordered : ordered'[i] # Top.port
        BY <2>2, <2>3 DEF Elems
      <3>2. \A i \in DOMAIN ordered' : i \in DOMAIN ordered \/ i = Len(ordered) + 1
        BY <2>3
      <3>3. QED
        BY <3>1, <3>2, <2>1, <2>3 DEF DependenciesFirst
    <2>7. QED
      BY <2>1, <2>5, <2>6 DEF DependenciesFirst
  <1>2. CASE ~Return
    <2>1. UNCHANGED <<deps, ordered>>
      BY <1>2 DEF Next, VisitRequested, VisitDependency, Done, vars
    <2>2. QED
      BY <2>1 DEF OrderInv, DependenciesFirst, Elems
  <1>3. QED
    BY <1>1, <1>2

\* The request is done, being visited or still to be looked at; what is being
\* visited is not done.
LEMMA ProgressStep ==
    ASSUME OrderTypeOK, OrderInv, [Next]_vars
    PROVE  ProgressInv'
  <1>1. CASE VisitRequested
    <2>1. /\ Head(todo) \in Names /\ Tail(todo) \in Seq(Ports)
          /\ Elems(todo) = {Head(todo)} \cup Elems(Tail(todo))
      BY <1>1, ElemsEnds, DepsType DEF VisitRequested, OrderTypeOK
    <2>2. /\ outcome = "running" /\ visiting = {} /\ stack = <<>> /\ todo' = Tail(todo)
          /\ UNCHANGED <<deps, request, added, ordered>> /\ Visit(Head(todo), <<>>)
          /\ ProgressInv
      BY <1>1 DEF VisitRequested, OrderInv, FramesInv
    <2>3. Elems(ordered') = added'
      BY <2>2 DEF ProgressInv, Elems
    <2>4. ASSUME outcome' = "running"
          PROVE  /\ visiting' \cap added' = {}
                 /\ Head(todo) \in added \/ (stack'[1].port = Head(todo) /\ 1 \in DOMAIN stack')
      BY <2>2, <2>4 DEF Visit
    <2>5. \A i \in DOMAIN stack : FALSE
      BY <2>2
    <2>6. Elems(todo') = Elems(Tail(todo)) /\ Elems(request') = Elems(request)
      BY <2>2
    <2>7. ASSUME outcome' = "running"
          PROVE  Elems(request') \subseteq Elems(todo') \cup added' \cup
                     {stack'[i].port : i \in DOMAIN stack' \cap {1}}
      <3>1. Elems(request) \subseteq Elems(todo) \cup added
        BY <2>2, <2>5 DEF ProgressInv
      <3>2. QED
        BY <3>1, <2>1, <2>2, <2>4, <2>6, <2>7
    <2>8. Elems(todo') \subseteq Elems(request')
      BY <2>1, <2>2, <2>6 DEF ProgressInv
    <2>9. QED
      BY <2>3, <2>4, <2>7, <2>8 DEF ProgressInv
  <1>2. CASE VisitDependency
    <2> DEFINE rest == [stack EXCEPT ![Len(stack)].left = Tail(Top.left)]
    <2>1. /\ Len(stack) \in DOMAIN stack /\ Len(stack) \in Nat \ {0}
          /\ DOMAIN stack = 1..Len(stack)
          /\ DOMAIN rest = DOMAIN stack /\ Len(rest) = Len(stack)
          /\ \A i \in DOMAIN stack : rest[i].port = stack[i].port
          /\ rest \in Seq(Frame)
      <3>1. Tail(Top.left) \in Seq(Names)
        BY <1>2, ElemsEnds, StackEnds DEF VisitDependency, Frame
      <3>2. rest \in Seq(Frame)
        BY <1>2, <3>1, StackEnds DEF VisitDependency
      <3>3. QED
        BY <3>2, <1>2, StackEnds DEF VisitDependency, OrderTypeOK, Top, Frame
    <2>2. /\ outcome = "running" /\ Visit(Head(Top.left), rest)
          /\ UNCHANGED <<deps, request, todo, added, ordered>> /\ ProgressInv
      BY <1>2 DEF VisitDependency, OrderInv
    <2> HIDE DEF rest
    <2>3. Elems(ordered') = added' /\ Elems(todo') = Elems(todo) /\ Elems(request') = Elems(request)
      BY <2>2 DEF ProgressInv, Elems
    <2>4. ASSUME outcome' = "running"
          PROVE  /\ visiting' \cap added' = {}
                 /\ 1 \in DOMAIN stack' /\ stack'[1].port = stack[1].port
      <3>1. CASE Head(Top.left) \in added
        BY <3>1, <2>1, <2>2 DEF Visit, ProgressInv
      <3>2. CASE Head(Top.left) \notin added
        <4>1. /\ visiting' = visiting \cup {Head(Top.left)}
              /\ stack' = Append(rest, [port |-> Head(Top.left), left |-> deps[Head(Top.left)]])
          BY <3>2, <2>2, <2>4 DEF Visit
        <4>2. 1 \in DOMAIN rest
          BY <2>1
        <4>3. /\ DOMAIN stack' = 1..(Len(rest) + 1)
              /\ \A i \in DOMAIN rest : stack'[i] = rest[i]
          BY <4>1, <2>1
        <4>4. QED
          BY <4>1, <4>2, <4>3, <3>2, <2>1, <2>2 DEF ProgressInv
      <3>3. QED
        BY <3>1, <3>2
    <2>5. ASSUME outcome' = "running"
          PROVE  {stack[i].port : i \in DOMAIN stack \cap {1}}
                    \subseteq {stack'[i].port : i \in DOMAIN stack' \cap {1}}
      BY <2>4, <2>5
    <2>6. QED
      BY <2>2, <2>3, <2>4, <2>5 DEF ProgressInv
  <1>3. CASE Return
    <2>1. /\ Top.port \in Ports /\ Top.port \in visiting
          /\ ordered' = Append(ordered, Top.port) /\ added' = added \cup {Top.port}
          /\ visiting' = visiting \ {Top.port} /\ todo' = todo /\ request' = request
          /\ outcome = "running" /\ ProgressInv
      BY <1>3, ReturnReady DEF Return, OrderInv
    <2>2. Elems(ordered') = added'
      BY <2>1, ElemsEnds DEF OrderTypeOK, ProgressInv
    <2>3. /\ Len(stack) \in Nat \ {0} /\ DOMAIN stack = 1..Len(stack)
          /\ DOMAIN stack' = 1..(Len(stack) - 1)
          /\ \A i \in DOMAIN stack' : stack'[i] = stack[i]
          /\ stack[Len(stack)] = Top
      BY <1>3, StackEnds DEF Return, OrderTypeOK, Top
    <2>4. {stack[i].port : i \in DOMAIN stack \cap {1}}
              \subseteq {Top.port} \cup {stack'[i].port : i \in DOMAIN stack' \cap {1}}
      BY <2>3
    <2>5. QED
      BY <2>1, <2>2, <2>4 DEF ProgressInv
  <1>4. CASE Done
    BY <1>4 DEF Done, OrderInv, ProgressInv
  <1>5. CASE UNCHANGED vars
    BY <1>5 DEF vars, OrderInv, ProgressInv
  <1>6. QED
    BY <1>1, <1>2, <1>3, <1>4, <1>5 DEF Next

-----------------------------------------------------------------------------
\* What holds in every state of the search.
Inv == OrderTypeOK /\ OrderInv

\* The search starts with nothing visited.
LEMMA InitInv == Init => Inv
  <1> SUFFICES ASSUME Init PROVE Inv
    OBVIOUS
  <1>1. OrderTypeOK
    BY OrderAssumption DEF Init, OrderTypeOK
  <1>2. DOMAIN stack = {} /\ DOMAIN ordered = {}
    BY DEF Init
  <1>3. FramesInv
    BY <1>2 DEF Init, FramesInv
  <1>4. Elems(ordered) = {}
    BY <1>2 DEF Elems
  <1>5. ProgressInv /\ NeededInv
    BY <1>4 DEF Init, ProgressInv, NeededInv
  <1>6. DependenciesFirst
    BY <1>2 DEF DependenciesFirst
  <1>7. QED
    BY <1>1, <1>3, <1>5, <1>6 DEF Inv, OrderInv

\* The invariant holds in every reachable state.
LEMMA AlwaysInv == Spec => []Inv
  <1>1. Inv /\ [Next]_vars => Inv'
    BY TypeStep, FramesStep, ProgressStep, NeededStep, FirstStep DEF Inv, OrderInv
  <1>2. QED
    BY <1>1, InitInv, PTL DEF Spec

\* The search keeps its types.
THEOREM OrderTypeCorrect == Spec => []OrderTypeOK
  <1>1. Inv => OrderTypeOK
    BY DEF Inv
  <1>2. QED
    BY <1>1, AlwaysInv, PTL

\* For every dependency table, circular or with unknown names, and every request:
\* no port comes before one it depends on, and none comes twice.
THEOREM DependenciesAlwaysFirst == Spec => []DependenciesFirst
  <1>1. Inv => DependenciesFirst
    BY DEF Inv, OrderInv
  <1>2. QED
    BY <1>1, AlwaysInv, PTL

\* The frames, the finished ports and the needed ones always fit together.
THEOREM OrderConsistent == Spec => []OrderInv
  <1>1. Inv => OrderInv
    BY DEF Inv
  <1>2. QED
    BY <1>1, AlwaysInv, PTL

-----------------------------------------------------------------------------
(***************************************************************************)
(* The search implements BuildOrder.                                       *)
(***************************************************************************)

\* The dependency at hand is one that the port on top of the stack depends on.
LEMMA NextDependency ==
    ASSUME OrderTypeOK, OrderInv, VisitDependency
    PROVE  /\ Head(Top.left) \in Elems(deps[Top.port])
           /\ Top.port \in Ports /\ Top.port \in visiting
           /\ Len(stack) \in DOMAIN stack /\ Top = stack[Len(stack)]
  <1>1. Head(Top.left) \in Elems(Top.left) /\ Len(stack) \in DOMAIN stack
        /\ Top = stack[Len(stack)] /\ Top.port \in Ports
    BY ElemsEnds, StackEnds DEF VisitDependency, Frame, Top
  <1>2. Top.port \in visiting /\ Elems(Top.left) \subseteq Elems(deps[Top.port])
    BY <1>1 DEF OrderInv, FramesInv, VisitDependency
  <1>3. QED
    BY <1>1, <1>2

\* A dependency that is being visited closes a cycle of needed ports.
LEMMA RealCycle ==
    ASSUME OrderTypeOK, OrderInv, VisitDependency, Head(Top.left) \in visiting
    PROVE  \E S \in SUBSET (Ports \cap Order!Needed) : Order!Circular(S)
  <1>1. /\ FramesInv /\ NeededInv /\ outcome = "running"
        /\ Len(stack) \in Nat /\ DOMAIN stack = 1..Len(stack)
    BY DEF OrderInv, VisitDependency, OrderTypeOK
  <1>2. PICK k \in DOMAIN stack : stack[k].port = Head(Top.left)
    BY <1>1 DEF FramesInv
  <1> DEFINE S == {stack[i].port : i \in k..Len(stack)}
  <1>3. S \subseteq visiting
    BY <1>1, <1>2 DEF FramesInv
  <1>4. S \in SUBSET (Ports \cap Order!Needed)
    BY <1>1, <1>3 DEF NeededInv, OrderTypeOK
  <1>5. Head(Top.left) \in S
    BY <1>1, <1>2
  <1>6. ASSUME NEW i \in k..Len(stack)
        PROVE  Elems(deps[stack[i].port]) \cap S # {}
    <2>1. CASE i = Len(stack)
      BY <2>1, <1>5, NextDependency
    <2>2. CASE i # Len(stack)
      <3> HIDE DEF S
      <3>1. i \in Nat /\ k \in Nat /\ 1 <= k /\ k <= i /\ i <= Len(stack)
        BY <1>1, <1>2, <1>6
      <3>2. i + 1 \in k..Len(stack) /\ i + 1 \in DOMAIN stack /\ i + 1 > 1 /\ (i + 1) - 1 = i
        <4>1. i + 1 <= Len(stack) /\ Len(stack) \in Nat
          <5>1. \A a, b \in Nat : a <= b /\ a # b => a + 1 <= b
            OBVIOUS
          <5>2. QED
            BY <5>1, <1>1, <2>2, <3>1
        <4>2. i + 1 \in k..Len(stack) /\ i + 1 > 1 /\ (i + 1) - 1 = i
          BY <4>1, <3>1
        <4>3. i + 1 \in 1..Len(stack)
          BY <4>1, <3>1
        <4>4. QED
          BY <4>2, <4>3, <1>1
      <3>3. stack[i + 1].port \in Elems(deps[stack[i].port])
        BY <3>2, <1>1 DEF FramesInv
      <3>4. stack[i + 1].port \in S
        BY <3>2 DEF S
      <3>5. QED
        BY <3>3, <3>4
    <2>3. QED
      BY <2>1, <2>2
  <1>7. \A p \in S : Elems(deps[p]) \cap S # {}
    BY <1>6
  <1> HIDE DEF S
  <1>8. \A s : Order!Elems(s) = Elems(s)
    BY DEF Order!Elems, Elems
  <1>9. Order!Circular(S)
    BY <1>5, <1>7, <1>8 DEF Order!Circular
  <1>10. QED
    BY <1>4, <1>9

\* Every step of the search is a step of BuildOrder, or none.
LEMMA OrderStep ==
    ASSUME OrderTypeOK, OrderInv, [Next]_vars
    PROVE  [Order!OrderNext]_(Order!orderVars)
  <1>1. CASE VisitRequested
    <2>1. Head(todo) \in Ports /\ visiting = {}
      BY <1>1, ElemsEnds DEF VisitRequested, OrderTypeOK, OrderInv, FramesInv
    <2>2. QED
      BY <1>1, <2>1 DEF VisitRequested, Visit, Order!orderVars
  <1>2. CASE VisitDependency
    <2> DEFINE rest == [stack EXCEPT ![Len(stack)].left = Tail(Top.left)]
    <2>1. Visit(Head(Top.left), rest) /\ outcome = "running"
          /\ UNCHANGED <<deps, request, ordered>>
      BY <1>2 DEF VisitDependency
    <2>2. CASE outcome' = outcome
      BY <2>1, <2>2 DEF Order!orderVars
    <2>3. CASE Head(Top.left) \in visiting /\ outcome' = "circular"
      BY <1>2, <2>1, <2>3, RealCycle DEF Order!OrderNext, Order!Refuse
    <2>4. CASE Head(Top.left) \notin Ports /\ outcome' = "unknown"
      <3>1. Head(Top.left) \in Order!Needed
        BY <1>2, NextDependency, NeededClosed DEF OrderInv, NeededInv
      <3>2. QED
        BY <3>1, <2>1, <2>4 DEF Order!OrderNext, Order!Refuse
    <2>5. QED
      BY <2>1, <2>2, <2>3, <2>4 DEF Visit
  <1>3. CASE Return
    <2>1. Top.port \in Order!Needed \ Elems(ordered)
          /\ Elems(deps[Top.port]) \subseteq Elems(ordered)
      BY <1>3, ReturnReady DEF OrderInv, NeededInv, ProgressInv
    <2>2. Order!Emit(Top.port)
      BY <1>3, <2>1 DEF Return, Order!Emit, Order!Elems, Elems
    <2>3. QED
      BY <1>3, <2>2, ReturnReady DEF Order!OrderNext
  <1>4. CASE Done
    <2>1. Elems(request) \subseteq Elems(ordered)
      <3>1. ProgressInv /\ outcome = "running" /\ stack = <<>> /\ todo = <<>>
        BY <1>4 DEF Done, OrderInv
      <3>2. Elems(todo) = {} /\ {stack[i].port : i \in DOMAIN stack \cap {1}} = {}
        BY <3>1 DEF Elems
      <3>3. QED
        BY <3>1, <3>2 DEF ProgressInv
    <2>2. Order!Finish
      BY <1>4, <2>1 DEF Done, Order!Finish, Order!Elems, Elems
    <2>3. QED
      BY <2>2 DEF Order!OrderNext
  <1>5. CASE UNCHANGED vars
    BY <1>5 DEF vars, Order!orderVars
  <1>6. QED
    BY <1>1, <1>2, <1>3, <1>4, <1>5 DEF Next

\* resolve_requested_packages computes a build order for every dependency table:
\* each port once, after its dependencies, only what is needed, all of the
\* request, and an error only for a real cycle or a real unknown name.
THEOREM SearchImplementsOrder == Spec => ImplementsBuildOrder
  <1>1. Init => Order!OrderInit
    BY DEF Init, Order!OrderInit
  <1>2. Inv /\ [Next]_vars => [Order!OrderNext]_(Order!orderVars)
    BY OrderStep DEF Inv
  <1>3. QED
    BY <1>1, <1>2, AlwaysInv, PTL DEF Spec, ImplementsBuildOrder, Order!OrderSpec

-----------------------------------------------------------------------------
(***************************************************************************)
(* A request that is in order already.                                     *)
(***************************************************************************)

\* The search walks down such a request: what is ordered, the one port under way and
\* what is still to do are its successive parts, and no dependency has to be visited
\* a second time.
ListedInv ==
    WellListed(request) =>
        /\ outcome \in {"running", "ok"}
        /\ outcome = "ok" => stack = <<>> /\ todo = <<>>
        /\ Len(stack) <= 1
        /\ Len(request) = Len(ordered) + Len(stack) + Len(todo)
        /\ \A i \in 1..Len(ordered) : ordered[i] = request[i]
        /\ stack # <<>> => /\ Top.port = request[Len(ordered) + 1]
                           /\ Elems(Top.left) \subseteq added
        /\ \A i \in 1..Len(todo) : todo[i] = request[Len(ordered) + Len(stack) + i]

\* The first port still to do is new and all it depends on is done.
LEMMA ListedHead ==
    ASSUME OrderTypeOK, OrderInv, ListedInv, WellListed(request),
           outcome = "running", stack = <<>>, todo # <<>>
    PROVE  /\ Head(todo) = request[Len(ordered) + 1]
           /\ Head(todo) \in Ports \ (added \cup visiting)
           /\ Elems(deps[Head(todo)]) \subseteq added
  <1>1. /\ Len(ordered) \in Nat /\ Len(todo) \in Nat \ {0} /\ Len(request) \in Nat
        /\ DOMAIN request = 1..Len(request) /\ DOMAIN ordered = 1..Len(ordered)
        /\ Head(todo) = todo[1] /\ Head(todo) \in Ports
    BY OrderAssumption DEF OrderTypeOK
  <1>2. Len(request) = Len(ordered) + Len(todo) /\ Head(todo) = request[Len(ordered) + 1]
    BY <1>1 DEF ListedInv
  <1>3. Len(ordered) + 1 \in DOMAIN request /\ (Len(ordered) + 1) - 1 = Len(ordered)
    BY <1>1, <1>2
  <1>4. {request[j] : j \in 1..Len(ordered)} = added
    <2>1. Elems(ordered) = added
      BY DEF OrderInv, ProgressInv
    <2>2. \A i \in 1..Len(ordered) : ordered[i] = request[i]
      BY DEF ListedInv
    <2>3. QED
      BY <1>1, <2>1, <2>2 DEF Elems
  <1>5. visiting = {}
    BY DEF OrderInv, FramesInv
  <1>6. QED
    BY <1>1, <1>2, <1>3, <1>4, <1>5 DEF WellListed

\* Every step keeps the search on its way down the request.
LEMMA ListedStep ==
    ASSUME OrderTypeOK, OrderInv, ListedInv, [Next]_vars
    PROVE  ListedInv'
  <1> SUFFICES ASSUME WellListed(request)'
               PROVE  ListedInv'
    BY DEF ListedInv
  <1>a. UNCHANGED <<deps, request>>
    BY DEF Next, VisitRequested, VisitDependency, Return, Done, vars
  <1>0. UNCHANGED <<deps, request>> /\ WellListed(request)
    BY <1>a DEF WellListed
  <1>1. Len(ordered) \in Nat /\ Len(todo) \in Nat /\ Len(request) \in Nat /\ Len(stack) \in Nat
    BY OrderAssumption DEF OrderTypeOK
  <1>2. CASE VisitRequested
    <2>1. /\ Head(todo) = request[Len(ordered) + 1]
          /\ Head(todo) \in Ports \ (added \cup visiting)
          /\ Elems(deps[Head(todo)]) \subseteq added
      BY <1>0, <1>2, ListedHead DEF VisitRequested
    <2>2. /\ stack' = Append(<<>>, [port |-> Head(todo), left |-> deps[Head(todo)]])
          /\ outcome' = "running" /\ todo' = Tail(todo)
          /\ UNCHANGED <<added, ordered>> /\ stack = <<>> /\ todo # <<>>
      BY <1>2, <2>1 DEF VisitRequested, Visit
    <2>3. Len(stack') = 1 /\ Top'.port = Head(todo) /\ Top'.left = deps[Head(todo)]
      BY <2>2 DEF Top
    <2>4. /\ Len(todo') = Len(todo) - 1
          /\ \A i \in 1..Len(todo') : todo'[i] = todo[i + 1]
      BY <2>2 DEF OrderTypeOK
    <2>5. /\ Len(request) = Len(ordered) + Len(todo)
          /\ \A i \in 1..Len(todo) : todo[i] = request[Len(ordered) + i]
          /\ \A i \in 1..Len(ordered) : ordered[i] = request[i]
      BY <1>0, <1>1, <2>2 DEF ListedInv, VisitRequested
    <2>6. \A i \in 1..Len(todo') : todo'[i] = request[Len(ordered) + 1 + i]
      <3>1. ASSUME NEW i \in 1..Len(todo')
            PROVE  i + 1 \in 1..Len(todo) /\ Len(ordered) + (i + 1) = Len(ordered) + 1 + i
        BY <1>1, <2>4
      <3>2. QED
        BY <2>4, <2>5, <3>1
    <2>7. Len(request') = Len(ordered') + Len(stack') + Len(todo')
      BY <1>0, <1>1, <2>2, <2>3, <2>4, <2>5
    <2>8. Top'.port = request'[Len(ordered') + 1] /\ Elems(Top'.left) \subseteq added'
      BY <1>0, <2>1, <2>2, <2>3
    <2>9. \A i \in 1..Len(todo') : todo'[i] = request'[Len(ordered') + Len(stack') + i]
      BY <1>0, <2>2, <2>3, <2>6
    <2>10. \A i \in 1..Len(ordered') : ordered'[i] = request'[i]
      BY <1>0, <2>2, <2>5
    <2>11. Len(stack') <= 1 /\ outcome' = "running"
      BY <2>2, <2>3
    <2>12. QED
      BY <2>7, <2>8, <2>9, <2>10, <2>11 DEF ListedInv
  <1>3. CASE VisitDependency
    <2>a. stack # <<>> /\ Top.left # <<>> /\ outcome = "running"
      BY <1>3 DEF VisitDependency
    <2>b. Top \in Frame /\ Len(stack) \in Nat \ {0}
      BY <2>a, StackEnds
    <2>c. Len(stack) <= 1 /\ Elems(Top.left) \subseteq added
      BY <1>0, <2>a DEF ListedInv
    <2>d. \A n \in Nat \ {0} : n <= 1 => n = 1
      OBVIOUS
    <2>1. /\ Top \in Frame /\ Top.left # <<>> /\ Len(stack) = 1
          /\ stack # <<>> /\ Elems(Top.left) \subseteq added
      BY <2>a, <2>b, <2>c, <2>d
    <2>2. Head(Top.left) \in added /\ Elems(Tail(Top.left)) \subseteq added
      BY <2>1, ElemsEnds DEF Frame
    <2>3. /\ stack' = [stack EXCEPT ![Len(stack)].left = Tail(Top.left)]
          /\ UNCHANGED <<outcome, todo, added, ordered>>
      BY <1>3, <2>2 DEF VisitDependency, Visit
    <2>4. Len(stack') = 1 /\ Top'.port = Top.port /\ Top'.left = Tail(Top.left)
      BY <2>1, <2>3 DEF Top, OrderTypeOK, Frame
    <2>5. stack' # <<>> /\ outcome' = "running"
      BY <1>3, <2>3, <2>4 DEF VisitDependency
    <2>6. /\ outcome' \in {"running", "ok"} /\ (outcome' = "ok" => stack' = <<>> /\ todo' = <<>>)
          /\ Len(stack') <= 1 /\ Len(request) = Len(ordered') + Len(stack') + Len(todo')
      BY <1>0, <2>1, <2>3, <2>4, <2>5 DEF ListedInv
    <2>7. /\ \A i \in 1..Len(ordered') : ordered'[i] = request[i]
          /\ \A i \in 1..Len(todo') : todo'[i] = request[Len(ordered') + Len(stack') + i]
      BY <1>0, <2>1, <2>3, <2>4 DEF ListedInv
    <2>8. Top'.port = request[Len(ordered') + 1] /\ Elems(Top'.left) \subseteq added'
      BY <1>0, <2>1, <2>2, <2>3, <2>4 DEF ListedInv
    <2>9. QED
      BY <1>0, <2>6, <2>7, <2>8 DEF ListedInv
  <1>4. CASE Return
    <2>a. stack # <<>> /\ outcome = "running"
      BY <1>4 DEF Return
    <2>b. Top.port \in Ports /\ Len(stack) \in Nat \ {0}
      BY <2>a, StackEnds DEF Frame
    <2>c. Len(stack) <= 1 /\ Top.port = request[Len(ordered) + 1]
      BY <1>0, <2>a DEF ListedInv
    <2>d. \A n \in Nat \ {0} : n <= 1 => n = 1
      OBVIOUS
    <2>1. Len(stack) = 1 /\ Top.port = request[Len(ordered) + 1] /\ Top.port \in Ports
      BY <2>b, <2>c, <2>d
    <2>2. stack' = <<>> /\ Len(stack') = 0
      BY <1>4, <2>1 DEF Return, OrderTypeOK
    <2>3. /\ Len(ordered') = Len(ordered) + 1
          /\ ordered'[Len(ordered) + 1] = Top.port
          /\ \A i \in 1..Len(ordered) : ordered'[i] = ordered[i]
      BY <1>4, <2>1 DEF Return, OrderTypeOK
    <2>4. outcome' = "running" /\ UNCHANGED todo
      BY <1>4 DEF Return
    <2>5. \A i \in 1..Len(ordered') : ordered'[i] = request[i]
      BY <1>0, <1>1, <2>1, <2>3 DEF ListedInv
    <2>6. QED
      BY <1>0, <1>1, <2>1, <2>2, <2>3, <2>4, <2>5 DEF ListedInv
  <1>5. CASE Done
    BY <1>0, <1>5 DEF Done, ListedInv, Top
  <1>6. CASE UNCHANGED vars
    BY <1>0, <1>6 DEF vars, ListedInv, Top
  <1>7. QED
    BY <1>2, <1>3, <1>4, <1>5, <1>6 DEF Next

\* "in stable topological order" (builder.py:595): a request that lists each port once
\* with its dependencies before it is always built exactly as it was written, for every
\* dependency table and request.
THEOREM ListedOrderAlwaysKept == Spec => []ListedOrderKept
  <1>1. Init => ListedInv
    BY OrderAssumption DEF Init, ListedInv
  <1>2. Inv /\ ListedInv /\ [Next]_vars => ListedInv'
    BY ListedStep DEF Inv
  <1>3. Inv /\ ListedInv => ListedOrderKept
    <2> SUFFICES ASSUME Inv, ListedInv, outcome # "running", WellListed(request)
                 PROVE  ordered = request
      BY DEF ListedOrderKept, ListedInv
    <2>1. ordered \in Seq(Ports) /\ request \in Seq(Ports)
      BY OrderAssumption DEF Inv, OrderTypeOK
    <2>2. Len(ordered) = Len(request) /\ \A i \in 1..Len(ordered) : ordered[i] = request[i]
      BY <2>1 DEF ListedInv
    <2>3. QED
      BY <2>1, <2>2
  <1>4. QED
    BY <1>1, <1>2, <1>3, AlwaysInv, PTL DEF Spec

-----------------------------------------------------------------------------
(* What Resolves rests on: each step of the search ends it, enters a port  *)
(* it has never entered, returns from one, or leaves those sets as they    *)
(* are and has one name less to visit.  The ports are finitely many.       *)

Entered == added \cup visiting

Advance ==
    \/ outcome = "running" /\ outcome' # "running"
    \/ Entered \subseteq Entered' /\ Entered' # Entered
    \/ Entered' = Entered /\ added \subseteq added' /\ added' # added
    \/ /\ Entered' = Entered /\ added' = added
       /\ \/ stack' = stack /\ Len(todo') < Len(todo)
          \/ /\ todo' = todo
             /\ Len(stack') = Len(stack) /\ Len(Top'.left) < Len(Top.left)

\* Whatever the dependency table, no port is entered a second time: a name that comes
\* up again costs one step, or ends the search as circular.
LEMMA VisitAdvances ==
    ASSUME OrderTypeOK, outcome = "running", NEW p, NEW rest, Visit(p, rest), UNCHANGED added
    PROVE  \/ outcome' # "running"
           \/ Entered \subseteq Entered' /\ Entered' # Entered
           \/ Entered' = Entered /\ stack' = rest
  BY DEF Visit, Entered

THEOREM SearchAlwaysAdvances == Spec => [][Advance]_vars
  <1>1. ASSUME Inv, Next PROVE Advance
    <2>0. OrderTypeOK
      BY <1>1 DEF Inv
    <2>1. CASE VisitRequested
      <3>1. \/ outcome' # "running"
            \/ Entered \subseteq Entered' /\ Entered' # Entered
            \/ Entered' = Entered /\ stack' = <<>>
        BY <2>0, <2>1, VisitAdvances DEF VisitRequested
      <3>2. Len(todo') < Len(todo)
        <4>1. todo \in Seq(Ports) /\ todo # <<>> /\ todo' = Tail(todo)
          BY <2>0, <2>1 DEF VisitRequested, OrderTypeOK
        <4>2. QED BY <4>1
      <3>3. QED BY <2>1, <3>1, <3>2 DEF VisitRequested, Advance
    <2>2. CASE VisitDependency
      <3> DEFINE rest == [stack EXCEPT ![Len(stack)].left = Tail(Top.left)]
      <3>1. \/ outcome' # "running"
            \/ Entered \subseteq Entered' /\ Entered' # Entered
            \/ Entered' = Entered /\ stack' = rest
        BY <2>0, <2>2, VisitAdvances DEF VisitDependency
      <3>2. Len(rest) = Len(stack) /\ rest[Len(rest)].left = Tail(Top.left)
        <4>1. stack \in Seq(Frame) /\ Len(stack) \in DOMAIN stack /\ Top \in Frame
          BY <2>0, <2>2, StackEnds DEF VisitDependency, OrderTypeOK
        <4>2. DOMAIN rest = DOMAIN stack /\ rest[Len(stack)] = [Top EXCEPT !.left = Tail(Top.left)]
          BY <4>1 DEF Top
        <4>3. Len(rest) = Len(stack)
          BY <4>1
        <4>4. QED BY <4>1, <4>2, <4>3 DEF Frame
      <3>3. Len(Tail(Top.left)) < Len(Top.left)
        <4>1. Top.left \in Seq(Names) /\ Top.left # <<>>
          BY <2>0, <2>2, StackEnds DEF VisitDependency, Frame
        <4>2. QED BY <4>1
      <3>4. stack' = rest => Len(stack') = Len(stack) /\ Len(Top'.left) < Len(Top.left)
        BY <3>2, <3>3 DEF Top
      <3> HIDE DEF rest
      <3>5. QED BY <2>2, <3>1, <3>4 DEF VisitDependency, Advance
    <2>3. CASE Return
      <3>1. Top.port \in visiting /\ Top.port \notin added
        <4>1. stack # <<>> /\ outcome = "running"
          BY <2>3 DEF Return
        <4>2. Len(stack) \in DOMAIN stack
          BY <2>0, <4>1, StackEnds
        <4>3. QED BY <1>1, <4>1, <4>2 DEF Inv, OrderInv, FramesInv, ProgressInv, Top
      <3>2. Entered' = Entered
        BY <2>3, <3>1 DEF Return, Entered
      <3>3. added \subseteq added' /\ added' # added
        BY <2>3, <3>1 DEF Return
      <3>4. QED BY <3>2, <3>3 DEF Advance
    <2>4. CASE Done
      BY <2>4 DEF Done, Advance
    <2>5. QED BY <1>1, <2>1, <2>2, <2>3, <2>4 DEF Next
  <1>2. Inv /\ [Next]_vars => [Advance]_vars
    BY <1>1
  <1>3. QED BY <1>2, AlwaysInv, PTL DEF Spec
=============================================================================
