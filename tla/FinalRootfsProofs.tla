------------------------- MODULE FinalRootfsProofs --------------------------
(***************************************************************************)
(* Proofs about FinalRootfs, for any number of releases, builds,           *)
(* interruptions and restarts, and for any directories ports install to.   *)
(*                                                                         *)
(* The first part says of each operator of RootfsLayout what it makes of a *)
(* tree: which nodes it changes, which directories it empties, and that it *)
(* stays among the trees.  The second part is the inductive invariant:     *)
(*                                                                         *)
(*   RootfsTypeOK  the types;                                              *)
(*   LaidInv       from the layout on the final tree is merged and normal; *)
(*   VersionInv    the index, the stages and the records are of one        *)
(*                 release once prepare_rootfs has ended;                  *)
(*   ListInv       what gpkg and dpkg list is in the tree unless it was    *)
(*                 removed after the registry was written, or pruned;      *)
(*   ProviderInv   after the reconciliation the Debian library is alone,   *)
(*                 unless the ncurses or Perl normaliser has replaced it;  *)
(*   StagesInv     the stages have the library where the linker looks;     *)
(*   FinalInv      so has the final tree, until it is pruned.              *)
(***************************************************************************)
EXTENDS FinalRootfs, TLAPS

-----------------------------------------------------------------------------
(* The operators of RootfsLayout.                                          *)

LEMMA NamesAre == Names = {"dev", "soname", "v1", "v2"}
  BY DEF Names, NamesInOrder

LEMMA PlaceOf ==
    ASSUME NEW d \in Dirs, NEW n \in Names
    PROVE  <<d, n>> \in Places
  BY DEF Places

LEMMA AliasIs ==
    ASSUME NEW t \in Trees, NEW p \in Places
    PROVE  /\ Alias(t, p) \in Places
           /\ Alias(t, Alias(t, p)) = Alias(t, p)
  BY DEF Alias, Places, Trees, Dirs

LEMMA AliasOf ==
    ASSUME NEW t \in Trees, NEW n \in Names
    PROVE  /\ \A d \in {"canon", "usrlib64", "dup", "top"} : Alias(t, <<d, n>>) = <<d, n>>
           /\ Alias(t, <<"lib", n>>) = IF t.merged THEN <<"canon", n>> ELSE <<"lib", n>>
           /\ Alias(t, <<"lib64", n>>) = IF t.lib64 THEN <<"usrlib64", n>> ELSE <<"lib64", n>>
  BY DEF Alias, Places, Trees, Dirs

LEMMA NodeIs ==
    ASSUME NEW t \in Trees, NEW p \in Places
    PROVE  Node(t, p) \in Nodes
  BY AliasIs DEF Node, Trees

\* The four kinds of nodes.
LEMMA NodesAre ==
    /\ None \in Nodes /\ None.is = "none"
    /\ \A o \in {"deb", "port"} : File(o) \in Nodes /\ File(o).is = "file"
    /\ \A p \in Places : /\ LinkTo(p) \in Nodes /\ LinkTo(p).is = "link"
                         /\ LinkTo(p).to = p /\ LinkTo(p).tree = "here"
    /\ Wide \in Nodes /\ Wide.is = "wide"
    /\ \A x \in Nodes : /\ x.is \in {"none", "file", "link", "wide"}
                        /\ x.is = "none" => x = None
                        /\ x.is = "wide" => x = Wide
    /\ \A x \in Nodes : x.is = "link" =>
          /\ x.to \in Places /\ x.tree \in {"here", "sysroot"}
          /\ x = [is |-> "link", to |-> x.to, tree |-> x.tree]
  BY DEF Nodes, None, File, LinkTo, Wide

LEMMA PutIs ==
    ASSUME NEW t \in Trees, NEW p \in Places, NEW node \in Nodes
    PROVE  /\ Put(t, p, node) \in Trees
           /\ Put(t, p, node).merged = t.merged
           /\ Put(t, p, node).lib64 = t.lib64
           /\ \A q \in Places : Alias(Put(t, p, node), q) = Alias(t, q)
           /\ \A q \in Places : Node(Put(t, p, node), q)
                = IF Alias(t, q) = Alias(t, p) THEN node ELSE Node(t, q)
  <1>1. Put(t, p, node) \in Trees
    BY AliasIs DEF Put, Trees
  <1>2. Put(t, p, node).merged = t.merged /\ Put(t, p, node).lib64 = t.lib64
    BY DEF Put, Trees
  <1>3. \A q \in Places : Alias(Put(t, p, node), q) = Alias(t, q)
    BY <1>2 DEF Alias
  <1>4. \A q \in Places : Node(Put(t, p, node), q)
                = IF Alias(t, q) = Alias(t, p) THEN node ELSE Node(t, q)
    BY <1>3, AliasIs DEF Node, Put, Trees
  <1>5. QED BY <1>1, <1>2, <1>3, <1>4

LEMMA PutRaw ==
    ASSUME NEW t \in Trees, NEW p \in Places, NEW node
    PROVE  \A q \in Places : q # Alias(t, p) => Put(t, p, node).at[q] = t.at[q]
  BY AliasIs DEF Put, Trees

LEMMA MoveIs ==
    ASSUME NEW t \in Trees, NEW from \in Places, NEW to \in Places
    PROVE  LET u == Move(t, from, to)
           IN  /\ u \in Trees /\ u.merged = t.merged /\ u.lib64 = t.lib64
               /\ \A q \in Places : Alias(u, q) = Alias(t, q)
               /\ Node(t, from) = None => u = t
               /\ Alias(t, from) = Alias(t, to) => u = t
               /\ Alias(t, from) # Alias(t, to) =>
                     /\ Node(u, from) = None
                     /\ Node(u, to) = IF Node(t, from) \in {None, LinkTo(to)} THEN Node(t, to)
                                      ELSE Node(t, from)
               /\ \A q \in Places : Alias(t, q) \notin {Alias(t, from), Alias(t, to)}
                     => Node(u, q) = Node(t, q)
  <1>1. CASE Node(t, from) = None \/ Alias(t, from) = Alias(t, to)
    <2>1. Move(t, from, to) = t
      BY <1>1 DEF Move
    <2>2. QED BY <1>1, <2>1
  <1>2. CASE /\ ~(Node(t, from) = None \/ Alias(t, from) = Alias(t, to))
             /\ Node(t, from) = LinkTo(to)
    <2> DEFINE w == Put(t, from, None)
    <2>1. Move(t, from, to) = w
      BY <1>2 DEF Move
    <2>2. /\ w \in Trees /\ w.merged = t.merged /\ w.lib64 = t.lib64
          /\ \A q \in Places : Alias(w, q) = Alias(t, q)
          /\ \A q \in Places : Node(w, q) = IF Alias(t, q) = Alias(t, from) THEN None
                                            ELSE Node(t, q)
      <3>1. None \in Nodes
        BY NodesAre
      <3>2. QED BY <3>1, PutIs
    <2> HIDE DEF w
    <2>3. QED BY <1>2, <2>1, <2>2
  <1>3. CASE /\ ~(Node(t, from) = None \/ Alias(t, from) = Alias(t, to))
             /\ Node(t, from) # LinkTo(to)
    <2> DEFINE w == Put(t, to, Node(t, from))
    <2>1. Move(t, from, to) = Put(w, from, None)
      BY <1>3 DEF Move
    <2>2. /\ w \in Trees /\ w.merged = t.merged /\ w.lib64 = t.lib64
          /\ \A q \in Places : Alias(w, q) = Alias(t, q)
          /\ \A q \in Places : Node(w, q) = IF Alias(t, q) = Alias(t, to) THEN Node(t, from)
                                            ELSE Node(t, q)
      <3>1. Node(t, from) \in Nodes
        BY NodeIs
      <3>2. QED BY <3>1, PutIs
    <2> HIDE DEF w
    <2>3. /\ Put(w, from, None) \in Trees
          /\ Put(w, from, None).merged = w.merged /\ Put(w, from, None).lib64 = w.lib64
          /\ \A q \in Places : Alias(Put(w, from, None), q) = Alias(w, q)
          /\ \A q \in Places : Node(Put(w, from, None), q)
                = IF Alias(w, q) = Alias(w, from) THEN None ELSE Node(w, q)
      <3>1. None \in Nodes
        BY NodesAre
      <3>2. w \in Trees
        BY <2>2
      <3>3. QED BY <3>1, <3>2, PutIs
    <2>4. QED BY <1>3, <2>1, <2>2, <2>3
  <1>4. QED BY <1>1, <1>2, <1>3
-----------------------------------------------------------------------------
(* What a step on a tree leaves alone.  A tree is kept by an operator that *)
(* stays among the trees and changes neither of the links of directories;  *)
(* its canonical directory loses no name.                                  *)

Kept(t, u) ==
    /\ u \in Trees /\ u.merged = t.merged
    /\ \A n \in Names : Node(t, <<"canon", n>>) # None => Node(u, <<"canon", n>>) # None

LEMMA KeptTwice ==
    ASSUME NEW t, NEW u, NEW w, Kept(t, u), Kept(u, w)
    PROVE  Kept(t, w)
  BY DEF Kept

LEMMA KeptSelf ==
    ASSUME NEW t \in Trees
    PROVE  Kept(t, t)
  BY DEF Kept

LEMMA MoveKept ==
    ASSUME NEW t \in Trees, NEW d \in Dirs \ {"canon", "lib"}, NEW e \in Dirs, NEW n \in Names
    PROVE  Kept(t, Move(t, <<d, n>>, <<e, n>>))
  <1> DEFINE u == Move(t, <<d, n>>, <<e, n>>)
  <1>1. <<d, n>> \in Places /\ <<e, n>> \in Places
    BY PlaceOf
  <1>2. \A m \in Names : <<"canon", m>> \in Places
    BY PlaceOf DEF Dirs
  <1>3. \A m \in Names : Alias(t, <<"canon", m>>) = <<"canon", m>>
    BY AliasOf
  <1>4. \A m \in Names : Alias(t, <<"canon", m>>) # Alias(t, <<d, n>>)
    BY <1>3 DEF Alias, Dirs
  <1>5. ASSUME NEW m \in Names, Node(t, <<"canon", m>>) # None
        PROVE  Node(u, <<"canon", m>>) # None
    <2>1. CASE Alias(t, <<"canon", m>>) = Alias(t, <<e, n>>)
      <3>1. Node(u, <<"canon", m>>) = Node(u, <<e, n>>) /\ Node(t, <<"canon", m>>) = Node(t, <<e, n>>)
        BY <2>1, <1>1, <1>2, MoveIs DEF Node
      <3>2. Node(u, <<e, n>>) # None
        BY <3>1, <1>5, <1>4, <2>1, <1>1, MoveIs
      <3>3. QED BY <3>1, <3>2
    <2>2. CASE Alias(t, <<"canon", m>>) # Alias(t, <<e, n>>)
      <3>1. Node(u, <<"canon", m>>) = Node(t, <<"canon", m>>)
        BY <2>2, <1>1, <1>2, <1>4, MoveIs
      <3>2. QED BY <3>1, <1>5
    <2>3. QED BY <2>1, <2>2
  <1>6. u \in Trees /\ u.merged = t.merged
    BY <1>1, MoveIs
  <1>7. QED BY <1>5, <1>6 DEF Kept

LEMMA MoveDirKept ==
    ASSUME NEW t \in Trees, NEW d \in Dirs \ {"canon", "lib"}, NEW e \in Dirs
    PROVE  Kept(t, MoveDir(t, d, e))
  <1> DEFINE a == Move(t, <<d, "dev">>, <<e, "dev">>)
             b == Move(a, <<d, "soname">>, <<e, "soname">>)
             c == Move(b, <<d, "v1">>, <<e, "v1">>)
             w == Move(c, <<d, "v2">>, <<e, "v2">>)
  <1>1. MoveDir(t, d, e) = w
    BY DEF MoveDir, ForNames
  <1>2. Kept(t, a) /\ a \in Trees
    BY MoveKept, NamesAre DEF Kept
  <1> HIDE DEF a
  <1>3. Kept(a, b) /\ b \in Trees
    <2>1. Kept(a, b)
      BY <1>2, MoveKept, NamesAre
    <2>2. QED BY <2>1 DEF Kept
  <1> HIDE DEF b
  <1>4. Kept(b, c) /\ c \in Trees
    BY <1>3, MoveKept, NamesAre DEF Kept
  <1> HIDE DEF c
  <1>5. Kept(c, w)
    BY <1>4, MoveKept, NamesAre
  <1> HIDE DEF w
  <1>6. QED BY <1>1, <1>2, <1>3, <1>4, <1>5, KeptTwice

-----------------------------------------------------------------------------
(* A step for one name leaves the other names alone, so a step for every   *)
(* name does to each what the step for it does.                            *)

LEMMA AliasName ==
    ASSUME NEW t \in Trees, NEW p \in Places
    PROVE  Alias(t, p)[2] = p[2]
  BY DEF Alias, Places

SameFlags(t, u) ==
    /\ t \in Trees /\ u \in Trees /\ u.merged = t.merged /\ u.lib64 = t.lib64

LEMMA SameAlias ==
    ASSUME NEW t, NEW u, SameFlags(t, u), NEW p
    PROVE  Alias(u, p) = Alias(t, p)
  BY DEF SameFlags, Alias

\* Only the name m is touched.
Only(t, u, m) ==
    SameFlags(t, u) /\ \A q \in Places : q[2] # m => Node(u, q) = Node(t, q)

LEMMA PutOnly ==
    ASSUME NEW t \in Trees, NEW p \in Places, NEW node \in Nodes
    PROVE  Only(t, Put(t, p, node), p[2])
  BY PutIs, AliasName DEF Only, SameFlags

\* MoveIs for one name of two directories.
LEMMA MoveAt ==
    ASSUME NEW t \in Trees, NEW d \in Dirs, NEW e \in Dirs, NEW n \in Names
    PROVE  LET u == Move(t, <<d, n>>, <<e, n>>)
           IN  /\ u \in Trees /\ u.merged = t.merged /\ u.lib64 = t.lib64
               /\ Alias(t, <<d, n>>) # Alias(t, <<e, n>>) =>
                     /\ Node(u, <<d, n>>) = None
                     /\ Node(u, <<e, n>>) = IF Node(t, <<d, n>>) \in {None, LinkTo(<<e, n>>)}
                                            THEN Node(t, <<e, n>>) ELSE Node(t, <<d, n>>)
               /\ \A q \in Places : Alias(t, q) \notin {Alias(t, <<d, n>>), Alias(t, <<e, n>>)}
                     => Node(u, q) = Node(t, q)
  <1> DEFINE from == <<d, n>>
             to == <<e, n>>
  <1>1. from \in Places /\ to \in Places
    BY PlaceOf
  <1> HIDE DEF from, to
  <1> DEFINE u == Move(t, from, to)
  <1>2. u \in Trees /\ u.merged = t.merged /\ u.lib64 = t.lib64
    BY <1>1, MoveIs
  <1>3. Alias(t, from) # Alias(t, to) =>
           /\ Node(u, from) = None
           /\ Node(u, to) = IF Node(t, from) \in {None, LinkTo(to)} THEN Node(t, to)
                            ELSE Node(t, from)
    BY <1>1, MoveIs
  <1>4. \A q \in Places : Alias(t, q) \notin {Alias(t, from), Alias(t, to)}
           => Node(u, q) = Node(t, q)
    BY <1>1, MoveIs
  <1>5. QED BY <1>2, <1>3, <1>4 DEF from, to

LEMMA MoveOnly ==
    ASSUME NEW t \in Trees, NEW d \in Dirs, NEW e \in Dirs, NEW m \in Names
    PROVE  Only(t, Move(t, <<d, m>>, <<e, m>>), m)
  <1>1. <<d, m>> \in Places /\ <<e, m>> \in Places /\ <<d, m>>[2] = m /\ <<e, m>>[2] = m
    BY PlaceOf
  <1>2. \A q \in Places : q[2] # m => Alias(t, q) \notin {Alias(t, <<d, m>>), Alias(t, <<e, m>>)}
    BY <1>1, AliasName
  <1> DEFINE u == Move(t, <<d, m>>, <<e, m>>)
  <1>3. /\ u \in Trees /\ u.merged = t.merged /\ u.lib64 = t.lib64
        /\ \A q \in Places : Alias(t, q) \notin {Alias(t, <<d, m>>), Alias(t, <<e, m>>)}
              => Node(u, q) = Node(t, q)
    BY MoveAt
  <1> HIDE DEF u
  <1>4. Only(t, u, m)
    BY <1>2, <1>3 DEF Only, SameFlags
  <1>5. QED BY <1>4 DEF u

\* What MoveDir does: nothing when the two directories are one, and otherwise, for
\* each name, what Move does.
Moved(t, u, d, e) ==
    /\ SameFlags(t, u)
    /\ \A n \in Names : Alias(t, <<d, n>>) # Alias(t, <<e, n>>) =>
          /\ Node(u, <<d, n>>) = None
          /\ Node(u, <<e, n>>) = IF Node(t, <<d, n>>) \in {None, LinkTo(<<e, n>>)}
                                 THEN Node(t, <<e, n>>) ELSE Node(t, <<d, n>>)
    /\ \A q \in Places :
          (\A n \in Names : Alias(t, q) \notin {Alias(t, <<d, n>>), Alias(t, <<e, n>>)})
             => Node(u, q) = Node(t, q)

LEMMA MoveDirIs ==
    ASSUME NEW t \in Trees, NEW d \in Dirs, NEW e \in Dirs
    PROVE  Moved(t, MoveDir(t, d, e), d, e)
  <1> DEFINE a == Move(t, <<d, "dev">>, <<e, "dev">>)
             b == Move(a, <<d, "soname">>, <<e, "soname">>)
             c == Move(b, <<d, "v1">>, <<e, "v1">>)
             w == Move(c, <<d, "v2">>, <<e, "v2">>)
             Does(x, y, n) ==
                /\ Alias(t, <<d, n>>) # Alias(t, <<e, n>>) =>
                      /\ Node(y, <<d, n>>) = None
                      /\ Node(y, <<e, n>>) = IF Node(x, <<d, n>>) \in {None, LinkTo(<<e, n>>)}
                                             THEN Node(x, <<e, n>>) ELSE Node(x, <<d, n>>)
                /\ \A q \in Places : Alias(t, q) \notin {Alias(t, <<d, n>>), Alias(t, <<e, n>>)}
                      => Node(y, q) = Node(x, q)
  <1>1. MoveDir(t, d, e) = w
    BY DEF MoveDir, ForNames
  <1>2. ASSUME NEW x \in Trees, SameFlags(t, x), NEW n \in Names
        PROVE  /\ Only(x, Move(x, <<d, n>>, <<e, n>>), n)
               /\ Does(x, Move(x, <<d, n>>, <<e, n>>), n)
               /\ SameFlags(t, Move(x, <<d, n>>, <<e, n>>))
    <2>1. Only(x, Move(x, <<d, n>>, <<e, n>>), n)
      BY MoveOnly
    <2>2. \A q : Alias(x, q) = Alias(t, q)
      BY <1>2, SameAlias
    <2>3. Does(x, Move(x, <<d, n>>, <<e, n>>), n)
      <3> DEFINE y == Move(x, <<d, n>>, <<e, n>>)
      <3>1. /\ Alias(x, <<d, n>>) # Alias(x, <<e, n>>) =>
                  /\ Node(y, <<d, n>>) = None
                  /\ Node(y, <<e, n>>) = IF Node(x, <<d, n>>) \in {None, LinkTo(<<e, n>>)}
                                         THEN Node(x, <<e, n>>) ELSE Node(x, <<d, n>>)
            /\ \A q \in Places : Alias(x, q) \notin {Alias(x, <<d, n>>), Alias(x, <<e, n>>)}
                  => Node(y, q) = Node(x, q)
        BY MoveAt
      <3> HIDE DEF y
      <3>2. Does(x, y, n)
        BY <2>2, <3>1
      <3>3. QED BY <3>2 DEF y
    <2>4. QED BY <1>2, <2>1, <2>3 DEF SameFlags, Only
  <1> HIDE DEF Does
  <1>3. SameFlags(t, t)
    BY DEF SameFlags
  <1>4. Only(t, a, "dev") /\ Does(t, a, "dev") /\ SameFlags(t, a) /\ a \in Trees
    BY <1>2, <1>3, NamesAre DEF SameFlags
  <1> HIDE DEF a
  <1>5. Only(a, b, "soname") /\ Does(a, b, "soname") /\ SameFlags(t, b) /\ b \in Trees
    BY <1>2, <1>4, NamesAre DEF SameFlags
  <1> HIDE DEF b
  <1>6. Only(b, c, "v1") /\ Does(b, c, "v1") /\ SameFlags(t, c) /\ c \in Trees
    BY <1>2, <1>5, NamesAre DEF SameFlags
  <1> HIDE DEF c
  <1>7. Only(c, w, "v2") /\ Does(c, w, "v2") /\ SameFlags(t, w)
    BY <1>2, <1>6, NamesAre
  <1> HIDE DEF w
  <1>8. \A n \in Names : /\ <<d, n>> \in Places /\ <<e, n>> \in Places
                         /\ <<d, n>>[2] = n /\ <<e, n>>[2] = n
    BY PlaceOf
  <1>9. ASSUME NEW n \in Names, Alias(t, <<d, n>>) # Alias(t, <<e, n>>)
        PROVE  /\ Node(w, <<d, n>>) = None
               /\ Node(w, <<e, n>>) = IF Node(t, <<d, n>>) \in {None, LinkTo(<<e, n>>)}
                                      THEN Node(t, <<e, n>>) ELSE Node(t, <<d, n>>)
    <2>1. CASE n = "dev"
      BY <1>4, <1>5, <1>6, <1>7, <1>8, <1>9, <2>1 DEF Only, Does
    <2>2. CASE n = "soname"
      BY <1>4, <1>5, <1>6, <1>7, <1>8, <1>9, <2>2 DEF Only, Does
    <2>3. CASE n = "v1"
      BY <1>4, <1>5, <1>6, <1>7, <1>8, <1>9, <2>3 DEF Only, Does
    <2>4. CASE n = "v2"
      BY <1>4, <1>5, <1>6, <1>7, <1>8, <1>9, <2>4 DEF Only, Does
    <2>5. QED BY <2>1, <2>2, <2>3, <2>4, NamesAre
  <1>10. ASSUME NEW q \in Places,
                \A n \in Names : Alias(t, q) \notin {Alias(t, <<d, n>>), Alias(t, <<e, n>>)}
         PROVE  Node(w, q) = Node(t, q)
    BY <1>4, <1>5, <1>6, <1>7, <1>10, NamesAre DEF Does
  <1>11. QED BY <1>1, <1>7, <1>9, <1>10 DEF Moved

\* A directory with nothing in it is not moved.
LEMMA MoveDirNothing ==
    ASSUME NEW t \in Trees, NEW d \in Dirs, NEW e \in Dirs,
           \A n \in Names : \/ Node(t, <<d, n>>) = None
                            \/ Alias(t, <<d, n>>) = Alias(t, <<e, n>>)
    PROVE  MoveDir(t, d, e) = t
  <1>1. \A n \in Names : Move(t, <<d, n>>, <<e, n>>) = t
    BY DEF Move
  <1>2. QED BY <1>1, NamesAre DEF MoveDir, ForNames

-----------------------------------------------------------------------------
(* Unshadow, MoveUp and LinkLib64.                                         *)

\* Of an unmerged tree, lib loses the names that the canonical directory has.
Unshadowed(t, u) ==
    /\ SameFlags(t, u)
    /\ t.merged => u = t
    /\ ~t.merged => \A n \in Names :
          Node(u, <<"lib", n>>) = IF Node(t, <<"canon", n>>) # None THEN None
                                  ELSE Node(t, <<"lib", n>>)
    /\ \A q \in Places : Alias(t, q)[1] # "lib" => Node(u, q) = Node(t, q)

LEMMA UnshadowIs ==
    ASSUME NEW t \in Trees
    PROVE  Unshadowed(t, Unshadow(t))
  <1> DEFINE Step(x, n) == IF Node(x, <<"canon", n>>) # None THEN Put(x, <<"lib", n>>, None) ELSE x
             a == Step(t, "dev")
             b == Step(a, "soname")
             c == Step(b, "v1")
             w == Step(c, "v2")
             Does(x, y, n) ==
                /\ SameFlags(t, y)
                /\ Node(y, <<"lib", n>>) = IF Node(x, <<"canon", n>>) # None THEN None
                                           ELSE Node(x, <<"lib", n>>)
                /\ \A q \in Places : Alias(t, q) # <<"lib", n>> => Node(y, q) = Node(x, q)
  <1>1. CASE t.merged
    <2>1. Unshadow(t) = t
      BY <1>1 DEF Unshadow
    <2>2. QED BY <1>1, <2>1 DEF Unshadowed, SameFlags
  <1>2. CASE ~t.merged
    <2>1. Unshadow(t) = w
      BY <1>2 DEF Unshadow, ForNames
    <2>2. ASSUME NEW x \in Trees, SameFlags(t, x), NEW n \in Names
          PROVE  Does(x, Step(x, n), n)
      <3> DEFINE p == <<"lib", n>>
      <3>1. p \in Places
        BY PlaceOf DEF Dirs
      <3>2. Alias(t, p) = p /\ \A q : Alias(x, q) = Alias(t, q)
        <4>1. Alias(t, p) = p
          BY <1>2, AliasOf
        <4>2. \A q : Alias(x, q) = Alias(t, q)
          BY <2>2, SameAlias
        <4>3. QED BY <4>1, <4>2
      <3> HIDE DEF p
      <3> DEFINE y == Put(x, p, None)
      <3>3. /\ y \in Trees /\ y.merged = x.merged /\ y.lib64 = x.lib64
            /\ \A q \in Places : Node(y, q) = IF Alias(x, q) = Alias(x, p) THEN None
                                              ELSE Node(x, q)
        <4>1. None \in Nodes
          BY NodesAre
        <4>2. QED BY <3>1, <4>1, PutIs
      <3> HIDE DEF y
      <3>4. SameFlags(t, y)
        BY <2>2, <3>3 DEF SameFlags
      <3>5. Step(x, n) = IF Node(x, <<"canon", n>>) # None THEN y ELSE x
        BY DEF y, p
      <3> HIDE DEF Step
      <3>6. QED BY <2>2, <3>1, <3>2, <3>3, <3>4, <3>5 DEF p
    <2> HIDE DEF Does, Step
    <2>3. SameFlags(t, t)
      BY DEF SameFlags
    <2>4. Does(t, a, "dev") /\ SameFlags(t, a) /\ a \in Trees
      BY <2>2, <2>3, NamesAre DEF SameFlags, Does
    <2> HIDE DEF a
    <2>5. Does(a, b, "soname") /\ SameFlags(t, b) /\ b \in Trees
      BY <2>2, <2>4, NamesAre DEF SameFlags, Does
    <2> HIDE DEF b
    <2>6. Does(b, c, "v1") /\ SameFlags(t, c) /\ c \in Trees
      BY <2>2, <2>5, NamesAre DEF SameFlags, Does
    <2> HIDE DEF c
    <2>7. Does(c, w, "v2") /\ SameFlags(t, w)
      BY <2>2, <2>6, NamesAre DEF Does
    <2> HIDE DEF w
    <2>8. \A n \in Names :
             /\ <<"lib", n>> \in Places /\ Alias(t, <<"lib", n>>) = <<"lib", n>>
             /\ <<"canon", n>> \in Places /\ Alias(t, <<"canon", n>>) = <<"canon", n>>
      BY <1>2, AliasOf, PlaceOf DEF Dirs
    <2>9. \A q \in Places : Alias(t, q)[1] # "lib" => Node(w, q) = Node(t, q)
      BY <2>4, <2>5, <2>6, <2>7 DEF Does
    <2>10. ASSUME NEW n \in Names
           PROVE  Node(w, <<"lib", n>>) = IF Node(t, <<"canon", n>>) # None THEN None
                                          ELSE Node(t, <<"lib", n>>)
      BY <2>4, <2>5, <2>6, <2>7, <2>8, NamesAre DEF Does
    <2>11. QED BY <1>2, <2>1, <2>7, <2>9, <2>10 DEF Unshadowed
  <1>3. QED BY <1>1, <1>2

LEMMA UnshadowKept ==
    ASSUME NEW t \in Trees
    PROVE  Kept(t, Unshadow(t))
  <1>1. ASSUME NEW n \in Names
        PROVE  <<"canon", n>> \in Places /\ Alias(t, <<"canon", n>>)[1] # "lib"
    <2>1. Alias(t, <<"canon", n>>) = <<"canon", n>>
      BY AliasOf
    <2>2. QED BY <2>1, PlaceOf DEF Dirs
  <1>2. QED BY <1>1, UnshadowIs DEF Unshadowed, SameFlags, Kept

LEMMA NewestIs ==
    ASSUME NEW ms \in SUBSET Names, ms # {}
    PROVE  Newest(ms) \in ms
  <1> DEFINE Last(m) == \A o \in ms : \E i, j \in DOMAIN NamesInOrder :
                           NamesInOrder[i] = m /\ NamesInOrder[j] = o /\ j <= i
  <1>1. /\ DOMAIN NamesInOrder = {1, 2, 3, 4}
        /\ NamesInOrder[1] = "dev" /\ NamesInOrder[2] = "soname"
        /\ NamesInOrder[3] = "v1" /\ NamesInOrder[4] = "v2"
    BY DEF NamesInOrder
  <1>2. "v2" \in ms => Last("v2")
    BY <1>1, NamesAre
  <1>3. "v2" \notin ms /\ "v1" \in ms => Last("v1")
    BY <1>1, NamesAre
  <1>4. ms \subseteq {"dev", "soname"} /\ "soname" \in ms => Last("soname")
    BY <1>1, NamesAre
  <1>5. ms = {"dev"} => Last("dev")
    BY <1>1
  <1>6. \E m \in ms : Last(m)
    <2> HIDE DEF Last
    <2>1. CASE "v2" \in ms
      BY <2>1, <1>2
    <2>2. CASE "v2" \notin ms /\ "v1" \in ms
      BY <2>2, <1>3
    <2>3. CASE ms \subseteq {"dev", "soname"} /\ "soname" \in ms
      BY <2>3, <1>4
    <2>4. CASE ms = {"dev"}
      BY <2>4, <1>5
    <2>5. \/ "v2" \in ms
          \/ "v2" \notin ms /\ "v1" \in ms
          \/ ms \subseteq {"dev", "soname"} /\ "soname" \in ms
          \/ ms = {"dev"}
      BY NamesAre
    <2>6. QED BY <2>1, <2>2, <2>3, <2>4, <2>5
  <1>7. QED BY <1>6 DEF Newest

\* An entry of usr/lib is left as nothing or as a link to its name in the canonical
\* directory, which is overwritten in no case and gets no file for a link.
Lifted(t, u, n) ==
    /\ SameFlags(t, u)
    /\ Node(t, <<"top", n>>) = None => u = t
    /\ Node(u, <<"top", n>>) \in {None, LinkTo(<<"canon", n>>)}
    /\ Node(t, <<"canon", n>>) # None => Node(u, <<"canon", n>>) = Node(t, <<"canon", n>>)
    /\ Node(t, <<"canon", n>>) = None /\ Node(t, <<"top", n>>).is = "link" =>
          Node(u, <<"canon", n>>).is # "file"
    /\ \A q \in Places : Alias(t, q) \notin {<<"top", n>>, <<"canon", n>>}
          => Node(u, q) = Node(t, q)

LEMMA MoveUpIs ==
    ASSUME NEW t \in Trees, NEW n \in Names
    PROVE  Lifted(t, MoveUp(t, n), n)
  <1> DEFINE top   == <<"top", n>>
             canon == <<"canon", n>>
             here  == Node(t, top)
             gone  == Put(t, top, None)
             kin   == IF here.is = "link" /\ Node(t, <<"canon", here.to[2]>>) # None
                      THEN {here.to[2]} ELSE Family(t, n)
             u     == MoveUp(t, n)
  <1>1. /\ top \in Places /\ canon \in Places /\ top # canon
        /\ Alias(t, top) = top /\ Alias(t, canon) = canon
    BY PlaceOf, AliasOf DEF Dirs
  <1>2. here \in Nodes /\ Node(t, canon) \in Nodes
    BY <1>1, NodeIs
  <1>3. None \in Nodes /\ None.is = "none"
    BY NodesAre
  <1>4. /\ LinkTo(canon) \in Nodes /\ LinkTo(canon) # None
        /\ here.is = "link" => here # None
    BY <1>1, <1>3, NodesAre
  <1>5. kin # {} => <<"canon", Newest(kin)>> \in Places
    <2>1. kin \in SUBSET Names
      <3>1. here.is = "link" => here.to \in Places
        BY <1>2, NodesAre
      <3>2. here.is = "link" => here.to[2] \in Names
        BY <3>1 DEF Places
      <3>3. QED BY <3>2 DEF Family
    <2> HIDE DEF kin
    <2>2. QED BY <2>1, NewestIs, PlaceOf DEF Dirs
  <1> HIDE DEF kin
  <1>6. /\ gone \in Trees /\ SameFlags(t, gone)
        /\ \A q \in Places : Alias(gone, q) = Alias(t, q)
        /\ \A q \in Places : Node(gone, q) = IF Alias(t, q) = top THEN None ELSE Node(t, q)
    BY <1>1, <1>3, PutIs DEF SameFlags
  <1>7. u = IF here = None THEN t
            ELSE IF Node(t, canon) # None THEN gone
            ELSE IF here.is = "link"
                 THEN IF kin = {} THEN gone ELSE Put(gone, canon, LinkTo(<<"canon", Newest(kin)>>))
            ELSE IF n \in Exact /\ kin # {} THEN gone
            ELSE Put(Put(t, canon, here), top, LinkTo(canon))
    BY DEF MoveUp, kin
  <1> HIDE DEF gone
  <1>8. CASE here = None
    <2>1. u = t
      BY <1>7, <1>8
    <2>2. QED BY <2>1, <1>3, <1>8 DEF Lifted, SameFlags
  <1>9. CASE u = gone /\ here # None
    BY <1>1, <1>3, <1>6, <1>9 DEF Lifted, SameFlags
  <1>10. CASE /\ here.is = "link" /\ Node(t, canon) = None /\ kin # {}
              /\ u = Put(gone, canon, LinkTo(<<"canon", Newest(kin)>>))
    <2> DEFINE node == LinkTo(<<"canon", Newest(kin)>>)
    <2>1. node \in Nodes /\ node.is = "link"
      BY <1>5, <1>10, NodesAre
    <2> HIDE DEF node
    <2>2. /\ Put(gone, canon, node) \in Trees /\ SameFlags(t, Put(gone, canon, node))
          /\ \A q \in Places : Node(Put(gone, canon, node), q)
                                 = IF Alias(t, q) = canon THEN node ELSE Node(gone, q)
      BY <1>1, <1>6, <2>1, PutIs DEF SameFlags
    <2>3. u = Put(gone, canon, node)
      BY <1>10 DEF node
    <2>4. QED BY <1>1, <1>4, <1>6, <1>10, <2>1, <2>2, <2>3 DEF Lifted
  <1>11. CASE /\ here # None /\ here.is # "link" /\ Node(t, canon) = None
              /\ u = Put(Put(t, canon, here), top, LinkTo(canon))
    <2> DEFINE x == Put(t, canon, here)
               w == Put(x, top, LinkTo(canon))
    <2>1. /\ x \in Trees /\ SameFlags(t, x)
          /\ \A q \in Places : Alias(x, q) = Alias(t, q)
          /\ \A q \in Places : Node(x, q) = IF Alias(t, q) = canon THEN here ELSE Node(t, q)
      <3> HIDE DEF here, top, canon
      <3>1. x \in Trees /\ x.merged = t.merged /\ x.lib64 = t.lib64
        BY <1>1, <1>2, PutIs
      <3>2. \A q \in Places : Alias(x, q) = Alias(t, q)
        BY <1>1, <1>2, PutIs
      <3>3. \A q \in Places : Node(x, q) = IF Alias(t, q) = canon THEN here ELSE Node(t, q)
        BY <1>1, <1>2, PutIs
      <3>4. QED BY <3>1, <3>2, <3>3 DEF SameFlags
    <2> HIDE DEF x
    <2>2. /\ w \in Trees /\ SameFlags(t, w)
          /\ \A q \in Places : Node(w, q) = IF Alias(t, q) = top THEN LinkTo(canon)
                                            ELSE Node(x, q)
      BY <1>1, <1>4, <2>1, PutIs DEF SameFlags
    <2>3. u = w
      BY <1>11 DEF x
    <2> HIDE DEF w
    <2>4. QED BY <1>1, <1>11, <2>1, <2>2, <2>3 DEF Lifted
  <1>12. QED BY <1>7, <1>8, <1>9, <1>10, <1>11

LEMMA LiftedKept ==
    ASSUME NEW t, NEW u, NEW n \in Names, Lifted(t, u, n)
    PROVE  Kept(t, u)
  <1>1. t \in Trees
    BY DEF Lifted, SameFlags
  <1>2. ASSUME NEW m \in Names, Node(t, <<"canon", m>>) # None
        PROVE  Node(u, <<"canon", m>>) # None
    <2>1. Alias(t, <<"canon", m>>) = <<"canon", m>> /\ <<"canon", m>> \in Places
      BY <1>1, AliasOf, PlaceOf DEF Dirs
    <2>2. QED BY <1>2, <2>1 DEF Lifted
  <1>3. QED BY <1>2 DEF Lifted, SameFlags, Kept

\* lib64 becomes a link to usr/lib64, and what it held goes.
LEMMA LinkLib64Is ==
    ASSUME NEW t \in Trees
    PROVE  LET u == LinkLib64(t)
           IN  /\ u \in Trees /\ u.merged = t.merged /\ u.lib64
               /\ \A p \in Places : p[1] # "lib64" =>
                     u.at[p] = t.at[p] /\ Alias(u, p) = Alias(t, p) /\ Node(u, p) = Node(t, p)
               /\ \A p \in Places : p[1] = "lib64" => u.at[p] = None
  <1> DEFINE u == LinkLib64(t)
  <1>1. /\ u.merged = t.merged /\ u.lib64 = TRUE
        /\ u.at = [p \in Places |-> IF p[1] = "lib64" THEN None ELSE t.at[p]]
    BY DEF LinkLib64, Trees
  <1>2. u \in Trees
    BY NodesAre DEF LinkLib64, Trees
  <1>3. \A p \in Places : p[1] # "lib64" => Alias(u, p) = Alias(t, p)
    BY <1>1 DEF Alias
  <1>4. \A p \in Places : p[1] # "lib64" => Alias(t, p)[1] # "lib64" /\ Alias(t, p) \in Places
    BY AliasIs DEF Alias, Places
  <1> HIDE DEF u
  <1>5. \A p \in Places : p[1] # "lib64" => Node(u, p) = Node(t, p)
    BY <1>1, <1>3, <1>4 DEF Node
  <1>6. QED BY <1>1, <1>2, <1>3, <1>5 DEF u

-----------------------------------------------------------------------------
(* Normalise.                                                              *)

LEMMA MigrateKept ==
    ASSUME NEW t \in Trees
    PROVE  Kept(t, Migrate(t)) /\ \A n \in Names : Node(Migrate(t), <<"usrlib64", n>>) = None
  <1> DEFINE a == IF t.lib64 THEN t ELSE MoveDir(t, "lib64", "lib")
             u == MoveDir(a, "usrlib64", "canon")
  <1>1. Migrate(t) = u
    BY DEF Migrate
  <1>2. Kept(t, a) /\ a \in Trees
    <2>1. Kept(t, MoveDir(t, "lib64", "lib"))
      BY MoveDirKept DEF Dirs
    <2>2. Kept(t, a)
      BY <2>1, KeptSelf
    <2>3. QED BY <2>2 DEF Kept
  <1> HIDE DEF a
  <1>3. Kept(a, u) /\ u \in Trees
    BY <1>2, MoveDirKept DEF Kept, Dirs
  <1>4. Moved(a, u, "usrlib64", "canon")
    BY <1>2, MoveDirIs DEF Dirs
  <1> HIDE DEF u
  <1>5. ASSUME NEW n \in Names
        PROVE  Node(u, <<"usrlib64", n>>) = None
    <2>1. Alias(a, <<"usrlib64", n>>) # Alias(a, <<"canon", n>>)
      <3>1. /\ Alias(a, <<"usrlib64", n>>) = <<"usrlib64", n>>
            /\ Alias(a, <<"canon", n>>) = <<"canon", n>>
        BY <1>2, AliasOf
      <3>2. QED BY <3>1
    <2>2. QED BY <1>4, <2>1 DEF Moved
  <1>6. QED BY <1>1, <1>2, <1>3, <1>5, KeptTwice

LEMMA DeduplicateKept ==
    ASSUME NEW t \in Trees
    PROVE  /\ Kept(t, Deduplicate(t))
           /\ \A n \in Names : Node(Deduplicate(t), <<"dup", n>>) = None
           /\ \A n \in Names : Node(Deduplicate(t), <<"usrlib64", n>>) = Node(t, <<"usrlib64", n>>)
  <1> DEFINE u == MoveDir(t, "dup", "canon")
  <1>1. Deduplicate(t) = u
    BY DEF Deduplicate
  <1>2. Kept(t, u)
    BY MoveDirKept DEF Dirs
  <1>3. Moved(t, u, "dup", "canon")
    BY MoveDirIs DEF Dirs
  <1> HIDE DEF u
  <1>4. ASSUME NEW n \in Names
        PROVE  Node(u, <<"dup", n>>) = None /\ Node(u, <<"usrlib64", n>>) = Node(t, <<"usrlib64", n>>)
    <2>1. \A m \in Names : /\ Alias(t, <<"dup", m>>) = <<"dup", m>>
                           /\ Alias(t, <<"canon", m>>) = <<"canon", m>>
                           /\ Alias(t, <<"usrlib64", m>>) = <<"usrlib64", m>>
      BY AliasOf
    <2>2. <<"usrlib64", n>> \in Places
      BY PlaceOf DEF Dirs
    <2>3. Node(u, <<"dup", n>>) = None
      <3>1. Alias(t, <<"dup", n>>) # Alias(t, <<"canon", n>>)
        <4>1. Alias(t, <<"dup", n>>) = <<"dup", n>> /\ Alias(t, <<"canon", n>>) = <<"canon", n>>
          BY <2>1
        <4>2. QED BY <4>1
      <3>2. QED BY <1>3, <3>1 DEF Moved
    <2>4. Node(u, <<"usrlib64", n>>) = Node(t, <<"usrlib64", n>>)
      <3>1. \A m \in Names : Alias(t, <<"usrlib64", n>>) \notin
                               {Alias(t, <<"dup", m>>), Alias(t, <<"canon", m>>)}
        <4>1. TAKE m \in Names
        <4>2. /\ Alias(t, <<"dup", m>>) = <<"dup", m>> /\ Alias(t, <<"canon", m>>) = <<"canon", m>>
              /\ Alias(t, <<"usrlib64", n>>) = <<"usrlib64", n>>
          BY <2>1
        <4>3. QED BY <4>2
      <3>2. QED BY <1>3, <2>2, <3>1 DEF Moved
    <2>5. QED BY <2>3, <2>4
  <1>5. QED BY <1>1, <1>2, <1>4

\* The names in turn.
LEMMA MoveUpsAre ==
    ASSUME NEW t \in Trees
    PROVE  \E a, b, c : /\ Lifted(t, a, "dev") /\ Lifted(a, b, "soname") /\ Lifted(b, c, "v1")
                        /\ Lifted(c, ForNames(MoveUp, t), "v2")
  <1> DEFINE a == MoveUp(t, "dev")
             b == MoveUp(a, "soname")
             c == MoveUp(b, "v1")
             w == MoveUp(c, "v2")
  <1>1. ForNames(MoveUp, t) = w
    BY DEF ForNames
  <1>2. Lifted(t, a, "dev") /\ a \in Trees
    BY MoveUpIs, NamesAre DEF Lifted, SameFlags
  <1> HIDE DEF a
  <1>3. Lifted(a, b, "soname") /\ b \in Trees
    BY <1>2, MoveUpIs, NamesAre DEF Lifted, SameFlags
  <1> HIDE DEF b
  <1>4. Lifted(b, c, "v1") /\ c \in Trees
    BY <1>3, MoveUpIs, NamesAre DEF Lifted, SameFlags
  <1> HIDE DEF c
  <1>5. Lifted(c, w, "v2")
    BY <1>4, MoveUpIs, NamesAre
  <1> HIDE DEF w
  <1>6. QED BY <1>1, <1>2, <1>3, <1>4, <1>5

LEMMA MoveUpsKept ==
    ASSUME NEW t \in Trees
    PROVE  LET u == ForNames(MoveUp, t)
           IN  /\ Kept(t, u) /\ SameFlags(t, u)
               /\ \A n \in Names : Node(u, <<"top", n>>) \in {None, LinkTo(<<"canon", n>>)}
               /\ \A n \in Names, d \in {"usrlib64", "dup"} : Node(u, <<d, n>>) = Node(t, <<d, n>>)
  <1> DEFINE w == ForNames(MoveUp, t)
  <1>1. PICK a, b, c : /\ Lifted(t, a, "dev") /\ Lifted(a, b, "soname") /\ Lifted(b, c, "v1")
                       /\ Lifted(c, w, "v2")
    BY MoveUpsAre
  <1> HIDE DEF w
  <1>2. Kept(t, w)
    BY <1>1, LiftedKept, KeptTwice, NamesAre
  <1>3. SameFlags(t, a) /\ SameFlags(t, b) /\ SameFlags(t, c) /\ SameFlags(t, w)
    BY <1>1 DEF Lifted, SameFlags
  <1>4. \A q : Alias(a, q) = Alias(t, q) /\ Alias(b, q) = Alias(t, q) /\ Alias(c, q) = Alias(t, q)
    BY <1>3, SameAlias
  <1>5. \A n \in Names : <<"top", n>> \in Places /\ Alias(t, <<"top", n>>) = <<"top", n>>
    BY AliasOf, PlaceOf DEF Dirs
  <1>6. ASSUME NEW n \in Names
        PROVE  Node(w, <<"top", n>>) \in {None, LinkTo(<<"canon", n>>)}
    <2>1. \A m \in Names : m # n => <<"top", n>> \notin {<<"top", m>>, <<"canon", m>>}
      OBVIOUS
    <2>2. CASE n = "dev"
      BY <1>1, <1>4, <1>5, <2>1, <2>2, NamesAre DEF Lifted
    <2>3. CASE n = "soname"
      BY <1>1, <1>4, <1>5, <2>1, <2>3, NamesAre DEF Lifted
    <2>4. CASE n = "v1"
      BY <1>1, <1>4, <1>5, <2>1, <2>4, NamesAre DEF Lifted
    <2>5. CASE n = "v2"
      BY <1>1, <2>5 DEF Lifted
    <2>6. QED BY <2>2, <2>3, <2>4, <2>5, NamesAre
  <1>7. ASSUME NEW n \in Names, NEW d \in {"usrlib64", "dup"}
        PROVE  Node(w, <<d, n>>) = Node(t, <<d, n>>)
    <2>1. <<d, n>> \in Places /\ Alias(t, <<d, n>>) = <<d, n>>
      BY AliasOf, PlaceOf DEF Dirs
    <2>2. \A m \in Names : <<d, n>> \notin {<<"top", m>>, <<"canon", m>>}
      OBVIOUS
    <2>3. QED BY <1>1, <1>4, <2>1, <2>2, NamesAre DEF Lifted
  <1>8. QED BY <1>2, <1>3, <1>6, <1>7 DEF w

\* A tree after Normalise, and after all that finalize_rootfs does to it later.
Normal(t) ==
    /\ t \in Trees /\ t.lib64
    /\ \A n \in Names : /\ Node(t, <<"usrlib64", n>>) = None /\ Node(t, <<"dup", n>>) = None
                        /\ Node(t, <<"top", n>>) \in {None, LinkTo(<<"canon", n>>)}

LEMMA NormaliseKept ==
    ASSUME NEW t \in Trees
    PROVE  Kept(t, Normalise(t)) /\ Normal(Normalise(t))
  <1> DEFINE a == Migrate(t)
             b == Deduplicate(a)
             c == Unshadow(b)
             w == ForNames(MoveUp, c)
             u == LinkLib64(w)
  <1>1. Normalise(t) = u
    BY DEF Normalise
  <1>2. Kept(t, a) /\ a \in Trees /\ \A n \in Names : Node(a, <<"usrlib64", n>>) = None
    BY MigrateKept DEF Kept
  <1> HIDE DEF a
  <1>3. Kept(a, b) /\ b \in Trees
        /\ \A n \in Names : Node(b, <<"usrlib64", n>>) = None /\ Node(b, <<"dup", n>>) = None
    BY <1>2, DeduplicateKept DEF Kept
  <1> HIDE DEF b
  <1>4. Kept(b, c) /\ Unshadowed(b, c) /\ c \in Trees
    BY <1>3, UnshadowKept, UnshadowIs DEF Kept
  <1> HIDE DEF c
  <1>5. \A n \in Names : Node(c, <<"usrlib64", n>>) = None /\ Node(c, <<"dup", n>>) = None
    <2>1. ASSUME NEW n \in Names, NEW d \in {"usrlib64", "dup"}
          PROVE  <<d, n>> \in Places /\ Alias(b, <<d, n>>)[1] # "lib"
      <3>1. Alias(b, <<d, n>>) = <<d, n>>
        BY <1>3, AliasOf
      <3>2. QED BY <3>1, PlaceOf DEF Dirs
    <2>2. QED BY <1>3, <1>4, <2>1 DEF Unshadowed
  <1>6. Kept(c, w) /\ w \in Trees
    BY <1>4, MoveUpsKept DEF Kept
  <1>7. \A n \in Names :
           /\ Node(w, <<"usrlib64", n>>) = None /\ Node(w, <<"dup", n>>) = None
           /\ Node(w, <<"top", n>>) \in {None, LinkTo(<<"canon", n>>)}
    BY <1>4, <1>5, MoveUpsKept
  <1> HIDE DEF w
  <1>8. /\ u \in Trees /\ u.merged = w.merged /\ u.lib64
        /\ \A p \in Places : p[1] # "lib64" => Node(u, p) = Node(w, p)
    BY <1>6, LinkLib64Is
  <1> HIDE DEF u
  <1>9. ASSUME NEW n \in Names, NEW d \in {"usrlib64", "dup", "top", "canon"}
        PROVE  Node(u, <<d, n>>) = Node(w, <<d, n>>)
    BY <1>8, PlaceOf DEF Dirs
  <1>10. Kept(w, u)
    BY <1>6, <1>8, <1>9 DEF Kept
  <1>11. Kept(t, u)
    BY <1>2, <1>3, <1>4, <1>6, <1>10, KeptTwice
  <1>12. Normal(u)
    BY <1>7, <1>8, <1>9 DEF Normal
  <1>13. QED BY <1>1, <1>11, <1>12

-----------------------------------------------------------------------------
(* The other operators, as far as types go.                                *)

LEMMA UsrMergeIs ==
    ASSUME NEW t \in Trees
    PROVE  \E w : /\ w = MoveDir(t, "lib", "canon") /\ Moved(t, w, "lib", "canon")
                  /\ UsrMerge(t) = [w EXCEPT !.merged = TRUE]
                  /\ UsrMerge(t) \in Trees /\ UsrMerge(t).merged /\ UsrMerge(t).lib64 = t.lib64
                  /\ UsrMerge(t).at = w.at
  <1> DEFINE w == MoveDir(t, "lib", "canon")
             u == [w EXCEPT !.merged = TRUE]
  <1>1. UsrMerge(t) = u
    BY DEF UsrMerge
  <1>2. Moved(t, w, "lib", "canon")
    BY MoveDirIs DEF Dirs
  <1> HIDE DEF w
  <1>3. u \in Trees /\ u.merged /\ u.lib64 = t.lib64 /\ u.at = w.at
    BY <1>2 DEF Moved, SameFlags, Trees
  <1>4. MoveDir(t, "lib", "canon") = w
    BY DEF w
  <1>5. QED BY <1>1, <1>2, <1>3, <1>4

LEMMA BareIs ==
    ASSUME NEW m \in BOOLEAN
    PROVE  /\ Bare(m) \in Trees /\ Bare(m).merged = m /\ ~Bare(m).lib64
           /\ \A p \in Places : Bare(m).at[p] = None
  BY NodesAre DEF Bare, Trees

LEMMA UnpackedIs ==
    ASSUME NEW t \in Trees, NEW files
    PROVE  LET u == Unpacked(t, files)
           IN  /\ SameFlags(t, u)
               /\ \A p \in Places : u.at[p] = IF p \notin files THEN t.at[p]
                     ELSE IF p[2] = "v1" THEN File("deb")
                     ELSE IF p[2] = "soname" THEN LinkTo(<<p[1], "v1">>)
                     ELSE LinkTo(<<p[1], "soname">>)
  <1> DEFINE at == [p \in Places |->
                        IF p \notin files THEN t.at[p]
                        ELSE IF p[2] = "v1" THEN File("deb")
                        ELSE IF p[2] = "soname" THEN LinkTo(<<p[1], "v1">>)
                        ELSE LinkTo(<<p[1], "soname">>)]
  <1>1. ASSUME NEW p \in Places
        PROVE  (CASE p[2] = "v1" -> File("deb")
                  [] p[2] = "soname" -> LinkTo(<<p[1], "v1">>)
                  [] OTHER -> LinkTo(<<p[1], "soname">>))
               = IF p[2] = "v1" THEN File("deb")
                 ELSE IF p[2] = "soname" THEN LinkTo(<<p[1], "v1">>)
                 ELSE LinkTo(<<p[1], "soname">>)
    OBVIOUS
  <1>2. Unpacked(t, files) = [t EXCEPT !.at = at]
    BY <1>1 DEF Unpacked
  <1>3. ASSUME NEW p \in Places
        PROVE  at[p] \in Nodes
    <2>1. <<p[1], "v1">> \in Places /\ <<p[1], "soname">> \in Places
      BY NamesAre DEF Places
    <2>2. QED BY <2>1, NodesAre DEF Trees
  <1>4. at \in [Places -> Nodes]
    BY <1>3
  <1>5. /\ [t EXCEPT !.at = at] \in Trees
        /\ [t EXCEPT !.at = at].merged = t.merged
        /\ [t EXCEPT !.at = at].lib64 = t.lib64
        /\ [t EXCEPT !.at = at].at = at
    <2> HIDE DEF at
    <2>1. QED BY <1>4 DEF Trees
  <1>6. QED BY <1>2, <1>5 DEF SameFlags

\* What is brought from the sysroot leads into the sysroot until it is repaired.
AtHome(node) == IF node.is = "link" THEN [node EXCEPT !.tree = "here"] ELSE node

LEMMA AtHomeIs ==
    ASSUME NEW x \in Nodes
    PROVE  /\ AtHome(x) \in Nodes /\ AtHome(x).is = x.is
           /\ x.is = "link" => AtHome(x).to = x.to /\ AtHome(x).tree = "here"
           /\ Carried(x) \in Nodes /\ AtHome(Carried(x)) = AtHome(x)
           /\ AtHome(x) = None <=> x = None
  BY DEF AtHome, Carried, Nodes, None, File, Wide

LEMMA AssembledIs ==
    ASSUME NEW t \in Trees, NEW sys \in Trees
    PROVE  LET u == Repair(Overlay(t, sys))
           IN  /\ u \in Trees /\ u.merged = sys.merged /\ u.lib64 = sys.lib64
               /\ \A p \in Places :
                     u.at[p] = IF sys.at[p] = None THEN AtHome(t.at[p]) ELSE AtHome(sys.at[p])
  <1> DEFINE over == [p \in Places |-> IF sys.at[p] = None THEN t.at[p] ELSE Carried(sys.at[p])]
             o == Overlay(t, sys)
             at == [p \in Places |-> AtHome(over[p])]
  <1>1. o = [at |-> over, merged |-> sys.merged, lib64 |-> sys.lib64]
    BY DEF Overlay
  <1>2. ASSUME NEW p \in Places
        PROVE  /\ over[p] \in Nodes
               /\ at[p] = IF sys.at[p] = None THEN AtHome(t.at[p]) ELSE AtHome(sys.at[p])
               /\ at[p] \in Nodes
    BY AtHomeIs DEF Trees
  <1>3. Repair(o) = [o EXCEPT !.at = [p \in Places |-> AtHome(o.at[p])]]
    BY DEF Repair, AtHome
  <1>4. at \in [Places -> Nodes]
    BY <1>2
  <1>5. Repair(o) = [at |-> at, merged |-> sys.merged, lib64 |-> sys.lib64]
    BY <1>1, <1>3
  <1> HIDE DEF at, o
  <1>6. /\ Repair(o) \in Trees /\ Repair(o).merged = sys.merged /\ Repair(o).lib64 = sys.lib64
        /\ Repair(o).at = at
    BY <1>4, <1>5 DEF Trees
  <1>7. QED BY <1>2, <1>6 DEF at, o

LEMMA DropIs ==
    ASSUME NEW t \in Trees
    PROVE  /\ SameFlags(t, Drop(t))
           /\ \A p \in Places : Drop(t).at[p] = IF p[1] \in {"lib", "canon"} THEN None ELSE t.at[p]
  BY NodesAre DEF Drop, Trees, SameFlags

LEMMA TurnedIs ==
    ASSUME NEW t \in Trees, NEW n \in Names, NEW always \in BOOLEAN
    PROVE  LET p == <<"canon", n>>
               u == Turned(t, p, "v1", always)
           IN  /\ SameFlags(t, u)
               /\ Node(u, p) = IF \/ Node(t, p).is \in {"link", "wide"}
                                  \/ always /\ ~Exists(t, p)
                               THEN LinkTo(<<"canon", "v1">>) ELSE Node(t, p)
               /\ \A q \in Places : Alias(t, q) # p => Node(u, q) = Node(t, q)
  <1> DEFINE p == <<"canon", n>>
             node == LinkTo(<<"canon", "v1">>)
             w == Put(t, p, node)
  <1>1. p \in Places /\ Alias(t, p) = p
    BY AliasOf, PlaceOf DEF Dirs
  <1>2. node \in Nodes
    <2>1. <<"canon", "v1">> \in Places
      BY PlaceOf, NamesAre DEF Dirs
    <2>2. QED BY <2>1, NodesAre
  <1>3. Turned(t, p, "v1", always) = IF \/ Node(t, p).is \in {"link", "wide"}
                                        \/ always /\ ~Exists(t, p)
                                     THEN w ELSE t
    BY DEF Turned
  <1> HIDE DEF p, node
  <1>4. /\ w \in Trees /\ SameFlags(t, w) /\ SameFlags(t, t)
        /\ \A q \in Places : Node(w, q) = IF Alias(t, q) = p THEN node ELSE Node(t, q)
    BY <1>1, <1>2, PutIs DEF SameFlags
  <1> HIDE DEF w
  <1>5. QED BY <1>1, <1>3, <1>4 DEF p, node

\* Only the canonical directory is touched.
CanonOnly(t, u) ==
    SameFlags(t, u) /\ \A q \in Places : Alias(t, q)[1] # "canon" => Node(u, q) = Node(t, q)

LEMMA CanonOnlySelf ==
    ASSUME NEW t \in Trees
    PROVE  CanonOnly(t, t)
  BY DEF CanonOnly, SameFlags

LEMMA CanonOnlyTwice ==
    ASSUME NEW t, NEW u, NEW w, CanonOnly(t, u), CanonOnly(u, w)
    PROVE  CanonOnly(t, w)
  <1>1. SameFlags(t, w) /\ \A q : Alias(u, q) = Alias(t, q)
    BY SameAlias DEF CanonOnly, SameFlags
  <1>2. QED BY <1>1 DEF CanonOnly

LEMMA PutCanon ==
    ASSUME NEW t \in Trees, NEW n \in Names, NEW node \in Nodes
    PROVE  LET u == Put(t, <<"canon", n>>, node)
           IN  /\ CanonOnly(t, u)
               /\ Node(u, <<"canon", n>>) = node
               /\ \A m \in Names \ {n} : Node(u, <<"canon", m>>) = Node(t, <<"canon", m>>)
  <1> DEFINE p == <<"canon", n>>
             u == Put(t, p, node)
  <1>1. p \in Places /\ Alias(t, p) = p
    BY AliasOf, PlaceOf DEF Dirs
  <1>2. \A m \in Names \ {n} : <<"canon", m>> \in Places /\ Alias(t, <<"canon", m>>) # p
    <2>1. TAKE m \in Names \ {n}
    <2>2. Alias(t, <<"canon", m>>) = <<"canon", m>>
      BY AliasOf
    <2>3. QED BY <2>2, PlaceOf DEF Dirs
  <1>3. p[1] = "canon"
    OBVIOUS
  <1> HIDE DEF p
  <1>4. /\ u \in Trees /\ SameFlags(t, u)
        /\ \A q \in Places : Node(u, q) = IF Alias(t, q) = p THEN node ELSE Node(t, q)
    BY <1>1, PutIs DEF SameFlags
  <1> HIDE DEF u
  <1>5. CanonOnly(t, u)
    BY <1>3, <1>4 DEF CanonOnly
  <1>6. Node(u, p) = node /\ \A m \in Names \ {n} : Node(u, <<"canon", m>>) = Node(t, <<"canon", m>>)
    BY <1>1, <1>2, <1>4
  <1>7. QED BY <1>5, <1>6 DEF u, p

LEMMA OnlyExactIs ==
    ASSUME NEW t \in Trees, NEW keep \in Names
    PROVE  LET u == OnlyExact(t, keep)
           IN  /\ CanonOnly(t, u)
               /\ \A n \in Names : Node(u, <<"canon", n>>)
                     = IF n \in Exact \ {keep} /\ Node(t, <<"canon", n>>).is = "file" THEN None
                       ELSE Node(t, <<"canon", n>>)
  <1> DEFINE Gone(x, n) == n \in Exact \ {keep} /\ Node(x, <<"canon", n>>).is = "file"
             Step(x, n) == IF Gone(x, n) THEN Put(x, <<"canon", n>>, None) ELSE x
             a == Step(t, "v1")
             w == Step(a, "v2")
  <1>1. OnlyExact(t, keep) = w
    BY DEF OnlyExact, ForNames, Exact
  <1>2. ASSUME NEW x \in Trees, NEW n \in Names
        PROVE  /\ CanonOnly(x, Step(x, n))
               /\ Node(Step(x, n), <<"canon", n>>) = IF Gone(x, n) THEN None ELSE Node(x, <<"canon", n>>)
               /\ \A m \in Names \ {n} : Node(Step(x, n), <<"canon", m>>) = Node(x, <<"canon", m>>)
    <2>1. CASE Gone(x, n)
      <3>1. None \in Nodes
        BY NodesAre
      <3>2. Step(x, n) = Put(x, <<"canon", n>>, None)
        BY <2>1
      <3> HIDE DEF Step, Gone
      <3>3. QED BY <2>1, <3>1, <3>2, PutCanon
    <2>2. CASE ~Gone(x, n)
      <3>1. Step(x, n) = x
        BY <2>2
      <3> HIDE DEF Step, Gone
      <3>2. QED BY <2>2, <3>1, CanonOnlySelf
    <2>3. QED BY <2>1, <2>2
  <1>3. \A x, n : Gone(x, n) <=> n \in Exact \ {keep} /\ Node(x, <<"canon", n>>).is = "file"
    OBVIOUS
  <1> HIDE DEF Step, Gone
  <1>4. "v1" \in Names /\ "v2" \in Names /\ \A n \in Names : n \in Exact <=> n \in {"v1", "v2"}
    BY NamesAre DEF Exact
  <1>5. CanonOnly(t, a) /\ a \in Trees
    BY <1>2, <1>4 DEF CanonOnly, SameFlags
  <1>6. /\ Node(a, <<"canon", "v1">>) = IF Gone(t, "v1") THEN None ELSE Node(t, <<"canon", "v1">>)
        /\ \A m \in Names \ {"v1"} : Node(a, <<"canon", m>>) = Node(t, <<"canon", m>>)
    BY <1>2, <1>4
  <1> HIDE DEF a
  <1>7. CanonOnly(a, w)
    BY <1>2, <1>4, <1>5
  <1>8. /\ Node(w, <<"canon", "v2">>) = IF Gone(a, "v2") THEN None ELSE Node(a, <<"canon", "v2">>)
        /\ \A m \in Names \ {"v2"} : Node(w, <<"canon", m>>) = Node(a, <<"canon", m>>)
    BY <1>2, <1>4, <1>5
  <1> HIDE DEF w
  <1>9. CanonOnly(t, w)
    BY <1>5, <1>7, CanonOnlyTwice
  <1>10. ASSUME NEW n \in Names
         PROVE  Node(w, <<"canon", n>>)
                  = IF n \in Exact \ {keep} /\ Node(t, <<"canon", n>>).is = "file" THEN None
                    ELSE Node(t, <<"canon", n>>)
    <2>1. CASE n = "v1"
      BY <1>3, <1>4, <1>6, <1>8, <2>1
    <2>2. CASE n = "v2"
      BY <1>3, <1>4, <1>6, <1>8, <2>2
    <2>3. CASE n \notin {"v1", "v2"}
      BY <1>4, <1>6, <1>8, <2>3
    <2>4. QED BY <2>1, <2>2, <2>3
  <1>11. QED BY <1>1, <1>9, <1>10

\* There the provider stays and the SONAME leads to it; of the other names only the
\* second exact version is lost.
Reconciled(t, u) ==
    /\ CanonOnly(t, u)
    /\ Node(u, <<"canon", "v1">>) = Node(t, <<"canon", "v1">>)
    /\ Node(u, <<"canon", "v2">>).is # "file"
    /\ \/ Node(u, <<"canon", "soname">>) = LinkTo(<<"canon", "v1">>)
       \/ /\ Node(u, <<"canon", "soname">>).is = "file"
          /\ Node(t, <<"canon", "soname">>).is = "file"
    /\ Node(t, <<"canon", "dev">>) # None => Node(u, <<"canon", "dev">>) # None

LEMMA ReconcileIs ==
    ASSUME NEW t \in Trees
    PROVE  Reconciled(t, Reconcile(t, "v1"))
  <1> DEFINE dev == <<"canon", "dev">>
             so == <<"canon", "soname">>
             v1 == <<"canon", "v1">>
             v2 == <<"canon", "v2">>
             x == Turned(t, so, "v1", TRUE)
             y == TurnDev(x, "v1")
             u == OnlyExact(y, "v1")
  <1>1. /\ dev \in Places /\ so \in Places /\ v1 \in Places /\ v2 \in Places
        /\ Alias(t, dev) = dev /\ Alias(t, so) = so /\ Alias(t, v1) = v1 /\ Alias(t, v2) = v2
        /\ so # v1 /\ so # v2 /\ v1 # v2 /\ dev # so /\ dev # v1 /\ dev # v2
    <2>1. dev \in Places /\ so \in Places /\ v1 \in Places /\ v2 \in Places
      BY PlaceOf, NamesAre DEF Dirs
    <2>2. Alias(t, dev) = dev /\ Alias(t, so) = so /\ Alias(t, v1) = v1 /\ Alias(t, v2) = v2
      BY AliasOf, NamesAre
    <2>3. QED BY <2>1, <2>2
  <1>2. Reconcile(t, "v1") = u
    BY DEF Reconcile
  <1>3. /\ SameFlags(t, x) /\ x \in Trees
        /\ Node(x, so) = IF Node(t, so).is \in {"link", "wide"} \/ ~Exists(t, so) THEN LinkTo(v1)
                         ELSE Node(t, so)
        /\ \A q \in Places : Alias(t, q) # so => Node(x, q) = Node(t, q)
    BY TurnedIs, NamesAre DEF SameFlags
  <1>4. Node(x, so) = LinkTo(v1) \/ (Node(x, so).is = "file" /\ Node(t, so).is = "file")
    <2>1. CASE Node(t, so).is \in {"link", "wide"} \/ ~Exists(t, so)
      BY <1>3, <2>1
    <2>2. CASE Node(t, so).is \notin {"link", "wide"} /\ Exists(t, so)
      <3>1. Hop(t, so) = so
        BY <2>2 DEF Hop
      <3>2. Resolved(t, so) = so
        BY <3>1, <1>1 DEF Resolved
      <3>3. Node(t, so).is = "file"
        BY <2>2, <3>2 DEF Exists
      <3>4. QED BY <1>3, <2>2, <3>3
    <2>3. QED BY <2>1, <2>2
  <1> HIDE DEF x
  <1>5. /\ SameFlags(x, y) /\ y \in Trees
        /\ Node(y, dev) \in {Node(x, dev), LinkTo(v1)}
        /\ \A q \in Places : Alias(x, q) # dev => Node(y, q) = Node(x, q)
    <2>1. y = x \/ y = Turned(x, dev, "v1", FALSE)
      BY DEF TurnDev
    <2>2. CASE y = x
      BY <1>3, <2>2 DEF SameFlags
    <2>3. CASE y = Turned(x, dev, "v1", FALSE)
      <3>1. "dev" \in Names
        BY NamesAre
      <3>2. /\ SameFlags(x, Turned(x, dev, "v1", FALSE))
            /\ Node(Turned(x, dev, "v1", FALSE), dev) \in {Node(x, dev), LinkTo(v1)}
            /\ \A q \in Places : Alias(x, q) # dev =>
                   Node(Turned(x, dev, "v1", FALSE), q) = Node(x, q)
        BY <1>3, <3>1, TurnedIs
      <3>3. QED BY <2>3, <3>2 DEF SameFlags
    <2>4. QED BY <2>1, <2>2, <2>3
  <1>6. \A q : Alias(x, q) = Alias(t, q)
    BY <1>3, SameAlias
  <1> HIDE DEF y
  <1>7. CanonOnly(t, y)
    <2>1. SameFlags(t, y)
      BY <1>3, <1>5 DEF SameFlags
    <2>2. ASSUME NEW q \in Places, Alias(t, q)[1] # "canon"
          PROVE  Node(y, q) = Node(t, q)
      BY <1>3, <1>5, <1>6, <2>2
    <2>3. QED BY <2>1, <2>2 DEF CanonOnly
  <1>8. /\ CanonOnly(y, u)
        /\ \A n \in Names : Node(u, <<"canon", n>>)
              = IF n \in Exact \ {"v1"} /\ Node(y, <<"canon", n>>).is = "file" THEN None
                ELSE Node(y, <<"canon", n>>)
    BY <1>5, OnlyExactIs, NamesAre
  <1> HIDE DEF u
  <1>9. /\ Node(u, v1) = Node(t, v1) /\ Node(u, so) = Node(x, so)
        /\ Node(u, v2).is # "file" /\ Node(u, dev) = Node(y, dev)
    <2>1. /\ Node(u, v1) = Node(y, v1) /\ Node(u, so) = Node(y, so) /\ Node(u, dev) = Node(y, dev)
          /\ Node(u, v2) = IF Node(y, v2).is = "file" THEN None ELSE Node(y, v2)
      BY <1>8, NamesAre DEF Exact
    <2>2. Node(y, v1) = Node(t, v1) /\ Node(y, so) = Node(x, so)
      BY <1>1, <1>3, <1>5, <1>6
    <2>3. None.is = "none"
      BY NodesAre
    <2>4. QED BY <2>1, <2>2, <2>3
  <1>10. Node(t, dev) # None => Node(u, dev) # None
    <2>1. Node(x, dev) = Node(t, dev)
      BY <1>1, <1>3
    <2>2. LinkTo(v1) # None
      BY DEF LinkTo, None
    <2>3. QED BY <1>5, <1>9, <2>1, <2>2
  <1>11. CanonOnly(t, u)
    BY <1>7, <1>8, CanonOnlyTwice
  <1>12. QED BY <1>2, <1>4, <1>9, <1>10, <1>11 DEF Reconciled

-----------------------------------------------------------------------------
(* What is done to the libraries of ncurses and of Perl.                   *)

LEMMA NarrowIs ==
    ASSUME NEW t \in Trees
    PROVE  LET u == Narrow(t)
           IN  /\ CanonOnly(t, u)
               /\ Node(u, <<"canon", "soname">>) = Wide /\ Node(u, <<"canon", "dev">>) = Wide
               /\ \A n \in Exact : Node(u, <<"canon", n>>).is # "file"
  <1> DEFINE a == Put(t, <<"canon", "soname">>, Wide)
             b == Put(a, <<"canon", "dev">>, Wide)
             u == OnlyExact(b, "soname")
  <1>1. Narrow(t) = u
    BY DEF Narrow
  <1>2. /\ "soname" \in Names /\ "dev" \in Names /\ Wide \in Nodes
        /\ \A n \in Exact : n \in Names /\ n # "soname" /\ n # "dev"
        /\ "soname" \notin Exact /\ "dev" \notin Exact
    BY NamesAre, NodesAre DEF Exact
  <1>3. CanonOnly(t, a) /\ Node(a, <<"canon", "soname">>) = Wide
    BY <1>2, PutCanon
  <1>4. a \in Trees
    BY <1>3 DEF CanonOnly, SameFlags
  <1> HIDE DEF a
  <1>5. CanonOnly(a, b) /\ Node(b, <<"canon", "dev">>) = Wide
        /\ \A m \in Names \ {"dev"} : Node(b, <<"canon", m>>) = Node(a, <<"canon", m>>)
    BY <1>2, <1>4, PutCanon
  <1>6. b \in Trees
    BY <1>5 DEF CanonOnly, SameFlags
  <1> HIDE DEF b
  <1>7. /\ CanonOnly(b, u)
        /\ \A n \in Names : Node(u, <<"canon", n>>)
              = IF n \in Exact \ {"soname"} /\ Node(b, <<"canon", n>>).is = "file" THEN None
                ELSE Node(b, <<"canon", n>>)
    BY <1>2, <1>6, OnlyExactIs
  <1> HIDE DEF u
  <1>8. Node(u, <<"canon", "soname">>) = Wide /\ Node(u, <<"canon", "dev">>) = Wide
    BY <1>2, <1>3, <1>5, <1>7
  <1>9. \A n \in Exact : Node(u, <<"canon", n>>).is # "file"
    <2>1. TAKE n \in Exact
    <2>2. None.is = "none"
      BY NodesAre
    <2>3. QED BY <1>2, <1>7, <2>2
  <1>10. CanonOnly(t, u)
    BY <1>3, <1>5, <1>7, CanonOnlyTwice
  <1>11. QED BY <1>1, <1>8, <1>9, <1>10

LEMMA ResolvedIs ==
    ASSUME NEW t \in Trees, NEW p \in Places
    PROVE  Resolved(t, p) \in Places /\ Resolved(t, p)[2] \in Names
  <1>1. ASSUME NEW q \in Places
        PROVE  Hop(t, q) \in Places
    <2>1. Node(t, q).is = "link" => Node(t, q).to \in Places
      BY NodeIs, NodesAre
    <2>2. QED BY <2>1 DEF Hop
  <1>2. Hop(t, Hop(t, Hop(t, Hop(t, p)))) \in Places
    BY <1>1
  <1>3. Resolved(t, p) \in Places
    BY <1>2, AliasIs DEF Resolved
  <1>4. QED BY <1>3 DEF Places

\* Of the canonical directory nothing goes but exact versions that the SONAME does not
\* lead to, and all of them go where it leads nowhere else.
Activated(t, u) ==
    /\ CanonOnly(t, u)
    /\ \A n \in {"dev", "soname"} : Node(u, <<"canon", n>>) = Node(t, <<"canon", n>>)
    /\ \A n \in Exact : \/ Node(u, <<"canon", n>>) = Node(t, <<"canon", n>>)
                        \/ Node(t, <<"canon", n>>).is = "file" /\ Node(u, <<"canon", n>>) = None
    /\ LET n == Resolved(t, <<"canon", "soname">>)[2]
       IN  Node(u, <<"canon", n>>) = Node(t, <<"canon", n>>)
    /\ Node(t, <<"canon", "soname">>).is = "file" =>
          \A n \in Exact : Node(u, <<"canon", n>>).is # "file"

LEMMA FileResolves ==
    ASSUME NEW t \in Trees, NEW n \in Names, Node(t, <<"canon", n>>).is = "file"
    PROVE  Resolved(t, <<"canon", n>>) = <<"canon", n>> /\ Exists(t, <<"canon", n>>)
  <1>1. Hop(t, <<"canon", n>>) = <<"canon", n>>
    BY DEF Hop
  <1>2. Alias(t, <<"canon", n>>) = <<"canon", n>>
    BY AliasOf
  <1>3. Resolved(t, <<"canon", n>>) = <<"canon", n>>
    BY <1>1, <1>2 DEF Resolved
  <1>4. QED BY <1>3 DEF Exists

LEMMA KeepActiveIs ==
    ASSUME NEW t \in Trees
    PROVE  Activated(t, KeepActive(t))
  <1> DEFINE so == <<"canon", "soname">>
             keep == Resolved(t, so)[2]
             u == OnlyExact(t, keep)
  <1>1. keep \in Names
    BY ResolvedIs, PlaceOf, NamesAre DEF Dirs
  <1>2. KeepActive(t) = IF Exists(t, so) THEN u ELSE t
    BY DEF KeepActive
  <1>3. /\ CanonOnly(t, u)
        /\ \A n \in Names : Node(u, <<"canon", n>>)
              = IF n \in Exact \ {keep} /\ Node(t, <<"canon", n>>).is = "file" THEN None
                ELSE Node(t, <<"canon", n>>)
    BY <1>1, OnlyExactIs
  <1>4. Node(t, so).is = "file" => keep = "soname" /\ Exists(t, so)
    BY FileResolves, NamesAre
  <1> HIDE DEF u
  <1>5. /\ "soname" \notin Exact /\ "dev" \notin Exact /\ "soname" \in Names /\ "dev" \in Names
        /\ \A n \in Exact : n \in Names
        /\ None.is = "none"
    BY NamesAre, NodesAre DEF Exact
  <1>6. Activated(t, u)
    <2>1. \A n \in {"dev", "soname"} : Node(u, <<"canon", n>>) = Node(t, <<"canon", n>>)
      BY <1>3, <1>5
    <2>2. \A n \in Exact : \/ Node(u, <<"canon", n>>) = Node(t, <<"canon", n>>)
                           \/ Node(t, <<"canon", n>>).is = "file" /\ Node(u, <<"canon", n>>) = None
      <3>1. TAKE n \in Exact
      <3>2. n \in Names
        BY <1>5
      <3> HIDE DEF keep
      <3>3. Node(u, <<"canon", n>>)
              = IF n \in Exact \ {keep} /\ Node(t, <<"canon", n>>).is = "file" THEN None
                ELSE Node(t, <<"canon", n>>)
        BY <1>3, <3>2
      <3>4. QED BY <3>3
    <2>3. Node(u, <<"canon", keep>>) = Node(t, <<"canon", keep>>)
      BY <1>1, <1>3
    <2>4. Node(t, so).is = "file" => \A n \in Exact : Node(u, <<"canon", n>>).is # "file"
      <3>1. SUFFICES ASSUME Node(t, so).is = "file", NEW n \in Exact
                     PROVE  Node(u, <<"canon", n>>).is # "file"
        OBVIOUS
      <3>2. n \in Names /\ n # keep
        BY <1>4, <1>5, <3>1
      <3> HIDE DEF keep
      <3>3. QED BY <1>3, <1>5, <3>2
    <2>5. QED BY <1>3, <2>1, <2>2, <2>3, <2>4 DEF Activated
  <1>7. ~Exists(t, so) => Activated(t, t)
    <2>1. CanonOnly(t, t)
      BY CanonOnlySelf
    <2>2. ASSUME ~Exists(t, so)
          PROVE  Activated(t, t)
      <3>1. Node(t, <<"canon", "soname">>).is # "file"
        BY <1>4, <2>2
      <3>2. QED BY <2>1, <3>1 DEF Activated
    <2>3. QED BY <2>2
  <1>8. QED BY <1>2, <1>6, <1>7

LEMMA ClearPerlIs ==
    ASSUME NEW t \in Trees
    PROVE  LET u == ClearPerl(t)
           IN  CanonOnly(t, u) /\ Node(u, <<"canon", "dev">>) = Node(t, <<"canon", "dev">>)
  <1> DEFINE a == Put(t, <<"canon", "soname">>, None)
             b == Put(a, <<"canon", "v1">>, None)
             u == Put(b, <<"canon", "v2">>, None)
  <1>1. ClearPerl(t) = u
    BY DEF ClearPerl, ForNames
  <1>2. /\ None \in Nodes
        /\ "soname" \in Names /\ "v1" \in Names /\ "v2" \in Names
        /\ "dev" \in Names \ {"soname"} /\ "dev" \in Names \ {"v1"} /\ "dev" \in Names \ {"v2"}
    BY NamesAre, NodesAre
  <1>3. CanonOnly(t, a) /\ Node(a, <<"canon", "dev">>) = Node(t, <<"canon", "dev">>) /\ a \in Trees
    BY <1>2, PutCanon DEF CanonOnly, SameFlags
  <1> HIDE DEF a
  <1>4. CanonOnly(a, b) /\ Node(b, <<"canon", "dev">>) = Node(a, <<"canon", "dev">>) /\ b \in Trees
    BY <1>2, <1>3, PutCanon DEF CanonOnly, SameFlags
  <1> HIDE DEF b
  <1>5. CanonOnly(b, u) /\ Node(u, <<"canon", "dev">>) = Node(b, <<"canon", "dev">>)
    BY <1>2, <1>4, PutCanon
  <1> HIDE DEF u
  <1>6. QED BY <1>1, <1>3, <1>4, <1>5, CanonOnlyTwice

\* What Ncurses makes of a tree.
Ncursed(t, u) ==
    \/ u = t
    \/ /\ traits.family = "narrow"
       /\ Node(u, <<"canon", "soname">>) = Wide /\ Node(u, <<"canon", "dev">>) = Wide
       /\ \A n \in Exact : Node(u, <<"canon", n>>).is # "file"
    \/ traits.family = "wide" /\ Activated(t, u)

LEMMA NcursesIs ==
    ASSUME NEW t \in Trees, NEW wide \in BOOLEAN
    PROVE  CanonOnly(t, Ncurses(t, wide)) /\ Ncursed(t, Ncurses(t, wide))
  <1> DEFINE u == Ncurses(t, wide)
  <1>1. CASE wide /\ traits.family = "narrow"
    <2>1. u = Narrow(t)
      BY <1>1 DEF Ncurses
    <2>2. QED BY <1>1, <2>1, NarrowIs DEF Ncursed
  <1>2. CASE wide /\ traits.family = "wide"
    <2>1. u = KeepActive(t)
      BY <1>2 DEF Ncurses
    <2>2. QED BY <1>2, <2>1, KeepActiveIs DEF Ncursed, Activated
  <1>3. CASE ~(wide /\ traits.family \in {"narrow", "wide"})
    <2>1. u = t
      BY <1>3 DEF Ncurses
    <2>2. QED BY <2>1, CanonOnlySelf DEF Ncursed
  <1>4. QED BY <1>1, <1>2, <1>3

LEMMA PerlIs ==
    ASSUME NEW t \in Trees, NEW own \in BOOLEAN
    PROVE  LET u == Perl(t, own)
           IN  /\ CanonOnly(t, u) /\ Node(u, <<"canon", "dev">>) = Node(t, <<"canon", "dev">>)
               /\ ~own => u = t
  BY ClearPerlIs, CanonOnlySelf DEF Perl

LEMMA PreparedIs ==
    ASSUME NEW t \in Trees, NEW wide \in BOOLEAN, NEW own \in BOOLEAN
    PROVE  Prepared(t, wide, own) \in Trees /\ Prepared(t, wide, own).merged = t.merged
  <1>1. Normalise(t) \in Trees /\ Normalise(t).merged = t.merged
    BY NormaliseKept DEF Kept
  <1> DEFINE a == Normalise(t)
             b == Ncurses(a, wide)
  <1> HIDE DEF a
  <1>2. CanonOnly(a, b)
    BY <1>1, NcursesIs DEF a
  <1> HIDE DEF b
  <1>3. CanonOnly(b, Perl(b, own))
    BY <1>2, PerlIs DEF CanonOnly, SameFlags
  <1>4. CanonOnly(a, Perl(b, own))
    BY <1>2, <1>3, CanonOnlyTwice
  <1>5. QED BY <1>1, <1>4 DEF CanonOnly, SameFlags, Prepared, a, b

-----------------------------------------------------------------------------
(* Types.                                                                  *)


\* A port's files are put over the sysroot.
LEMMA ScriptIs ==
    ASSUME NEW t \in Trees, NEW d \in Dirs, NEW v \in Exact
    PROVE  LET u == Put(Put(Put(t, <<d, v>>, File("port")), <<d, "soname">>, LinkTo(<<d, v>>)),
                        <<d, "dev">>, LinkTo(<<d, "soname">>))
           IN  /\ SameFlags(t, u)
               /\ Node(u, <<d, v>>) = File("port")
               /\ Node(u, <<d, "soname">>) = LinkTo(<<d, v>>)
               /\ \A q \in Places : Alias(t, q)[1] # Alias(t, <<d, v>>)[1] => Node(u, q) = Node(t, q)
               /\ \A q \in Places : q[1] # Alias(t, <<d, v>>)[1] => u.at[q] = t.at[q]
  <1> DEFINE pv == <<d, v>>
             ps == <<d, "soname">>
             pd == <<d, "dev">>
             file == File("port")
             toV == LinkTo(pv)
             toS == LinkTo(ps)
             a == Put(t, pv, file)
             b == Put(a, ps, toV)
             u == Put(b, pd, toS)
  <1>1. pv \in Places /\ ps \in Places /\ pd \in Places
    BY PlaceOf, NamesAre DEF Exact
  <1>2. /\ Alias(t, pv) # Alias(t, ps) /\ Alias(t, pv) # Alias(t, pd) /\ Alias(t, ps) # Alias(t, pd)
        /\ Alias(t, ps)[1] = Alias(t, pv)[1] /\ Alias(t, pd)[1] = Alias(t, pv)[1]
    BY DEF Alias, Exact
  <1>3. file \in Nodes /\ toV \in Nodes /\ toS \in Nodes
    BY <1>1, NodesAre
  <1> HIDE DEF pv, ps, pd, file, toV, toS
  <1>4. /\ a \in Trees /\ SameFlags(t, a)
        /\ \A q \in Places : Alias(a, q) = Alias(t, q)
        /\ \A q \in Places : Node(a, q) = IF Alias(t, q) = Alias(t, pv) THEN file ELSE Node(t, q)
    <2>1. /\ a \in Trees /\ a.merged = t.merged /\ a.lib64 = t.lib64
          /\ \A q \in Places : Alias(a, q) = Alias(t, q)
          /\ \A q \in Places : Node(a, q) = IF Alias(t, q) = Alias(t, pv) THEN file
                                            ELSE Node(t, q)
      <3>1. pv \in Places
        BY <1>1
      <3>2. file \in Nodes
        BY <1>3
      <3>3. t \in Trees
        OBVIOUS
      <3>4. QED BY <3>1, <3>2, <3>3, PutIs
    <2> HIDE DEF a
    <2>2. QED BY <2>1 DEF SameFlags
  <1> HIDE DEF a
  <1>5. /\ b \in Trees /\ SameFlags(t, b)
        /\ \A q \in Places : Alias(b, q) = Alias(t, q)
        /\ \A q \in Places : Node(b, q) = IF Alias(t, q) = Alias(t, ps) THEN toV ELSE Node(a, q)
    <2>1. /\ b \in Trees /\ b.merged = a.merged /\ b.lib64 = a.lib64
          /\ \A q \in Places : Alias(b, q) = Alias(a, q)
          /\ \A q \in Places : Node(b, q) = IF Alias(a, q) = Alias(a, ps) THEN toV
                                            ELSE Node(a, q)
      <3>1. ps \in Places
        BY <1>1
      <3>2. toV \in Nodes
        BY <1>3
      <3>3. a \in Trees
        BY <1>4
      <3>4. QED BY <3>1, <3>2, <3>3, PutIs
    <2> HIDE DEF b
    <2>2. SameFlags(t, b)
      BY <2>1, <1>4 DEF SameFlags
    <2>3. QED BY <1>1, <2>1, <2>2, <1>4
  <1> HIDE DEF b
  <1>6. /\ u \in Trees /\ SameFlags(t, u)
        /\ \A q \in Places : Alias(u, q) = Alias(t, q)
        /\ \A q \in Places : Node(u, q) = IF Alias(t, q) = Alias(t, pd) THEN toS ELSE Node(b, q)
    <2>1. /\ u \in Trees /\ u.merged = b.merged /\ u.lib64 = b.lib64
          /\ \A q \in Places : Alias(u, q) = Alias(b, q)
          /\ \A q \in Places : Node(u, q) = IF Alias(b, q) = Alias(b, pd) THEN toS
                                            ELSE Node(b, q)
      <3>1. pd \in Places
        BY <1>1
      <3>2. toS \in Nodes
        BY <1>3
      <3>3. b \in Trees
        BY <1>5
      <3>4. QED BY <3>1, <3>2, <3>3, PutIs
    <2> HIDE DEF u
    <2>2. SameFlags(t, u)
      BY <2>1, <1>5 DEF SameFlags
    <2>3. QED BY <1>1, <2>1, <2>2, <1>5
  <1> HIDE DEF u
  <1>7. Node(u, pv) = file /\ Node(u, ps) = toV
    BY <1>1, <1>2, <1>4, <1>5, <1>6
  <1>8. \A q \in Places : Alias(t, q)[1] # Alias(t, pv)[1] => Node(u, q) = Node(t, q)
    BY <1>2, <1>4, <1>5, <1>6
  <1>9. ASSUME NEW q \in Places, q[1] # Alias(t, pv)[1]
        PROVE  u.at[q] = t.at[q]
    <2>1. q # Alias(t, pv) /\ q # Alias(t, ps) /\ q # Alias(t, pd)
      BY <1>2, <1>9
    <2>2. a.at[q] = t.at[q]
      BY <1>1, <2>1, PutRaw DEF a
    <2>3. b.at[q] = a.at[q]
      BY <1>1, <1>4, <2>1, PutRaw DEF b
    <2>4. u.at[q] = b.at[q]
      BY <1>1, <1>5, <2>1, PutRaw DEF u
    <2>5. QED BY <2>2, <2>3, <2>4
  <1>10. QED BY <1>6, <1>7, <1>8, <1>9 DEF u, b, a, pv, ps, pd, file, toV, toS

LEMMA RootfsInit == Init => RootfsTypeOK
  <1> SUFFICES ASSUME Init PROVE RootfsTypeOK
    OBVIOUS
  <1>1. PICK m \in BOOLEAN : stage = Bare(m) /\ sysroot = Bare(m) /\ final = Bare(m)
    BY DEF Init
  <1>2. stage \in Trees /\ sysroot \in Trees /\ final \in Trees
    BY <1>1, BareIs
  <1>3. /\ traits \in Traits /\ release \in Releases
        /\ index \in 0..MaxRelease /\ payload \in 0..MaxRelease /\ steps \in 0..MaxSteps
    BY RootfsAssumption DEF Init, Releases
  <1>4. /\ status \in [Packages -> 0..AsBuilt] /\ list \subseteq Files
        /\ registry \in [version : 0..MaxRelease, files : SUBSET Files]
    BY RootfsAssumption DEF Init, Absent, AsBuilt
  <1>5. QED BY <1>2, <1>3, <1>4 DEF Init, RootfsTypeOK

LEMMA ToolIsNoPlace == Tool \notin Places
  BY DEF Tool, Places, Dirs

LEMMA PayloadIs ==
    ASSUME RootfsTypeOK, NEW dev \in BOOLEAN
    PROVE  /\ traits.at \in {"lib", "canon"} => Payload(dev) = Debian(traits.at, dev)
           /\ traits.at = "nowhere" => Payload(dev) \subseteq {Tool}
           /\ traits.at \in {"nowhere", "lib", "canon"}
           /\ Payload(dev) \subseteq Payload(TRUE)
           /\ Payload(dev) \subseteq Files
           /\ Tool \in Payload(dev) => traits.family = "tools"
  <1>1. /\ traits.at \in {"nowhere", "lib", "canon"}
        /\ traits.family = "tools" => traits.at = "nowhere"
    BY DEF RootfsTypeOK, Traits
  <1>2. CASE traits.family = "tools"
    <2>1. Payload(dev) = {Tool} /\ Payload(TRUE) = {Tool}
      BY <1>2 DEF Payload
    <2>2. QED BY <1>1, <1>2, <2>1 DEF Files
  <1>3. CASE traits.family # "tools" /\ traits.at = "nowhere"
    <2>1. Payload(dev) = {}
      BY <1>3 DEF Payload
    <2>2. QED BY <1>3, <2>1
  <1>4. CASE traits.family # "tools" /\ traits.at # "nowhere"
    <2>1. Payload(dev) = Debian(traits.at, dev) /\ Payload(TRUE) = Debian(traits.at, TRUE)
      BY <1>4 DEF Payload
    <2>2. \A p \in Debian(traits.at, TRUE) : p \in Places
      BY <1>1, <1>4, PlaceOf, NamesAre DEF Debian, Dirs
    <2>3. Debian(traits.at, dev) \subseteq Debian(traits.at, TRUE)
      BY DEF Debian
    <2>4. QED BY <1>1, <1>4, <2>1, <2>2, <2>3, ToolIsNoPlace DEF Files
  <1>5. QED BY <1>2, <1>3, <1>4

LEMMA SeedIs ==
    ASSUME NEW t \in Trees, NEW files
    PROVE  Unpacked(Bare(t.merged), files) \in Trees /\ Unpacked(Bare(t.merged), files).merged = t.merged
  <1>1. t.merged \in BOOLEAN
    BY DEF Trees
  <1>2. Bare(t.merged) \in Trees /\ Bare(t.merged).merged = t.merged
    BY <1>1, BareIs
  <1>3. QED BY <1>2, UnpackedIs DEF SameFlags

LEMMA PrepareIs ==
    ASSUME Prepare
    PROVE  /\ pc = "prepare" /\ pc' = "build"
           /\ index' \in {index, release} /\ (index = 0 => index' = release) /\ payload' = index'
           /\ strayed' \in BOOLEAN /\ ownPerl' \in BOOLEAN /\ (ownPerl' => ownPerl)
           /\ \E wide \in BOOLEAN :
                 \/ /\ payload' = payload /\ stage' = stage
                    /\ sysroot' = Prepared(sysroot, wide, ownPerl')
                    /\ (strayed => strayed') /\ (ownPerl => ownPerl')
                 \/ /\ stage' = Unpacked(Bare(stage.merged), Payload(FALSE))
                    /\ sysroot' = Prepared(Unpacked(Bare(sysroot.merged), Payload(TRUE)), wide,
                                           ownPerl')
           /\ UNCHANGED <<traits, release, final, built, steps, status, registry, list, tool>>
  <1>1. index' \in {index, release} /\ (index = 0 => index' = release) /\ payload' = index'
    BY DEF Prepare
  <1>2. /\ strayed' \in BOOLEAN /\ (payload' = payload => (strayed => strayed'))
        /\ ownPerl' \in BOOLEAN /\ (payload' = payload => (ownPerl => ownPerl'))
        /\ ownPerl' => ownPerl
    BY DEF Prepare
  <1>3. PICK wide \in BOOLEAN :
           sysroot' = Prepared(IF payload' = payload THEN sysroot
                               ELSE Unpacked(Bare(sysroot.merged), Payload(TRUE)), wide, ownPerl')
    BY DEF Prepare
  <1>4. stage' = IF payload' = payload THEN stage ELSE Unpacked(Bare(stage.merged), Payload(FALSE))
    BY DEF Prepare
  <1>5. /\ pc = "prepare" /\ pc' = "build"
        /\ UNCHANGED <<traits, release, final, built, steps, status, registry, list, tool>>
    BY DEF Prepare
  <1>6. CASE payload' = payload
    BY <1>1, <1>2, <1>3, <1>4, <1>5, <1>6
  <1>7. CASE payload' # payload
    BY <1>1, <1>2, <1>3, <1>4, <1>5, <1>7
  <1>8. QED BY <1>6, <1>7

LEMMA BuildIs ==
    ASSUME Build
    PROVE  /\ pc = "build" /\ pc' \in {"build", "failed"}
           /\ \E d \in LibDirs, v \in Exact, wide \in BOOLEAN :
                 /\ sysroot' = Prepared(Put(Put(Put(sysroot, <<d, v>>, File("port")),
                                                <<d, "soname">>, LinkTo(<<d, v>>)),
                                            <<d, "dev">>, LinkTo(<<d, "soname">>)),
                                        wide, ownPerl')
                 /\ strayed' = (strayed \/ d \notin {"lib", "canon"})
           /\ ownPerl' \in {ownPerl, traits.family = "perl"}
           /\ UNCHANGED <<traits, release, index, payload, stage, final, status, registry, list, tool>>
  BY DEF Build

\* The trees that Reconciles makes one of the other.
LEMMA ReconcilesIs ==
    ASSUME RootfsTypeOK, Reconciles
    PROVE  /\ pc = "reconcile" /\ pc' = "dpkg"
           /\ UNCHANGED <<traits, payload, index, registry, list, status, strayed, ownPerl>>
           /\ \E turned, told, left :
                 /\ turned = IF Provided THEN Reconcile(final, "v1") ELSE final
                 /\ CanonOnly(final, turned)
                 /\ CanonOnly(turned, told) /\ Ncursed(turned, told)
                 /\ left = Perl(told, ownPerl) /\ CanonOnly(told, left)
                 /\ Node(left, <<"canon", "dev">>) = Node(told, <<"canon", "dev">>)
                 /\ ~ownPerl => left = told
                 /\ final' \in {left, Normalise(left)}
  <1>1. PICK wide \in BOOLEAN :
           LET turned == IF Provided THEN Reconcile(final, "v1") ELSE final
               told   == Ncurses(turned, wide)
               left   == Perl(told, ownPerl)
           IN  final' = IF turned # final \/ told # turned THEN Normalise(left) ELSE left
    BY DEF Reconciles
  <1> DEFINE turned == IF Provided THEN Reconcile(final, "v1") ELSE final
             told   == Ncurses(turned, wide)
             left   == Perl(told, ownPerl)
  <1>2. final \in Trees /\ ownPerl \in BOOLEAN
    BY DEF RootfsTypeOK
  <1>3. CanonOnly(final, turned)
    BY <1>2, ReconcileIs, CanonOnlySelf DEF Reconciled
  <1>4. turned \in Trees
    BY <1>3 DEF CanonOnly, SameFlags
  <1>5. turned = IF Provided THEN Reconcile(final, "v1") ELSE final
    OBVIOUS
  <1>6. final' \in {left, Normalise(left)}
    BY <1>1
  <1> HIDE DEF turned
  <1>7. CanonOnly(turned, told) /\ Ncursed(turned, told)
    BY <1>4, NcursesIs
  <1>8. told \in Trees
    BY <1>7 DEF CanonOnly, SameFlags
  <1> HIDE DEF told
  <1>9. /\ CanonOnly(told, left)
        /\ Node(left, <<"canon", "dev">>) = Node(told, <<"canon", "dev">>)
        /\ ~ownPerl => left = told
    BY <1>2, <1>8, PerlIs
  <1>10. left = Perl(told, ownPerl)
    OBVIOUS
  <1> HIDE DEF left
  <1>11. /\ pc = "reconcile" /\ pc' = "dpkg"
         /\ UNCHANGED <<traits, payload, index, registry, list, status, strayed, ownPerl>>
    BY DEF Reconciles
  <1>12. QED BY <1>3, <1>5, <1>6, <1>7, <1>9, <1>10, <1>11

LEMMA TreesStep ==
    ASSUME RootfsTypeOK, Next
    PROVE  stage' \in Trees /\ sysroot' \in Trees /\ final' \in Trees
  <1>1. stage \in Trees /\ sysroot \in Trees /\ final \in Trees
    BY DEF RootfsTypeOK
  <1>2. \A t \in Trees : Normalise(t) \in Trees
    BY NormaliseKept DEF Kept
  <1>3. CASE Prepare
    <2>1. final' = final /\ ownPerl' \in BOOLEAN
      BY <1>3, PrepareIs
    <2>2. PICK wide \in BOOLEAN :
             \/ /\ payload' = payload /\ stage' = stage
                /\ sysroot' = Prepared(sysroot, wide, ownPerl')
                /\ (strayed => strayed') /\ (ownPerl => ownPerl')
             \/ /\ stage' = Unpacked(Bare(stage.merged), Payload(FALSE))
                /\ sysroot' = Prepared(Unpacked(Bare(sysroot.merged), Payload(TRUE)), wide,
                                       ownPerl')
      BY <1>3, PrepareIs
    <2>3. /\ Unpacked(Bare(stage.merged), Payload(FALSE)) \in Trees
          /\ Unpacked(Bare(sysroot.merged), Payload(TRUE)) \in Trees
      BY <1>1, SeedIs
    <2>4. QED BY <1>1, <2>1, <2>2, <2>3, PreparedIs
  <1>4. CASE Build
    <2>1. PICK d \in LibDirs, v \in Exact, wide \in BOOLEAN :
             sysroot' = Prepared(Put(Put(Put(sysroot, <<d, v>>, File("port")),
                                         <<d, "soname">>, LinkTo(<<d, v>>)),
                                     <<d, "dev">>, LinkTo(<<d, "soname">>)), wide, ownPerl')
      BY <1>4, BuildIs
    <2>2. d \in Dirs
      BY RootfsAssumption
    <2>3. ownPerl' \in BOOLEAN /\ stage' = stage /\ final' = final
      BY <1>4, BuildIs DEF RootfsTypeOK
    <2> DEFINE u == Put(Put(Put(sysroot, <<d, v>>, File("port")), <<d, "soname">>, LinkTo(<<d, v>>)),
                        <<d, "dev">>, LinkTo(<<d, "soname">>))
    <2>4. u \in Trees
      BY <1>1, <2>2, ScriptIs DEF SameFlags
    <2>5. sysroot' = Prepared(u, wide, ownPerl')
      BY <2>1
    <2> HIDE DEF u
    <2>6. sysroot' \in Trees
      BY <2>3, <2>4, <2>5, PreparedIs
    <2>7. QED BY <1>1, <2>3, <2>6
  <1>5. CASE Assemble
    BY <1>1, <1>5, AssembledIs DEF Assemble
  <1>6. CASE Layout
    BY <1>1, <1>2, <1>6, UsrMergeIs DEF Layout
  <1>7. CASE Reconciles
    <2>1. \E told, left : CanonOnly(told, left) /\ final' \in {left, Normalise(left)}
      BY <1>7, ReconcilesIs
    <2>2. final' \in Trees
      BY <1>2, <2>1 DEF CanonOnly, SameFlags
    <2>3. QED BY <1>1, <1>7, <2>2 DEF Reconciles
  <1>8. CASE Prune
    BY <1>1, <1>8, DropIs DEF Prune, SameFlags
  <1>9. CASE Settle
    BY <1>1, <1>2, <1>9 DEF Settle
  <1>10. CASE \/ Publish \/ PrepareStops \/ PortsDone \/ Sync \/ Register \/ Seed \/ Verify \/ Restart
    BY <1>1, <1>10 DEF Publish, PrepareStops, PortsDone, Sync, Register, Seed, Verify, Restart
  <1>11. QED BY <1>3, <1>4, <1>5, <1>6, <1>7, <1>8, <1>9, <1>10 DEF Next

LEMMA PresentIs ==
    ASSUME RootfsTypeOK
    PROVE  /\ \A dev \in BOOLEAN : Present(dev) \subseteq Payload(dev) /\ Present(dev) \subseteq Files
           /\ Present(FALSE) \subseteq Present(TRUE)
  BY PayloadIs DEF Present

LEMMA ScalarsStep ==
    ASSUME RootfsTypeOK, Next
    PROVE  /\ traits' \in Traits
           /\ release' \in Releases /\ index' \in 0..MaxRelease /\ payload' \in 0..MaxRelease
           /\ built' \subseteq Packages
           /\ pc' \in {"prepare", "build", "assemble", "layout", "sync", "registries", "reconcile",
                        "dpkg", "prune", "settle", "verify", "done", "failed"}
           /\ steps' \in 0..MaxSteps
           /\ ownPerl' \in BOOLEAN /\ (ownPerl' => traits'.family = "perl")
           /\ tool' \in BOOLEAN
           /\ strayed' \in BOOLEAN
  <1> USE RootfsAssumption DEF RootfsTypeOK, Releases
  <1>1. CASE Prepare
    <2>1. /\ index' \in {index, release} /\ (index = 0 => index' = release) /\ payload' = index'
          /\ pc' = "build" /\ strayed' \in BOOLEAN /\ ownPerl' \in BOOLEAN /\ (ownPerl' => ownPerl)
          /\ UNCHANGED <<traits, release, built, steps, tool>>
      BY <1>1, PrepareIs
    <2>2. QED BY <2>1
  <1>2. CASE Build
    <2>1. /\ pc' \in {"build", "failed"} /\ ownPerl' \in {ownPerl, traits.family = "perl"}
          /\ UNCHANGED <<traits, release, index, payload, tool>>
      BY <1>2, BuildIs
    <2>2. built' \in {built, built \cup {"lib"}, built \cup {"tool"}} /\ steps < MaxSteps
          /\ steps' = steps + 1
      BY <1>2 DEF Build, Count
    <2>3. PICK d \in LibDirs : strayed' = (strayed \/ d \notin {"lib", "canon"})
      BY <1>2, BuildIs
    <2>4. ownPerl' \in BOOLEAN /\ (ownPerl' => traits'.family = "perl")
      <3>1. ownPerl' = ownPerl \/ ownPerl' = (traits.family = "perl")
        BY <2>1
      <3>2. QED BY <2>1, <3>1
    <2>5. built' \subseteq Packages /\ steps' \in 0..MaxSteps
      BY <2>2 DEF Packages
    <2>6. strayed' \in BOOLEAN
      BY <2>3
    <2>7. /\ traits' \in Traits /\ release' \in Releases
          /\ index' \in 0..MaxRelease /\ payload' \in 0..MaxRelease /\ tool' \in BOOLEAN
      BY <2>1
    <2>8. pc' \in {"build", "failed"}
      BY <2>1
    <2>9. QED BY <2>4, <2>5, <2>6, <2>7, <2>8
  <1>3. CASE \/ Publish \/ PrepareStops \/ PortsDone \/ Restart
    BY <1>3 DEF Publish, PrepareStops, PortsDone, Restart, Count
  <1>4. CASE \/ Assemble \/ Layout \/ Sync \/ Register \/ Reconciles \/ Seed \/ Prune \/ Settle
             \/ Verify
    <2>1. UNCHANGED <<traits, release, index, payload, built, steps, ownPerl, strayed>>
      BY <1>4 DEF Assemble, Layout, Sync, Register, Reconciles, Seed, Prune, Settle, Verify
    <2>2. pc' \in {"layout", "sync", "registries", "reconcile", "dpkg", "prune", "settle",
                   "verify", "done", "failed"}
      BY <1>4 DEF Assemble, Layout, Sync, Register, Reconciles, Seed, Prune, Settle, Verify
    <2>3. tool' \in {tool, FALSE, traits.family = "tools"}
      BY <1>4 DEF Assemble, Layout, Sync, Register, Reconciles, Seed, Prune, Settle, Verify
    <2>4. tool' \in BOOLEAN
      <3>1. tool' = tool \/ tool' = FALSE \/ tool' = (traits.family = "tools")
        BY <2>3
      <3>2. QED BY <3>1
    <2>5. QED BY <2>1, <2>2, <2>4
  <1>5. QED BY <1>1, <1>2, <1>3, <1>4 DEF Next

LEMMA RecordsStep ==
    ASSUME RootfsTypeOK, Next
    PROVE  /\ status' \in [Packages -> 0..AsBuilt]
           /\ registry' \in [version : 0..MaxRelease, files : SUBSET Files]
           /\ list' \subseteq Files
  <1> DEFINE Records == /\ status \in [Packages -> 0..AsBuilt]
                        /\ registry \in [version : 0..MaxRelease, files : SUBSET Files]
                        /\ list \subseteq Files
  <1>0. Records
    BY DEF RootfsTypeOK
  <1>1. /\ MaxRelease \in Nat /\ AsBuilt \in 0..AsBuilt /\ 0 \in 0..AsBuilt
        /\ \A r \in 0..MaxRelease : r \in 0..AsBuilt
        /\ index \in 0..MaxRelease /\ payload \in 0..MaxRelease /\ 0 \in 0..MaxRelease
    BY RootfsAssumption DEF RootfsTypeOK, AsBuilt
  <1>2. \A v \in 0..AsBuilt : [lib |-> v, tool |-> 0] \in [Packages -> 0..AsBuilt]
    BY <1>1 DEF Packages
  <1>3. Present(TRUE) \subseteq Files /\ Present(FALSE) \subseteq Files
    BY PresentIs
  <1>4. CASE Assemble
    <2>1. status' = [lib |-> IF Payload(FALSE) = {} THEN 0 ELSE payload, tool |-> 0]
          /\ registry' = [version |-> 0, files |-> {}] /\ list' = {}
      BY <1>4 DEF Assemble, Absent
    <2>2. QED BY <1>1, <1>2, <2>1
  <1>5. CASE Sync
    <2>1. status' = [p \in Packages |-> IF p \in built THEN AsBuilt ELSE status[p]]
          /\ registry' = registry /\ list' = list
      BY <1>5 DEF Sync
    <2>2. QED BY <1>0, <1>1, <2>1
  <1>6. CASE Register
    <2>1. /\ registry' = [version |-> IF Present(TRUE) = {} THEN 0 ELSE index,
                          files |-> Present(TRUE)]
          /\ status' = status /\ list' = list
      BY <1>6 DEF Register
    <2>2. QED BY <1>0, <1>1, <1>3, <2>1
  <1>7. CASE Seed
    <2>1. /\ status' = [lib |-> IF Present(FALSE) = {} THEN 0 ELSE index, tool |-> 0]
          /\ list' = Present(FALSE) /\ registry' = registry
      BY <1>7 DEF Seed, Absent
    <2>2. QED BY <1>0, <1>1, <1>2, <1>3, <2>1
  <1>8. CASE Prepare
    BY <1>0, <1>8, PrepareIs
  <1>9. CASE \/ Publish \/ PrepareStops \/ Build \/ PortsDone \/ Layout \/ Reconciles \/ Prune
             \/ Settle \/ Verify \/ Restart
    <2>1. UNCHANGED <<status, registry, list>>
      BY <1>9 DEF Publish, PrepareStops, Build, PortsDone, Layout, Reconciles, Prune, Settle,
                  Verify, Restart
    <2>2. QED BY <1>0, <2>1
  <1>10. QED BY <1>4, <1>5, <1>6, <1>7, <1>8, <1>9 DEF Next

LEMMA RootfsTypeStep == RootfsTypeOK /\ [Next]_vars => RootfsTypeOK'
  <1>1. CASE Next
    BY <1>1, TreesStep, ScalarsStep, RecordsStep DEF RootfsTypeOK
  <1>2. CASE UNCHANGED vars
    BY <1>2 DEF RootfsTypeOK, vars
  <1>3. QED BY <1>1, <1>2

\* Types of the stages, the final tree and the records about it, for any number of
\* releases of the archive, of builds, interruptions and restarts.
THEOREM RootfsTypeCorrect == Spec => []RootfsTypeOK
  <1>1. QED BY RootfsInit, RootfsTypeStep, PTL DEF Spec

-----------------------------------------------------------------------------
(* The tree that is being finalised is merged and normal from the layout   *)
(* on.  To normalise such a tree gives the canonical directory no file and *)
(* changes nothing that is in it.                                          *)

Sealed == {"sync", "registries", "reconcile", "dpkg", "prune", "settle", "verify", "done"}

LaidInv == pc \in Sealed => final.merged /\ Normal(final)

\* Directories that no alias leads to or from.
LEMMA PlainDir ==
    ASSUME NEW t \in Trees, NEW n \in Names, NEW d \in {"canon", "usrlib64", "dup", "top"}
    PROVE  <<d, n>> \in Places /\ Alias(t, <<d, n>>) = <<d, n>> /\ Node(t, <<d, n>>) = t.at[<<d, n>>]
  <1>1. Alias(t, <<d, n>>) = <<d, n>>
    BY AliasOf
  <1>2. QED BY <1>1, PlaceOf DEF Dirs, Node

LEMMA UsrMergeNormal ==
    ASSUME NEW t \in Trees, Normal(t)
    PROVE  Normal(UsrMerge(t)) /\ UsrMerge(t).merged
  <1> DEFINE u == UsrMerge(t)
  <1>1. PICK w : /\ Moved(t, w, "lib", "canon") /\ u \in Trees /\ u.merged
                 /\ u.lib64 = t.lib64 /\ u.at = w.at
    BY UsrMergeIs
  <1> HIDE DEF u
  <1>2. ASSUME NEW n \in Names, NEW d \in {"usrlib64", "dup", "top"}
        PROVE  Node(u, <<d, n>>) = Node(t, <<d, n>>)
    <2>1. \A m \in Names : Alias(t, <<d, n>>) \notin {Alias(t, <<"lib", m>>), Alias(t, <<"canon", m>>)}
      <3>1. TAKE m \in Names
      <3>2. /\ Alias(t, <<"lib", m>>) \in {<<"lib", m>>, <<"canon", m>>}
            /\ Alias(t, <<"canon", m>>) = <<"canon", m>> /\ Alias(t, <<d, n>>) = <<d, n>>
        BY AliasOf
      <3>3. QED BY <3>2
    <2>2. Node(w, <<d, n>>) = Node(t, <<d, n>>)
      BY <1>1, <2>1, PlainDir DEF Moved
    <2>3. w \in Trees
      BY <1>1 DEF Moved, SameFlags
    <2>4. Node(w, <<d, n>>) = w.at[<<d, n>>]
      BY <2>3, PlainDir
    <2>5. Node(u, <<d, n>>) = u.at[<<d, n>>]
      BY <1>1, PlainDir
    <2>6. QED BY <1>1, <2>2, <2>4, <2>5
  <1>3. Normal(u)
    BY <1>1, <1>2 DEF Normal
  <1>4. QED BY <1>1, <1>3 DEF u

LEMMA DropNormal ==
    ASSUME NEW t \in Trees, Normal(t)
    PROVE  Normal(Drop(t)) /\ Drop(t).merged = t.merged
  <1> DEFINE u == Drop(t)
  <1>1. SameFlags(t, u) /\ u \in Trees
    BY DropIs DEF SameFlags
  <1>2. ASSUME NEW n \in Names, NEW d \in {"usrlib64", "dup", "top"}
        PROVE  Node(u, <<d, n>>) = Node(t, <<d, n>>)
    <2>1. <<d, n>> \in Places /\ Node(t, <<d, n>>) = t.at[<<d, n>>]
      BY PlainDir
    <2>2. Node(u, <<d, n>>) = u.at[<<d, n>>]
      BY <1>1, PlainDir
    <2>3. u.at[<<d, n>>] = t.at[<<d, n>>]
      BY <2>1, DropIs
    <2>4. QED BY <2>1, <2>2, <2>3
  <1> HIDE DEF u
  <1>3. Normal(u)
    BY <1>1, <1>2 DEF Normal, SameFlags
  <1>4. QED BY <1>1, <1>3 DEF u, SameFlags

LEMMA CanonOnlyNormal ==
    ASSUME NEW t, NEW u, CanonOnly(t, u), Normal(t)
    PROVE  Normal(u) /\ u.merged = t.merged
  <1>1. t \in Trees /\ u \in Trees /\ SameFlags(t, u)
    BY DEF CanonOnly, SameFlags
  <1>2. ASSUME NEW n \in Names, NEW d \in {"usrlib64", "dup", "top"}
        PROVE  Node(u, <<d, n>>) = Node(t, <<d, n>>)
    <2>1. Alias(t, <<d, n>>) = <<d, n>> /\ <<d, n>> \in Places
      BY <1>1, PlainDir
    <2>2. Alias(t, <<d, n>>)[1] # "canon"
      BY <2>1
    <2>3. QED BY <2>1, <2>2 DEF CanonOnly
  <1>3. QED BY <1>1, <1>2 DEF Normal, SameFlags

LEMMA LaidInit == Init => LaidInv
  BY DEF Init, LaidInv, Sealed

LEMMA LaidStep == RootfsTypeOK /\ LaidInv /\ [Next]_vars => LaidInv'
  <1> SUFFICES ASSUME RootfsTypeOK, LaidInv, [Next]_vars PROVE LaidInv'
    OBVIOUS
  <1>1. final \in Trees
    BY DEF RootfsTypeOK
  <1>2. CASE Layout
    <2>1. Normalise(final) \in Trees /\ Normal(Normalise(final))
      BY <1>1, NormaliseKept DEF Kept
    <2>2. QED BY <1>2, <2>1, UsrMergeNormal DEF Layout, LaidInv
  <1>3. CASE Reconciles
    <2>1. /\ pc = "reconcile"
          /\ \E turned, told, left : /\ CanonOnly(final, turned) /\ CanonOnly(turned, told)
                                     /\ CanonOnly(told, left)
                                     /\ final' \in {left, Normalise(left)}
      BY <1>3, ReconcilesIs
    <2>2. PICK left : CanonOnly(final, left) /\ final' \in {left, Normalise(left)}
      BY <2>1, CanonOnlyTwice
    <2>3. final.merged /\ Normal(final)
      BY <2>1 DEF LaidInv, Sealed
    <2>4. left \in Trees /\ left.merged /\ Normal(left)
      BY <2>2, <2>3, CanonOnlyNormal DEF Normal
    <2>5. Normalise(left).merged /\ Normal(Normalise(left))
      BY <2>4, NormaliseKept DEF Kept
    <2>6. QED BY <2>2, <2>4, <2>5 DEF LaidInv
  <1>4. CASE Prune
    BY <1>1, <1>4, DropNormal DEF Prune, LaidInv, Sealed
  <1>5. CASE Settle
    BY <1>1, <1>5, NormaliseKept DEF Settle, LaidInv, Sealed, Kept
  <1>6. CASE Prepare
    BY <1>6, PrepareIs DEF LaidInv, Sealed
  <1>7. CASE \/ Publish \/ PrepareStops \/ Build \/ PortsDone \/ Assemble \/ Sync \/ Register \/ Seed
             \/ Verify \/ Restart \/ UNCHANGED vars
    BY <1>7 DEF Publish, PrepareStops, Build, PortsDone, Assemble, Sync, Register, Seed, Verify,
                Restart, vars, LaidInv, Sealed
  <1>8. QED BY <1>2, <1>3, <1>4, <1>5, <1>6, <1>7 DEF Next

\* Names of the canonical directory are made, as links, and never changed.
Steady(t, u) ==
    \A n \in Names : \/ Node(u, <<"canon", n>>) = Node(t, <<"canon", n>>)
                     \/ /\ Node(t, <<"canon", n>>) = None
                        /\ Node(u, <<"canon", n>>).is # "file"

LEMMA NormaliseSteady ==
    ASSUME NEW t \in Trees, Normal(t), t.merged
    PROVE  Steady(t, Normalise(t))
  <1> DEFINE w == ForNames(MoveUp, t)
  <1>1. Migrate(t) = t
    <2>1. MoveDir(t, "usrlib64", "canon") = t
      BY MoveDirNothing DEF Normal, Dirs
    <2>2. QED BY <2>1 DEF Migrate, Normal
  <1>2. Deduplicate(t) = t
    BY MoveDirNothing DEF Normal, Dirs, Deduplicate
  <1>3. Unshadow(t) = t
    BY DEF Unshadow
  <1>4. Normalise(t) = LinkLib64(w)
    BY <1>1, <1>2, <1>3 DEF Normalise
  <1>5. PICK a, b, c : /\ Lifted(t, a, "dev") /\ Lifted(a, b, "soname") /\ Lifted(b, c, "v1")
                       /\ Lifted(c, w, "v2")
    BY MoveUpsAre
  <1> HIDE DEF w
  <1>6. SameFlags(t, a) /\ SameFlags(t, b) /\ SameFlags(t, c) /\ SameFlags(t, w)
    BY <1>5 DEF Lifted, SameFlags
  <1>7. \A q : Alias(a, q) = Alias(t, q) /\ Alias(b, q) = Alias(t, q) /\ Alias(c, q) = Alias(t, q)
    BY <1>6, SameAlias
  <1>8. ASSUME NEW n \in Names
        PROVE  \/ Node(w, <<"canon", n>>) = Node(t, <<"canon", n>>)
               \/ /\ Node(t, <<"canon", n>>) = None
                  /\ Node(w, <<"canon", n>>).is # "file"
    <2> DEFINE top == <<"top", n>>
               canon == <<"canon", n>>
               Step(x, y) ==
                  \/ y = x
                  \/ Node(x, canon) # None /\ Node(y, canon) = Node(x, canon)
                  \/ Node(x, canon) = None /\ Node(y, canon).is # "file"
               Still(x, y) == Node(y, canon) = Node(x, canon) /\ Node(y, top) = Node(x, top)
    <2>1. /\ top \in Places /\ canon \in Places /\ Alias(t, top) = top /\ Alias(t, canon) = canon
          /\ \A m \in Names : m # n => /\ top \notin {<<"top", m>>, <<"canon", m>>}
                                       /\ canon \notin {<<"top", m>>, <<"canon", m>>}
      BY PlainDir
    <2>2. Node(t, top) = None \/ Node(t, top).is = "link"
      <3>1. Node(t, top) \in {None, LinkTo(<<"canon", n>>)}
        BY DEF Normal
      <3>2. LinkTo(<<"canon", n>>).is = "link"
        BY DEF LinkTo
      <3>3. QED BY <3>1, <3>2
    <2>3. n # "dev" => Still(t, a)
      BY <1>5, <2>1, NamesAre DEF Lifted
    <2>4. n # "soname" => Still(a, b)
      BY <1>5, <1>7, <2>1, NamesAre DEF Lifted
    <2>5. n # "v1" => Still(b, c)
      BY <1>5, <1>7, <2>1, NamesAre DEF Lifted
    <2>6. n # "v2" => Still(c, w)
      BY <1>5, <1>7, <2>1, NamesAre DEF Lifted
    <2>7. CASE n = "dev"
      <3>1. Step(t, a)
        BY <1>5, <2>2, <2>7 DEF Lifted
      <3>2. QED BY <2>4, <2>5, <2>6, <2>7, <3>1
    <2>8. CASE n = "soname"
      <3>1. Step(a, b)
        BY <1>5, <2>2, <2>3, <2>8 DEF Lifted
      <3>2. QED BY <2>3, <2>5, <2>6, <2>8, <3>1
    <2>9. CASE n = "v1"
      <3>1. Step(b, c)
        BY <1>5, <2>2, <2>3, <2>4, <2>9 DEF Lifted
      <3>2. QED BY <2>3, <2>4, <2>6, <2>9, <3>1
    <2>10. CASE n = "v2"
      <3>1. Step(c, w)
        BY <1>5, <2>2, <2>3, <2>4, <2>5, <2>10 DEF Lifted
      <3>2. QED BY <2>3, <2>4, <2>5, <2>10, <3>1
    <2>11. QED BY <2>7, <2>8, <2>9, <2>10, NamesAre
  <1>9. ASSUME NEW n \in Names
        PROVE  Node(LinkLib64(w), <<"canon", n>>) = Node(w, <<"canon", n>>)
    <2>1. w \in Trees
      BY <1>6 DEF SameFlags
    <2>2. <<"canon", n>> \in Places
      BY PlaceOf DEF Dirs
    <2>3. QED BY <2>1, <2>2, LinkLib64Is
  <1>10. QED BY <1>4, <1>8, <1>9 DEF Steady

-----------------------------------------------------------------------------
(* The records.  Once prepare_rootfs has ended the cached index and the    *)
(* payload of the stages are of one release, and what is listed is in the  *)
(* canonical directory, which loses a name to the normalisers after the    *)
(* registry and to the pruning only.                                       *)

VersionInv ==
    /\ pc # "prepare" => index = payload
    /\ pc \in {"reconcile", "dpkg", "prune", "settle", "verify", "done"} =>
          registry.version \in {0, payload}
    /\ pc \in {"prune", "settle", "verify", "done"} => status["lib"] \in {Absent, payload}

Told == {"dpkg", "prune", "settle", "verify", "done"}

ListInv ==
    /\ pc \in {"reconcile"} \cup Told => registry.files \subseteq Payload(TRUE)
    /\ pc = "reconcile" => \A p \in registry.files : Has(p)
    /\ pc \in Told /\ ~Unneeded => \A p \in registry.files : Has(p) \/ RemovedLater(p)
    /\ pc \in Told \ {"dpkg"} =>
          /\ list \subseteq Payload(FALSE)
          /\ ~Unneeded => \A p \in list : Has(p)

LEMMA VersionInit == Init => VersionInv
  BY DEF Init, VersionInv

LEMMA VersionStep == RootfsTypeOK /\ VersionInv /\ [Next]_vars => VersionInv'
  <1> SUFFICES ASSUME RootfsTypeOK, VersionInv, [Next]_vars PROVE VersionInv'
    OBVIOUS
  <1>1. CASE Prepare
    <2>1. pc' = "build" /\ payload' = index'
      BY <1>1, PrepareIs
    <2>2. QED BY <2>1 DEF VersionInv
  <1>2. CASE Register
    BY <1>2 DEF Register, VersionInv
  <1>3. CASE Seed
    BY <1>3 DEF Seed, VersionInv
  <1>4. CASE \/ Publish \/ PrepareStops \/ Build \/ PortsDone \/ Assemble \/ Layout \/ Sync
             \/ Reconciles \/ Prune \/ Settle \/ Verify \/ Restart \/ UNCHANGED vars
    BY <1>4 DEF Publish, PrepareStops, Build, PortsDone, Assemble, Layout, Sync, Reconciles, Prune,
                Settle, Verify, Restart, vars, VersionInv
  <1>5. QED BY <1>1, <1>2, <1>3, <1>4 DEF Next

LEMMA ListInit == Init => ListInv
  BY DEF Init, ListInv, Told

LEMMA PayloadCanon ==
    ASSUME RootfsTypeOK, NEW t \in Trees, t.merged, NEW p \in Payload(TRUE) \ {Tool}
    PROVE  \E n \in {"v1", "soname", "dev"} :
              /\ p[2] = n /\ Alias(t, p) = <<"canon", n>> /\ Alias(t, <<"canon", n>>) = <<"canon", n>>
  <1>1. traits.at \in {"lib", "canon"} /\ p \in Debian(traits.at, TRUE)
    BY PayloadIs
  <1>2. PICK n \in {"v1", "soname", "dev"} : p = <<"lib", n>> \/ p = <<"canon", n>>
    BY <1>1 DEF Debian
  <1>3. n \in Names
    BY NamesAre
  <1>4. Alias(t, p) = <<"canon", n>> /\ Alias(t, <<"canon", n>>) = <<"canon", n>>
    BY <1>2, <1>3, AliasOf
  <1>5. p[2] = n
    BY <1>2
  <1>6. QED BY <1>4, <1>5

\* A file of the package is there when a name of the canonical directory is.
LEMMA HasKept ==
    ASSUME RootfsTypeOK, NEW t \in Trees, t.merged, NEW u \in Trees, u.merged,
           NEW p \in Payload(TRUE) \ {Tool}, Node(t, p) # None,
           Node(t, <<"canon", p[2]>>) # None => Node(u, <<"canon", p[2]>>) # None
    PROVE  Node(u, p) # None
  <1>1. PICK n \in {"v1", "soname", "dev"} :
           /\ p[2] = n /\ Alias(t, p) = <<"canon", n>> /\ Alias(t, <<"canon", n>>) = <<"canon", n>>
    BY PayloadCanon
  <1>2. \E m \in {"v1", "soname", "dev"} :
           /\ p[2] = m /\ Alias(u, p) = <<"canon", m>> /\ Alias(u, <<"canon", m>>) = <<"canon", m>>
    BY PayloadCanon
  <1>3. Node(t, p) = Node(t, <<"canon", p[2]>>) /\ Node(u, p) = Node(u, <<"canon", p[2]>>)
    BY <1>1, <1>2 DEF Node
  <1>4. QED BY <1>3

LEMMA NormaliseHas ==
    ASSUME RootfsTypeOK, NEW t \in Trees, t.merged, NEW p \in Payload(TRUE) \ {Tool},
           Node(t, p) # None
    PROVE  Node(Normalise(t), p) # None
  <1>1. Normalise(t) \in Trees /\ Normalise(t).merged
    BY NormaliseKept DEF Kept
  <1>2. p[2] \in Names
    BY PayloadCanon, NamesAre
  <1>3. Node(t, <<"canon", p[2]>>) # None => Node(Normalise(t), <<"canon", p[2]>>) # None
    BY <1>2, NormaliseKept DEF Kept
  <1>4. QED BY <1>1, <1>3, HasKept

\* What the normalisers after the registry remove of it is listed in RemovedLater.
LEMMA ReconcilesKeep ==
    ASSUME RootfsTypeOK, LaidInv, Reconciles, NEW p \in Payload(TRUE) \ {Tool},
           Node(final, p) # None
    PROVE  Node(final', p) # None \/ RemovedLater(p)
  <1>1. pc = "reconcile" /\ final \in Trees /\ final.merged
    BY ReconcilesIs DEF RootfsTypeOK, LaidInv, Sealed
  <1>2. PICK turned, told, left :
           /\ turned = IF Provided THEN Reconcile(final, "v1") ELSE final
           /\ CanonOnly(final, turned)
           /\ CanonOnly(turned, told) /\ Ncursed(turned, told)
           /\ left = Perl(told, ownPerl) /\ CanonOnly(told, left)
           /\ Node(left, <<"canon", "dev">>) = Node(told, <<"canon", "dev">>)
           /\ ~ownPerl => left = told
           /\ final' \in {left, Normalise(left)}
    BY ReconcilesIs
  <1>3. /\ turned \in Trees /\ told \in Trees /\ left \in Trees
        /\ turned.merged /\ told.merged /\ left.merged
    BY <1>1, <1>2 DEF CanonOnly, SameFlags
  <1>4. PICK n \in {"v1", "soname", "dev"} : p[2] = n
    BY <1>1, PayloadCanon
  <1>5. n \in Exact <=> n = "v1"
    BY DEF Exact
  <1>6. Node(final, <<"canon", n>>) # None => Node(turned, <<"canon", n>>) # None
    <2>1. CASE ~Provided
      BY <1>2, <2>1
    <2>2. CASE Provided
      <3>1. Reconciled(final, turned)
        BY <1>1, <1>2, <2>2, ReconcileIs
      <3>2. /\ Node(turned, <<"canon", "v1">>) = Node(final, <<"canon", "v1">>)
            /\ Node(turned, <<"canon", "soname">>).is \in {"link", "file"}
            /\ Node(final, <<"canon", "dev">>) # None => Node(turned, <<"canon", "dev">>) # None
        BY <3>1 DEF Reconciled, LinkTo
      <3>3. None.is = "none"
        BY NodesAre
      <3>4. QED BY <3>2, <3>3
    <2>3. QED BY <2>1, <2>2
  <1>7. RemovedLater(p) \/ (Node(turned, <<"canon", n>>) # None => Node(told, <<"canon", n>>) # None)
    <2>1. CASE told = turned
      BY <2>1
    <2>2. CASE traits.family \in {"narrow", "wide"} /\ n = "v1"
      BY <1>4, <1>5, <2>2 DEF RemovedLater
    <2>3. CASE /\ traits.family = "narrow" /\ n # "v1"
               /\ Node(told, <<"canon", "soname">>) = Wide /\ Node(told, <<"canon", "dev">>) = Wide
      <3>1. Wide # None
        BY DEF Wide, None
      <3>2. QED BY <2>3, <3>1
    <2>4. CASE traits.family = "wide" /\ n # "v1" /\ Activated(turned, told)
      BY <2>4 DEF Activated
    <2>5. QED BY <1>2, <2>1, <2>2, <2>3, <2>4 DEF Ncursed
  <1>8. RemovedLater(p) \/ (Node(told, <<"canon", n>>) # None => Node(left, <<"canon", n>>) # None)
    <2>1. CASE ownPerl /\ n # "dev"
      BY <1>4, <2>1 DEF RemovedLater
    <2>2. CASE ~ownPerl \/ n = "dev"
      BY <1>2, <2>2
    <2>3. QED BY <2>1, <2>2
  <1>9. CASE RemovedLater(p)
    BY <1>9
  <1>10. CASE ~RemovedLater(p)
    <2>1. Node(final, <<"canon", p[2]>>) # None => Node(left, <<"canon", p[2]>>) # None
      BY <1>4, <1>6, <1>7, <1>8, <1>10
    <2>2. Node(left, p) # None
      BY <1>1, <1>3, <2>1, HasKept
    <2>3. Node(Normalise(left), p) # None
      BY <1>3, <2>2, NormaliseHas
    <2>4. QED BY <1>2, <2>2, <2>3
  <1>11. QED BY <1>9, <1>10

LEMMA ListStep == RootfsTypeOK /\ LaidInv /\ ListInv /\ [Next]_vars => ListInv'
  <1> SUFFICES ASSUME RootfsTypeOK, LaidInv, ListInv, [Next]_vars PROVE ListInv'
    OBVIOUS
  <1>1. CASE Register
    <2>1. Present(TRUE) \subseteq Payload(TRUE) /\ \A p \in Present(TRUE) : Has(p)
      BY DEF Present
    <2>2. /\ registry'.files = Present(TRUE) /\ Payload(TRUE)' = Payload(TRUE)
          /\ pc' = "reconcile"
      BY <1>1 DEF Register, Payload
    <2>3. \A p : Has(p)' <=> Has(p)
      BY <1>1 DEF Register, Has
    <2>4. QED BY <2>1, <2>2, <2>3 DEF ListInv, Told
  <1>2. CASE Reconciles
    <2>1. /\ pc = "reconcile" /\ pc' = "dpkg" /\ registry' = registry
          /\ traits' = traits /\ ownPerl' = ownPerl
      BY <1>2, ReconcilesIs
    <2>2. Payload(TRUE)' = Payload(TRUE) /\ \A p : RemovedLater(p)' <=> RemovedLater(p)
      BY <2>1 DEF Payload, RemovedLater
    <2>3. registry.files \subseteq Payload(TRUE) /\ \A p \in registry.files : Has(p)
      BY <2>1 DEF ListInv
    <2>4. ASSUME NEW p \in registry.files
          PROVE  Has(p)' \/ RemovedLater(p)
      <3>1. CASE p = Tool
        BY <3>1 DEF RemovedLater
      <3>2. CASE p # Tool
        <4>1. p \in Payload(TRUE) \ {Tool} /\ Node(final, p) # None
          BY <2>3, <3>2 DEF Has
        <4>2. Node(final', p) # None \/ RemovedLater(p)
          BY <1>2, <4>1, ReconcilesKeep
        <4>3. QED BY <3>2, <4>2 DEF Has
      <3>3. QED BY <3>1, <3>2
    <2>5. QED BY <2>1, <2>2, <2>3, <2>4 DEF ListInv, Told
  <1>3. CASE Seed
    <2>1. Present(FALSE) \subseteq Payload(FALSE) /\ \A p \in Present(FALSE) : Has(p)
      BY DEF Present
    <2>2. /\ list' = Present(FALSE) /\ registry' = registry /\ pc = "dpkg" /\ pc' = "prune"
          /\ traits' = traits /\ ownPerl' = ownPerl /\ final' = final /\ tool' = tool
      BY <1>3 DEF Seed
    <2>3. /\ \A dev \in BOOLEAN : Payload(dev)' = Payload(dev)
          /\ \A p : (Has(p)' <=> Has(p)) /\ (RemovedLater(p)' <=> RemovedLater(p))
          /\ Unneeded' <=> Unneeded
      BY <2>2 DEF Payload, Has, RemovedLater, Unneeded
    <2>4. QED BY <2>1, <2>2, <2>3 DEF ListInv, Told
  <1>4. CASE Prune \/ Settle
    <2>1. /\ pc \in {"prune", "settle"} /\ pc' \in {"settle", "verify"}
          /\ UNCHANGED <<traits, registry, list, ownPerl, tool>>
      BY <1>4 DEF Prune, Settle
    <2>2. ~Unneeded => final' \in {final, Normalise(final)}
      BY <1>4 DEF Prune, Settle
    <2>3. final \in Trees /\ final.merged
      BY <2>1 DEF RootfsTypeOK, LaidInv, Sealed
    <2>4. /\ \A dev \in BOOLEAN : Payload(dev)' = Payload(dev)
          /\ \A p : RemovedLater(p)' <=> RemovedLater(p)
          /\ Unneeded' <=> Unneeded
      BY <2>1 DEF Payload, RemovedLater, Unneeded
    <2>5. Payload(FALSE) \subseteq Payload(TRUE)
      BY PayloadIs
    <2>6. ASSUME ~Unneeded, NEW p \in Payload(TRUE), Has(p)
          PROVE  Has(p)'
      <3>1. CASE p = Tool
        BY <2>1, <2>6, <3>1 DEF Has
      <3>2. CASE p # Tool
        <4>1. p \in Payload(TRUE) \ {Tool} /\ Node(final, p) # None
          BY <2>6, <3>2 DEF Has
        <4>2. Node(Normalise(final), p) # None
          BY <2>3, <4>1, NormaliseHas
        <4>3. Node(final', p) # None
          BY <2>2, <2>6, <4>1, <4>2
        <4>4. QED BY <3>2, <4>3 DEF Has
      <3>3. QED BY <3>1, <3>2
    <2>7. /\ registry.files \subseteq Payload(TRUE) /\ list \subseteq Payload(FALSE)
          /\ ~Unneeded => /\ \A p \in registry.files : Has(p) \/ RemovedLater(p)
                          /\ \A p \in list : Has(p)
      BY <2>1 DEF ListInv, Told
    <2>8. /\ registry'.files \subseteq Payload(TRUE) /\ list' \subseteq Payload(FALSE)
          /\ ~Unneeded => /\ \A p \in registry'.files : Has(p)' \/ RemovedLater(p)
                          /\ \A p \in list' : Has(p)'
      BY <2>1, <2>5, <2>6, <2>7
    <2>9. QED BY <2>1, <2>4, <2>8 DEF ListInv, Told
  <1>5. CASE Verify \/ Publish \/ UNCHANGED vars
    <2>1. /\ UNCHANGED <<traits, registry, list, ownPerl, tool, final>>
          /\ pc' = pc \/ (pc = "verify" /\ pc' \in {"done", "failed"})
      BY <1>5 DEF Verify, Publish, vars
    <2>2. /\ \A dev \in BOOLEAN : Payload(dev)' = Payload(dev)
          /\ \A p : (Has(p)' <=> Has(p)) /\ (RemovedLater(p)' <=> RemovedLater(p))
          /\ Unneeded' <=> Unneeded
      BY <2>1 DEF Payload, Has, RemovedLater, Unneeded
    <2>3. QED BY <2>1, <2>2 DEF ListInv, Told
  <1>6. CASE \/ Prepare \/ PrepareStops \/ Build \/ PortsDone \/ Assemble \/ Layout \/ Sync
             \/ Restart
    <2>1. pc' \in {"prepare", "build", "failed", "assemble", "layout", "sync", "registries"}
      BY <1>6 DEF Prepare, PrepareStops, Build, PortsDone, Assemble, Layout, Sync, Restart
    <2>2. QED BY <2>1 DEF ListInv, Told
  <1>7. QED BY <1>1, <1>2, <1>3, <1>4, <1>5, <1>6 DEF Next

-----------------------------------------------------------------------------
(* The provider.  Where the Debian library is a file of the canonical      *)
(* directory, the SONAME leads to it and the other exact version is gone.  *)

Aligned(t) ==
    Node(t, <<"canon", "v1">>).is = "file" =>
        /\ \/ Node(t, <<"canon", "soname">>) = LinkTo(<<"canon", "v1">>)
           \/ Node(t, <<"canon", "soname">>).is = "file"
        /\ Node(t, <<"canon", "v2">>).is # "file"

\* What is left of it: the provider of its family, a link that provides nothing, nothing
\* but the wide library, or nothing.
Sole(t) ==
    LET v1 == Node(t, <<"canon", "v1">>)
        soname == Node(t, <<"canon", "soname">>)
    IN  \/ v1.is = "file" /\ Aligned(t)
        \/ v1.is \in {"link", "wide"}
        \/ /\ \/ traits.family = "narrow" /\ soname = Wide
              \/ traits.family = "wide" /\ soname.is = "file"
           /\ \A n \in Exact : Node(t, <<"canon", n>>).is # "file"
        \/ ownPerl
        \/ Unneeded /\ v1.is # "file"

ProviderInv ==
    pc \in Told => (traits.usable /\ <<"canon", "v1">> \in registry.files => Sole(final))

LEMMA AlignedSteady ==
    ASSUME NEW t \in Trees, NEW u \in Trees, Steady(t, u), Aligned(t)
    PROVE  Aligned(u)
  <1> SUFFICES ASSUME Node(u, <<"canon", "v1">>).is = "file"
               PROVE  /\ \/ Node(u, <<"canon", "soname">>) = LinkTo(<<"canon", "v1">>)
                         \/ Node(u, <<"canon", "soname">>).is = "file"
                      /\ Node(u, <<"canon", "v2">>).is # "file"
    BY DEF Aligned
  <1>1. Node(t, <<"canon", "v1">>).is = "file"
    BY NamesAre DEF Steady
  <1>2. Node(t, <<"canon", "soname">>) # None
    BY <1>1 DEF Aligned, None, LinkTo
  <1>3. Node(u, <<"canon", "soname">>) = Node(t, <<"canon", "soname">>)
    BY <1>2, NamesAre DEF Steady
  <1>4. Node(u, <<"canon", "v2">>).is # "file"
    BY <1>1, NamesAre DEF Steady, Aligned
  <1>5. QED BY <1>1, <1>3, <1>4 DEF Aligned

LEMMA SoleSteady ==
    ASSUME NEW t \in Trees, NEW u \in Trees, Steady(t, u), Sole(t)
    PROVE  Sole(u)
  <1> DEFINE v1 == <<"canon", "v1">>
             so == <<"canon", "soname">>
  <1>1. None.is = "none" /\ Wide.is = "wide"
    BY DEF None, Wide
  <1>2. /\ Node(u, v1) = Node(t, v1) \/ (Node(t, v1) = None /\ Node(u, v1).is # "file")
        /\ Node(u, so) = Node(t, so) \/ (Node(t, so) = None /\ Node(u, so).is # "file")
        /\ \A n \in Exact : \/ Node(u, <<"canon", n>>) = Node(t, <<"canon", n>>)
                            \/ Node(u, <<"canon", n>>).is # "file"
    BY NamesAre DEF Steady, Exact
  <1>3. CASE Node(t, v1).is = "file" /\ Aligned(t)
    <2>1. Aligned(u)
      BY <1>3, AlignedSteady
    <2>2. Node(u, v1).is = "file"
      BY <1>1, <1>2, <1>3
    <2>3. QED BY <2>1, <2>2 DEF Sole
  <1>4. CASE Node(t, v1).is \in {"link", "wide"}
    BY <1>1, <1>2, <1>4 DEF Sole
  <1>5. CASE /\ \/ traits.family = "narrow" /\ Node(t, so) = Wide
                \/ traits.family = "wide" /\ Node(t, so).is = "file"
             /\ \A n \in Exact : Node(t, <<"canon", n>>).is # "file"
    <2>1. Node(u, so) = Node(t, so)
      BY <1>1, <1>2, <1>5
    <2>2. \A n \in Exact : Node(u, <<"canon", n>>).is # "file"
      BY <1>2, <1>5
    <2>3. QED BY <1>5, <2>1, <2>2 DEF Sole
  <1>6. CASE ownPerl
    BY <1>6 DEF Sole
  <1>7. CASE Unneeded /\ Node(t, v1).is # "file"
    <2>1. Node(u, v1).is # "file"
      BY <1>2, <1>7
    <2>2. QED BY <1>7, <2>1 DEF Sole
  <1>8. QED BY <1>3, <1>4, <1>5, <1>6, <1>7 DEF Sole

LEMMA ReconciledAligned ==
    ASSUME NEW t \in Trees
    PROVE  Aligned(Reconcile(t, "v1"))
  BY ReconcileIs DEF Reconciled, Aligned

\* A link of the SONAME to the provider keeps it among the wide libraries.
LEMMA ActivatedSole ==
    ASSUME NEW t \in Trees, NEW u \in Trees, Activated(t, u), traits.family = "wide",
           Node(t, <<"canon", "v1">>).is = "file", Aligned(t)
    PROVE  Sole(u)
  <1> DEFINE v1 == <<"canon", "v1">>
             so == <<"canon", "soname">>
  <1>1. /\ Node(u, so) = Node(t, so)
        /\ Node(u, <<"canon", "v2">>) \in {None, Node(t, <<"canon", "v2">>)}
    BY DEF Activated, Exact
  <1>2. CASE Node(t, so) = LinkTo(v1)
    <2>1. Resolved(t, so) = v1
      <3>1. Hop(t, so) = v1
        BY <1>2 DEF Hop, LinkTo
      <3>2. Hop(t, v1) = v1
        BY DEF Hop
      <3>3. Alias(t, v1) = v1
        BY AliasOf, NamesAre
      <3>4. QED BY <3>1, <3>2, <3>3 DEF Resolved
    <2>2. Resolved(t, so)[2] = "v1"
      BY <2>1
    <2>3. Node(u, v1) = Node(t, v1)
      BY <2>2 DEF Activated
    <2>4. Node(u, <<"canon", "v2">>).is # "file"
      BY <1>1 DEF Aligned, None
    <2>5. Aligned(u)
      BY <1>1, <1>2, <2>4 DEF Aligned
    <2>6. QED BY <2>3, <2>5 DEF Sole
  <1>3. CASE Node(t, so).is = "file"
    <2>1. \A n \in Exact : Node(u, <<"canon", n>>).is # "file"
      BY <1>3 DEF Activated
    <2>2. QED BY <1>1, <1>3, <2>1 DEF Sole
  <1>4. QED BY <1>2, <1>3 DEF Aligned

LEMMA ProviderInit == Init => ProviderInv
  BY DEF Init, ProviderInv, Told

LEMMA ProviderReconciles ==
    ASSUME RootfsTypeOK, LaidInv, ListInv, Reconciles,
           traits.usable, <<"canon", "v1">> \in registry.files
    PROVE  Sole(final')
  <1> DEFINE v1 == <<"canon", "v1">>
             so == <<"canon", "soname">>
  <1>1. pc = "reconcile" /\ final \in Trees
    BY ReconcilesIs DEF RootfsTypeOK
  <1>2. final.merged /\ Normal(final)
    BY <1>1 DEF LaidInv, Sealed
  <1>3. Node(final, v1) # None
    <2>1. Has(v1)
      BY <1>1 DEF ListInv
    <2>2. v1 # Tool
      BY DEF Tool
    <2>3. QED BY <2>1, <2>2 DEF Has
  <1>4. PICK turned, told, left :
           /\ turned = IF Provided THEN Reconcile(final, "v1") ELSE final
           /\ CanonOnly(final, turned)
           /\ CanonOnly(turned, told) /\ Ncursed(turned, told)
           /\ CanonOnly(told, left)
           /\ ~ownPerl => left = told
           /\ final' \in {left, Normalise(left)}
    BY ReconcilesIs
  <1>5. turned \in Trees /\ told \in Trees /\ left \in Trees
    BY <1>4 DEF CanonOnly, SameFlags
  <1>6. CanonOnly(final, left)
    BY <1>4, CanonOnlyTwice
  <1>7. \/ Node(turned, v1).is = "file" /\ Aligned(turned)
        \/ Node(turned, v1).is \in {"link", "wide"}
    <2>1. CASE Provided
      <3>1. turned = Reconcile(final, "v1") /\ Node(final, v1).is = "file"
        BY <1>4, <2>1 DEF Provided
      <3>2. Node(turned, v1) = Node(final, v1)
        BY <1>1, <3>1, ReconcileIs DEF Reconciled
      <3>3. QED BY <1>1, <3>1, <3>2, ReconciledAligned
    <2>2. CASE ~Provided
      <3>1. turned = final /\ Node(final, v1).is # "file"
        BY <1>4, <2>2 DEF Provided
      <3>2. v1 \in Places
        BY PlaceOf, NamesAre DEF Dirs
      <3>3. Node(final, v1) \in Nodes
        BY <1>1, <3>2, NodeIs
      <3>4. Node(final, v1).is \in {"none", "file", "link", "wide"}
            /\ (Node(final, v1).is = "none" => Node(final, v1) = None)
        BY <3>3 DEF Nodes, None, File, Wide
      <3>5. QED BY <1>3, <3>1, <3>4
    <2>3. QED BY <2>1, <2>2
  <1>8. Sole(told)
    <2>1. CASE told = turned
      BY <1>7, <2>1 DEF Sole
    <2>2. CASE /\ traits.family = "narrow" /\ Node(told, so) = Wide
               /\ \A n \in Exact : Node(told, <<"canon", n>>).is # "file"
      BY <2>2 DEF Sole
    <2>3. CASE traits.family = "wide" /\ Activated(turned, told)
      <3>1. CASE Node(turned, v1).is = "file" /\ Aligned(turned)
        BY <1>5, <2>3, <3>1, ActivatedSole
      <3>2. CASE Node(turned, v1).is \in {"link", "wide"}
        <4>1. Node(told, v1) = Node(turned, v1)
          BY <2>3, <3>2 DEF Activated, Exact
        <4>2. QED BY <3>2, <4>1 DEF Sole
      <3>3. QED BY <1>7, <3>1, <3>2
    <2>4. QED BY <1>4, <2>1, <2>2, <2>3 DEF Ncursed
  <1>9. Sole(left)
    <2>1. CASE ownPerl
      BY <2>1 DEF Sole
    <2>2. CASE ~ownPerl
      BY <1>4, <1>8, <2>2
    <2>3. QED BY <2>1, <2>2
  <1>10. Normal(left) /\ left.merged
    BY <1>2, <1>6, CanonOnlyNormal
  <1>11. Sole(Normalise(left))
    <2>1. Steady(left, Normalise(left)) /\ Normalise(left) \in Trees
      BY <1>5, <1>10, NormaliseSteady, NormaliseKept DEF Kept
    <2>2. QED BY <1>5, <1>9, <2>1, SoleSteady
  <1>12. QED BY <1>4, <1>9, <1>11

LEMMA ProviderStep ==
    RootfsTypeOK /\ LaidInv /\ ListInv /\ ProviderInv /\ [Next]_vars => ProviderInv'
  <1> SUFFICES ASSUME RootfsTypeOK, LaidInv, ListInv, ProviderInv, [Next]_vars PROVE ProviderInv'
    OBVIOUS
  <1>1. final \in Trees
    BY DEF RootfsTypeOK
  <1>2. CASE Reconciles
    <2>1. UNCHANGED <<traits, registry, ownPerl>>
      BY <1>2, ReconcilesIs
    <2>2. traits.usable /\ <<"canon", "v1">> \in registry.files => Sole(final')
      BY <1>2, ProviderReconciles
    <2>3. Sole(final)' <=> Sole(final')
      BY <2>1 DEF Sole, Aligned, Unneeded
    <2>4. QED BY <2>1, <2>2, <2>3 DEF ProviderInv
  <1>3. CASE Prune \/ Settle
    <2>1. pc \in {"prune", "settle"} /\ UNCHANGED <<traits, registry, ownPerl>>
      BY <1>3 DEF Prune, Settle
    <2>2. Sole(final)' <=> Sole(final')
      BY <2>1 DEF Sole, Aligned, Unneeded
    <2>3. CASE Prune /\ Unneeded
      <3>1. Drop(final) \in Trees /\ "v1" \in Names
        BY <1>1, DropIs, NamesAre DEF SameFlags
      <3>2. Node(Drop(final), <<"canon", "v1">>) = None
        <4>1. <<"canon", "v1">> \in Places
          BY <3>1, PlaceOf DEF Dirs
        <4>2. Drop(final).at[<<"canon", "v1">>] = None
          BY <1>1, <4>1, DropIs
        <4>3. QED BY <3>1, <4>2, PlainDir
      <3>3. final' = Drop(final)
        BY <2>3 DEF Prune
      <3>4. Node(final', <<"canon", "v1">>).is # "file"
        BY <3>2, <3>3 DEF None
      <3>5. Sole(final')
        BY <2>3, <3>4 DEF Sole
      <3>6. QED BY <2>2, <3>5 DEF ProviderInv
    <2>4. CASE ~(Prune /\ Unneeded)
      <3>1. final' \in {final, Normalise(final)}
        BY <1>3, <2>4 DEF Prune, Settle
      <3>2. final.merged /\ Normal(final) /\ Normalise(final) \in Trees
        BY <1>1, <2>1, NormaliseKept DEF LaidInv, Sealed, Kept
      <3>3. Steady(final, Normalise(final))
        BY <1>1, <3>2, NormaliseSteady
      <3>4. Sole(final) => Sole(final')
        BY <1>1, <3>1, <3>2, <3>3, SoleSteady
      <3>5. traits.usable /\ <<"canon", "v1">> \in registry.files => Sole(final)
        BY <2>1 DEF ProviderInv, Told
      <3>6. QED BY <2>1, <2>2, <3>4, <3>5 DEF ProviderInv
    <2>5. QED BY <2>3, <2>4
  <1>4. CASE \/ Publish \/ Seed \/ Verify \/ UNCHANGED vars
    <2>1. /\ UNCHANGED <<traits, registry, ownPerl, final>>
          /\ pc' \in Told => pc \in Told
      BY <1>4 DEF Publish, Seed, Verify, vars, Told
    <2>2. Sole(final)' <=> Sole(final)
      BY <2>1 DEF Sole, Aligned, Unneeded
    <2>3. QED BY <2>1, <2>2 DEF ProviderInv
  <1>5. CASE \/ Prepare \/ PrepareStops \/ Build \/ PortsDone \/ Assemble \/ Layout \/ Sync
             \/ Register \/ Restart
    <2>1. pc' \in {"prepare", "build", "failed", "assemble", "layout", "sync", "registries",
                   "reconcile"}
      BY <1>5 DEF Prepare, PrepareStops, Build, PortsDone, Assemble, Layout, Sync, Register, Restart
    <2>2. QED BY <2>1 DEF ProviderInv, Told
  <1>6. QED BY <1>2, <1>3, <1>4, <1>5 DEF Next

LEMMA AlignedHasNoIssue ==
    ASSUME NEW t \in Trees, Aligned(t), Node(t, <<"canon", "v1">>).is = "file"
    PROVE  ~ProviderIssues(t, "v1")
  <1> DEFINE so == <<"canon", "soname">>
             v1 == <<"canon", "v1">>
  <1>1. Node(t, <<"canon", "v2">>).is # "file"
    BY DEF Aligned
  <1>2. ASSUME Node(t, so).is = "link"
        PROVE  Resolved(t, so) = v1
    <2>1. v1 \in Places /\ LinkTo(v1).to = v1 /\ LinkTo(v1).tree = "here"
      BY NodesAre, PlaceOf, NamesAre DEF Dirs
    <2>2. Node(t, so) = LinkTo(v1)
      BY <1>2 DEF Aligned
    <2>3. Hop(t, so) = v1
      BY <1>2, <2>1, <2>2 DEF Hop
    <2>4. Hop(t, v1) = v1
      BY DEF Hop
    <2>5. Alias(t, v1) = v1
      BY AliasOf, NamesAre
    <2>6. QED BY <2>3, <2>4, <2>5 DEF Resolved
  <1>3. Node(t, so).is # "wide"
    BY DEF Aligned, LinkTo
  <1>4. QED BY <1>1, <1>2, <1>3 DEF ProviderIssues, Exact

-----------------------------------------------------------------------------
(* The library.  As long as no port has installed it elsewhere, a tree has *)
(* it in the two multiarch directories only, and either its SONAME leads   *)
(* to a file there, or to the wide library, or nothing of it is there at   *)
(* all: with a library in the canonical directory what lies in lib is      *)
(* never asked for.                                                        *)

Multi(t) ==
    \A n \in Names, d \in {"lib64", "usrlib64", "dup", "top"} : Node(t, <<d, n>>) = None

Empty(t, d) == \A n \in Names : Node(t, <<d, n>>) = None

Leads(t, d) ==
    \E v \in Exact :
        /\ Node(t, <<d, v>>).is = "file"
        /\ Node(t, <<d, "soname">>).is = "link" /\ Node(t, <<d, "soname">>).tree = "here"
        /\ Alias(t, Node(t, <<d, "soname">>).to) = Alias(t, <<d, v>>)

Heads(t) == Leads(t, "canon") \/ Node(t, <<"canon", "soname">>) = Wide

Led(t)  == Heads(t) \/ (Empty(t, "canon") /\ Leads(t, "lib"))
Void(t) == Empty(t, "canon") /\ Empty(t, "lib")

Shaped(t) == t \in Trees /\ Multi(t) /\ (Led(t) \/ Void(t))

LEMMA LeadsFound ==
    ASSUME NEW t \in Trees, NEW d \in {"canon", "lib"}, Leads(t, d)
    PROVE  Found(t)
  <1> DEFINE so == <<d, "soname">>
  <1>1. PICK v \in Exact :
           /\ Node(t, <<d, v>>).is = "file"
           /\ Node(t, so).is = "link" /\ Node(t, so).tree = "here"
           /\ Alias(t, Node(t, so).to) = Alias(t, <<d, v>>)
    BY DEF Leads
  <1> DEFINE to == Node(t, so).to
  <1>2. <<d, v>> \in Places /\ so \in Places
    BY NamesAre, PlaceOf DEF Dirs, Exact
  <1>3. Hop(t, so) = to
    BY <1>1 DEF Hop
  <1>4. Node(t, to).is = "file"
    BY <1>1 DEF Node
  <1>5. Hop(t, to) = to
    BY <1>4 DEF Hop
  <1>6. Resolved(t, so) = Alias(t, to)
    BY <1>3, <1>5 DEF Resolved
  <1>7. Alias(t, Alias(t, to)) = Alias(t, to)
    BY <1>1, <1>2, AliasIs
  <1>8. Exists(t, so)
    BY <1>4, <1>6, <1>7 DEF Exists, Node
  <1>9. QED BY <1>8 DEF Found, Dirs

LEMMA HeadsFound ==
    ASSUME NEW t \in Trees, Heads(t)
    PROVE  Found(t)
  <1> DEFINE so == <<"canon", "soname">>
  <1>1. CASE Leads(t, "canon")
    BY <1>1, LeadsFound
  <1>2. CASE Node(t, so) = Wide
    <2>1. Node(t, so).is = "wide"
      BY <1>2 DEF Wide
    <2>2. Hop(t, so) = so
      BY <2>1 DEF Hop
    <2>3. Alias(t, so) = so
      BY AliasOf, NamesAre
    <2>4. Resolved(t, so) = so
      BY <2>2, <2>3 DEF Resolved
    <2>5. Exists(t, so)
      BY <2>1, <2>4 DEF Exists
    <2>6. QED BY <2>5 DEF Found, Dirs
  <1>3. QED BY <1>1, <1>2 DEF Heads

\* Nothing leads to nothing.
LEMMA VoidNothing ==
    ASSUME NEW t \in Trees, Multi(t), Void(t)
    PROVE  ~Found(t) /\ ~Here(t)
  <1>1. ASSUME NEW d \in Dirs, NEW n \in Names
        PROVE  Node(t, <<d, n>>) = None
    BY DEF Multi, Void, Empty, Dirs
  <1>2. ASSUME NEW d \in Dirs
        PROVE  ~Exists(t, <<d, "soname">>)
    <2> DEFINE so == <<d, "soname">>
    <2>1. Node(t, so) = None /\ so \in Places
      BY <1>1, NamesAre, PlaceOf
    <2>2. Hop(t, so) = so
      BY <2>1 DEF Hop, None
    <2>3. Resolved(t, so) = Alias(t, so)
      BY <2>2 DEF Resolved
    <2>4. Node(t, Resolved(t, so)) = Node(t, so)
      BY <2>1, <2>3, AliasIs DEF Node
    <2>5. QED BY <2>1, <2>4 DEF Exists, None
  <1>3. \A d \in Dirs, n \in Exact : Node(t, <<d, n>>).is # "file"
    <2>1. TAKE d \in Dirs, n \in Exact
    <2>2. Node(t, <<d, n>>) = None
      BY <1>1, NamesAre DEF Exact
    <2>3. QED BY <2>2 DEF None
  <1>4. QED BY <1>2, <1>3 DEF Found, Here

LEMMA ShapedFound ==
    ASSUME NEW t, Shaped(t)
    PROVE  (Found(t) <=> Led(t)) /\ (Here(t) => Found(t))
  BY LeadsFound, HeadsFound, VoidNothing DEF Shaped, Led

\* A library that is not touched leads where it led; lib64 does not matter to it.
LEMMA LeadsSame ==
    ASSUME NEW t \in Trees, NEW u \in Trees, u.merged = t.merged, NEW d \in {"canon", "lib"},
           \A n \in Names : Node(u, <<d, n>>) = Node(t, <<d, n>>)
    PROVE  (Leads(t, d) => Leads(u, d)) /\ (Empty(t, d) => Empty(u, d))
  <1>1. Empty(t, d) => Empty(u, d)
    BY DEF Empty
  <1>2. ASSUME Leads(t, d)
        PROVE  Leads(u, d)
    <2> DEFINE so == <<d, "soname">>
    <2>1. PICK v \in Exact :
             /\ Node(t, <<d, v>>).is = "file"
             /\ Node(t, so).is = "link" /\ Node(t, so).tree = "here"
             /\ Alias(t, Node(t, so).to) = Alias(t, <<d, v>>)
      BY <1>2 DEF Leads
    <2>2. Node(u, so) = Node(t, so) /\ Node(u, <<d, v>>) = Node(t, <<d, v>>)
      BY NamesAre DEF Exact
    <2>3. Node(t, so) \in Nodes
      BY NodeIs, PlaceOf, NamesAre DEF Dirs
    <2>4. Node(t, so).to \in Places
      BY <2>1, <2>3, NodesAre
    <2>5. Alias(u, <<d, v>>) = Alias(t, <<d, v>>)
      BY DEF Alias
    <2>6. Alias(t, <<d, v>>)[1] \in {"canon", "lib"}
      BY DEF Alias
    <2>7. \A p \in Places : Alias(t, p)[1] \in {"canon", "lib"} => Alias(u, p) = Alias(t, p)
      BY DEF Alias, Places
    <2>8. Alias(u, Node(t, so).to) = Alias(t, Node(t, so).to)
      BY <2>1, <2>4, <2>6, <2>7
    <2> HIDE DEF so
    <2>9. /\ Node(u, <<d, v>>).is = "file"
          /\ Node(u, so).is = "link" /\ Node(u, so).tree = "here"
          /\ Alias(u, Node(u, so).to) = Alias(u, <<d, v>>)
      BY <2>1, <2>2, <2>5, <2>8
    <2>10. QED BY <2>9 DEF Leads, so
  <1>3. QED BY <1>1, <1>2

LEMMA HeadsSame ==
    ASSUME NEW t \in Trees, NEW u \in Trees, u.merged = t.merged,
           \A n \in Names : Node(u, <<"canon", n>>) = Node(t, <<"canon", n>>)
    PROVE  (Heads(t) => Heads(u)) /\ (Empty(t, "canon") => Empty(u, "canon"))
  <1>1. (Leads(t, "canon") => Leads(u, "canon")) /\ (Empty(t, "canon") => Empty(u, "canon"))
    BY LeadsSame
  <1>2. QED BY <1>1, NamesAre DEF Heads

LEMMA ShapedSame ==
    ASSUME NEW t \in Trees, NEW u \in Trees, u.merged = t.merged,
           \A n \in Names, d \in Dirs : Node(u, <<d, n>>) = Node(t, <<d, n>>)
    PROVE  /\ Multi(t) => Multi(u)
           /\ Led(t) => Led(u)
           /\ Void(t) => Void(u)
           /\ Shaped(t) => Shaped(u)
  <1>1. Multi(t) => Multi(u)
    BY DEF Multi, Dirs
  <1>2. ASSUME NEW d \in {"canon", "lib"}
        PROVE  (Leads(t, d) => Leads(u, d)) /\ (Empty(t, d) => Empty(u, d))
    <2>1. \A n \in Names : Node(u, <<d, n>>) = Node(t, <<d, n>>)
      BY DEF Dirs
    <2>2. QED BY <2>1, LeadsSame
  <1>3. Heads(t) => Heads(u)
    BY HeadsSame DEF Dirs
  <1>4. (Led(t) => Led(u)) /\ (Void(t) => Void(u))
    BY <1>2, <1>3 DEF Led, Void
  <1>5. QED BY <1>1, <1>4 DEF Shaped

\* Names that lib and the canonical directory share are gone from lib.
Parted(t) == t.merged \/ \A n \in Names : Node(t, <<"canon", n>>) = None \/ Node(t, <<"lib", n>>) = None

LEMMA NormaliseShaped ==
    ASSUME NEW t, Shaped(t)
    PROVE  LET u == Normalise(t)
           IN  /\ Shaped(u) /\ u.merged = t.merged /\ u.lib64 /\ Parted(u)
               /\ Led(t) => Led(u)
               /\ Void(t) => Void(u)
  <1> DEFINE c == Unshadow(t)
             u == LinkLib64(c)
  <1>1. t \in Trees /\ Multi(t)
    BY DEF Shaped
  <1>2. Migrate(t) = t
    <2>1. MoveDir(t, "lib64", "lib") = t
      BY <1>1, MoveDirNothing DEF Multi, Dirs
    <2>2. MoveDir(t, "usrlib64", "canon") = t
      BY <1>1, MoveDirNothing DEF Multi, Dirs
    <2>3. QED BY <2>1, <2>2 DEF Migrate
  <1>3. Deduplicate(t) = t
    BY <1>1, MoveDirNothing DEF Multi, Dirs, Deduplicate
  <1>4. Unshadowed(t, c) /\ c \in Trees
    BY <1>1, UnshadowIs DEF Unshadowed, SameFlags
  <1> HIDE DEF c
  <1>5. ASSUME NEW n \in Names, NEW d \in {"lib64", "usrlib64", "dup", "top", "canon"}
        PROVE  Node(c, <<d, n>>) = Node(t, <<d, n>>)
    <2>1. <<d, n>> \in Places
      BY PlaceOf DEF Dirs
    <2>2. Alias(t, <<d, n>>)[1] # "lib"
      BY DEF Alias
    <2>3. QED BY <1>4, <2>1, <2>2 DEF Unshadowed
  <1>6. ForNames(MoveUp, c) = c
    <2>1. ASSUME NEW n \in Names
          PROVE  MoveUp(c, n) = c
      <3>1. Node(c, <<"top", n>>) = None
        BY <1>1, <1>5 DEF Multi
      <3>2. QED BY <3>1 DEF MoveUp
    <2>2. QED BY <2>1, NamesAre DEF ForNames
  <1>7. Normalise(t) = u
    BY <1>2, <1>3, <1>6 DEF Normalise, c
  <1>8. u \in Trees /\ u.merged = t.merged /\ u.lib64
    BY <1>4, LinkLib64Is DEF Unshadowed, SameFlags
  <1>9. ASSUME NEW n \in Names, NEW d \in {"usrlib64", "dup", "top", "canon", "lib"}
        PROVE  Node(u, <<d, n>>) = Node(c, <<d, n>>)
    <2>1. <<d, n>> \in Places /\ <<d, n>>[1] # "lib64"
      BY PlaceOf DEF Dirs
    <2>2. QED BY <1>4, <2>1, LinkLib64Is
  <1> HIDE DEF u
  <1>10. ASSUME NEW n \in Names
         PROVE  Node(u, <<"lib64", n>>) = None
    <2>1. Alias(u, <<"lib64", n>>) = Alias(u, <<"usrlib64", n>>)
      BY <1>8, AliasOf
    <2>2. Node(u, <<"usrlib64", n>>) = None
      BY <1>1, <1>5, <1>9 DEF Multi
    <2>3. QED BY <2>1, <2>2 DEF Node
  <1>11. Multi(u)
    <2>1. ASSUME NEW n \in Names, NEW d \in {"usrlib64", "dup", "top"}
          PROVE  Node(u, <<d, n>>) = None
      <3>1. Node(u, <<d, n>>) = Node(c, <<d, n>>) /\ Node(c, <<d, n>>) = Node(t, <<d, n>>)
        BY <1>5, <1>9
      <3>2. QED BY <1>1, <3>1 DEF Multi
    <2>2. QED BY <1>10, <2>1 DEF Multi
  <1>12. \A n \in Names : Node(u, <<"canon", n>>) = Node(t, <<"canon", n>>)
    BY <1>5, <1>9
  <1>13. (Heads(t) => Heads(u)) /\ (Empty(t, "canon") => Empty(u, "canon"))
    BY <1>1, <1>8, <1>12, HeadsSame
  <1>14. ASSUME Empty(t, "canon")
         PROVE  (Leads(t, "lib") => Leads(u, "lib")) /\ (Empty(t, "lib") => Empty(u, "lib"))
    <2>1. \A n \in Names : Node(u, <<"lib", n>>) = Node(t, <<"lib", n>>)
      BY <1>4, <1>9, <1>14 DEF Unshadowed, Empty
    <2>2. QED BY <1>1, <1>8, <2>1, LeadsSame
  <1>15. (Led(t) => Led(u)) /\ (Void(t) => Void(u))
    BY <1>13, <1>14 DEF Led, Void
  <1>16. Parted(u)
    BY <1>4, <1>5, <1>8, <1>9, <1>12 DEF Parted, Unshadowed
  <1>17. QED BY <1>7, <1>8, <1>11, <1>15, <1>16 DEF Shaped

LEMMA UsrMergeShaped ==
    ASSUME NEW t, Shaped(t), Parted(t)
    PROVE  LET u == UsrMerge(t)
           IN  Shaped(u) /\ u.merged /\ (Led(t) => Led(u))
  <1> DEFINE u == UsrMerge(t)
  <1>1. t \in Trees /\ Multi(t)
    BY DEF Shaped
  <1>2. PICK w : /\ w = MoveDir(t, "lib", "canon") /\ Moved(t, w, "lib", "canon")
                 /\ u \in Trees /\ u.merged /\ u.lib64 = t.lib64 /\ u.at = w.at
    BY <1>1, UsrMergeIs
  <1> HIDE DEF u
  <1>3. CASE t.merged
    <2>1. w = t
      <3>1. \A n \in Names : Alias(t, <<"lib", n>>) = Alias(t, <<"canon", n>>)
        BY <1>1, <1>3, AliasOf
      <3>2. QED BY <1>1, <1>2, <3>1, MoveDirNothing DEF Dirs
    <2>2. u.merged = t.merged
      BY <1>1, <1>2, <1>3 DEF Trees
    <2>3. \A p : Node(u, p) = Node(t, p)
      BY <1>2, <2>1, <2>2 DEF Node, Alias
    <2>4. QED BY <1>1, <1>2, <2>2, <2>3, ShapedSame DEF u
  <1>4. CASE ~t.merged
    <2>1. w \in Trees
      BY <1>2 DEF Moved, SameFlags
    <2>2. ASSUME NEW n \in Names
          PROVE  /\ Alias(t, <<"lib", n>>) = <<"lib", n>> /\ Alias(t, <<"canon", n>>) = <<"canon", n>>
                 /\ Alias(u, <<"lib", n>>) = <<"canon", n>> /\ Alias(u, <<"canon", n>>) = <<"canon", n>>
      BY <1>1, <1>2, <1>4, AliasOf
    <2>3. ASSUME NEW n \in Names
          PROVE  /\ Node(u, <<"lib", n>>) = Node(u, <<"canon", n>>)
                 /\ Node(u, <<"canon", n>>) = IF Node(t, <<"lib", n>>) \in {None, LinkTo(<<"canon", n>>)}
                                              THEN Node(t, <<"canon", n>>) ELSE Node(t, <<"lib", n>>)
      <3>1. Alias(t, <<"lib", n>>) # Alias(t, <<"canon", n>>)
        BY <2>2
      <3>2. Node(w, <<"canon", n>>) = IF Node(t, <<"lib", n>>) \in {None, LinkTo(<<"canon", n>>)}
                                      THEN Node(t, <<"canon", n>>) ELSE Node(t, <<"lib", n>>)
        BY <1>2, <3>1 DEF Moved
      <3>3. Node(w, <<"canon", n>>) = w.at[<<"canon", n>>] /\ Node(u, <<"canon", n>>) = u.at[<<"canon", n>>]
        BY <1>2, <2>1, PlainDir
      <3>4. Node(u, <<"lib", n>>) = Node(u, <<"canon", n>>)
        BY <2>2 DEF Node
      <3>5. QED BY <1>2, <3>2, <3>3, <3>4
    <2>4. Multi(u)
      <3>1. ASSUME NEW n \in Names, NEW d \in {"lib64", "usrlib64", "dup", "top"}
            PROVE  Node(u, <<d, n>>) = None
        <4>1. /\ Alias(t, <<d, n>>) \in {<<d, n>>, <<"usrlib64", n>>}
              /\ Alias(u, <<d, n>>) = Alias(t, <<d, n>>) /\ Alias(w, <<d, n>>) = Alias(t, <<d, n>>)
          BY <1>2 DEF Alias, Moved, SameFlags
        <4>2. \A m \in Names : Alias(t, <<d, n>>) \notin {Alias(t, <<"lib", m>>), Alias(t, <<"canon", m>>)}
          <5>1. TAKE m \in Names
          <5>2. Alias(t, <<"lib", m>>) = <<"lib", m>> /\ Alias(t, <<"canon", m>>) = <<"canon", m>>
            BY <2>2
          <5>3. QED BY <4>1, <5>2
        <4>3. Node(w, <<d, n>>) = Node(t, <<d, n>>)
          BY <1>2, <4>2, PlaceOf DEF Moved, Dirs
        <4>4. Node(u, <<d, n>>) = Node(w, <<d, n>>)
          BY <1>2, <4>1 DEF Node
        <4>5. QED BY <1>1, <4>3, <4>4 DEF Multi
      <3>2. QED BY <3>1 DEF Multi
    <2>5. ASSUME Leads(t, "canon")
          PROVE  Leads(u, "canon")
      <3> DEFINE so == <<"canon", "soname">>
      <3>1. PICK v \in Exact :
               /\ Node(t, <<"canon", v>>).is = "file"
               /\ Node(t, so).is = "link" /\ Node(t, so).tree = "here"
               /\ Alias(t, Node(t, so).to) = Alias(t, <<"canon", v>>)
        BY <2>5 DEF Leads
      <3>2. v \in Names /\ "soname" \in Names
        BY NamesAre DEF Exact
      <3>3. Node(t, <<"canon", v>>) # None /\ Node(t, so) # None
        BY <3>1 DEF None
      <3>4. Node(t, <<"lib", v>>) = None /\ Node(t, <<"lib", "soname">>) = None
        BY <1>4, <3>2, <3>3 DEF Parted
      <3>5. Node(u, <<"canon", v>>) = Node(t, <<"canon", v>>) /\ Node(u, so) = Node(t, so)
        BY <2>3, <3>2, <3>4
      <3>6. Alias(t, Node(t, so).to) = <<"canon", v>>
        BY <2>2, <3>1, <3>2
      <3>7. Node(t, so).to \in Places
        BY <1>1, <3>1, <3>2, NodeIs, NodesAre, PlaceOf DEF Dirs
      <3>8. Alias(u, Node(t, so).to) = <<"canon", v>>
        BY <1>2, <1>4, <3>6, <3>7 DEF Alias, Places
      <3>9. Alias(u, <<"canon", v>>) = <<"canon", v>>
        BY <2>2, <3>2
      <3>10. QED BY <3>1, <3>5, <3>8, <3>9 DEF Leads
    <2>6. ASSUME Empty(t, "canon"), Leads(t, "lib")
          PROVE  Leads(u, "canon")
      <3> DEFINE so == <<"lib", "soname">>
      <3>1. PICK v \in Exact :
               /\ Node(t, <<"lib", v>>).is = "file"
               /\ Node(t, so).is = "link" /\ Node(t, so).tree = "here"
               /\ Alias(t, Node(t, so).to) = Alias(t, <<"lib", v>>)
        BY <2>6 DEF Leads
      <3>2. v \in Names /\ "soname" \in Names /\ v # "soname"
        BY NamesAre DEF Exact
      <3>3. Alias(t, Node(t, so).to) = <<"lib", v>>
        BY <2>2, <3>1, <3>2
      <3>4. Node(t, so).to \in Places
        BY <1>1, <3>1, <3>2, NodeIs, NodesAre, PlaceOf DEF Dirs
      <3>5. Node(t, so).to = <<"lib", v>>
        BY <1>4, <3>3, <3>4 DEF Alias, Places
      <3>6. Node(t, so) \notin {None, LinkTo(<<"canon", "soname">>)}
        BY <3>1, <3>2, <3>5 DEF None, LinkTo
      <3>7. Node(t, <<"lib", v>>) \notin {None, LinkTo(<<"canon", v>>)}
        BY <3>1 DEF None, LinkTo
      <3>8. Node(u, <<"canon", "soname">>) = Node(t, so)
        BY <2>3, <3>2, <3>6
      <3>9. Node(u, <<"canon", v>>) = Node(t, <<"lib", v>>)
        BY <2>3, <3>2, <3>7
      <3>10. Alias(u, <<"lib", v>>) = <<"canon", v>> /\ Alias(u, <<"canon", v>>) = <<"canon", v>>
        BY <2>2, <3>2
      <3>11. QED BY <3>1, <3>5, <3>8, <3>9, <3>10 DEF Leads
    <2>7. Void(t) => Void(u)
      BY <2>3 DEF Void, Empty
    <2>8. Led(t) => Led(u)
      <3>1. ASSUME Node(t, <<"canon", "soname">>) = Wide
            PROVE  Node(u, <<"canon", "soname">>) = Wide
        <4>1. "soname" \in Names /\ Wide # None
          BY NamesAre DEF Wide, None
        <4>2. Node(t, <<"lib", "soname">>) = None
          BY <1>4, <3>1, <4>1 DEF Parted
        <4>3. QED BY <2>3, <3>1, <4>1, <4>2
      <3>2. QED BY <2>5, <2>6, <3>1 DEF Led, Heads
    <2>9. QED BY <1>2, <2>4, <2>7, <2>8 DEF Shaped, u
  <1>5. QED BY <1>3, <1>4 DEF u

LEMMA SeedShaped ==
    ASSUME RootfsTypeOK, NEW m \in BOOLEAN, traits.at = "lib" => ~m, NEW dev \in BOOLEAN
    PROVE  LET u == Unpacked(Bare(m), Payload(dev))
           IN  Shaped(u) /\ u.merged = m /\ ~u.lib64
  <1> DEFINE b == Bare(m)
             u == Unpacked(b, Payload(dev))
  <1>1. b \in Trees /\ b.merged = m /\ ~b.lib64 /\ \A p \in Places : b.at[p] = None
    BY BareIs
  <1> HIDE DEF b
  <1>2. /\ SameFlags(b, u) /\ u \in Trees /\ u.merged = m /\ ~u.lib64
        /\ \A p \in Places : u.at[p] = IF p \notin Payload(dev) THEN None
              ELSE IF p[2] = "v1" THEN File("deb")
              ELSE IF p[2] = "soname" THEN LinkTo(<<p[1], "v1">>)
              ELSE LinkTo(<<p[1], "soname">>)
    <2> DEFINE files == Payload(dev)
    <2> HIDE DEF files
    <2>1. /\ SameFlags(b, Unpacked(b, files))
          /\ \A p \in Places : Unpacked(b, files).at[p] = IF p \notin files THEN b.at[p]
                ELSE IF p[2] = "v1" THEN File("deb")
                ELSE IF p[2] = "soname" THEN LinkTo(<<p[1], "v1">>)
                ELSE LinkTo(<<p[1], "soname">>)
      BY <1>1, UnpackedIs
    <2>2. u = Unpacked(b, files)
      BY DEF files
    <2> HIDE DEF u
    <2>3. SameFlags(b, u) /\ u \in Trees /\ u.merged = m /\ ~u.lib64
      BY <1>1, <2>1, <2>2 DEF SameFlags
    <2>4. \A p \in Places : u.at[p] = IF p \notin files THEN None
              ELSE IF p[2] = "v1" THEN File("deb")
              ELSE IF p[2] = "soname" THEN LinkTo(<<p[1], "v1">>)
              ELSE LinkTo(<<p[1], "soname">>)
      BY <1>1, <2>1, <2>2
    <2>5. QED BY <2>3, <2>4 DEF files
  <1> HIDE DEF u
  <1>3. ASSUME NEW p \in Payload(dev), p \in Places
        PROVE  p[1] = traits.at /\ traits.at \in {"lib", "canon"}
    <2>1. CASE traits.at = "nowhere"
      BY <1>3, <2>1, PayloadIs, ToolIsNoPlace
    <2>2. CASE traits.at # "nowhere"
      <3>1. Payload(dev) = Debian(traits.at, dev) /\ traits.at \in {"lib", "canon"}
        BY <2>2, PayloadIs
      <3>2. \A q \in Debian(traits.at, dev) : q[1] = traits.at
        BY DEF Debian
      <3>3. QED BY <1>3, <3>1, <3>2
    <2>3. QED BY <2>1, <2>2
  <1>4. \A n \in Names, d \in Dirs : d # "lib" => Node(u, <<d, n>>) = u.at[<<d, n>>]
    BY <1>2 DEF Node, Alias
  <1>5. Multi(u)
    <2>1. ASSUME NEW n \in Names, NEW d \in {"lib64", "usrlib64", "dup", "top"}
          PROVE  Node(u, <<d, n>>) = None
      <3>1. <<d, n>> \in Places
        BY PlaceOf DEF Dirs
      <3>2. <<d, n>> \notin Payload(dev)
        BY <1>3, <3>1
      <3>3. Node(u, <<d, n>>) = u.at[<<d, n>>]
        BY <1>4 DEF Dirs
      <3>4. QED BY <1>2, <3>1, <3>2, <3>3
    <2>2. QED BY <2>1 DEF Multi
  <1>6. ASSUME NEW d \in {"lib", "canon"}, NEW n \in Names, ~(m /\ d = "lib")
        PROVE  <<d, n>> \in Places /\ Alias(u, <<d, n>>) = <<d, n>> /\ Node(u, <<d, n>>) = u.at[<<d, n>>]
    BY <1>2, <1>6, PlaceOf DEF Alias, Node, Dirs
  <1>7. ASSUME NEW d \in {"lib", "canon"}, ~(m /\ d = "lib"), d # traits.at
        PROVE  Empty(u, d)
    <2>1. \A n \in Names : <<d, n>> \in Places /\ <<d, n>> \notin Payload(dev)
      BY <1>3, <1>6, <1>7
    <2>2. QED BY <1>2, <1>6, <1>7, <2>1 DEF Empty
  <1>8. ASSUME traits.at \in {"lib", "canon"}
        PROVE  Leads(u, traits.at)
    <2> DEFINE d == traits.at
    <2>1. ~(m /\ d = "lib") /\ "v1" \in Names /\ "soname" \in Names /\ "v1" \in Exact
      BY NamesAre DEF Exact
    <2>2. <<d, "v1">> \in Payload(dev) /\ <<d, "soname">> \in Payload(dev)
      BY <1>8, PayloadIs DEF Debian
    <2>3. /\ <<d, "v1">> \in Places /\ Node(u, <<d, "v1">>) = u.at[<<d, "v1">>]
          /\ <<d, "soname">> \in Places /\ Node(u, <<d, "soname">>) = u.at[<<d, "soname">>]
      BY <1>6, <1>8, <2>1
    <2>4. Node(u, <<d, "v1">>) = File("deb") /\ Node(u, <<d, "soname">>) = LinkTo(<<d, "v1">>)
      BY <1>2, <2>2, <2>3
    <2>5. QED BY <2>1, <2>4 DEF Leads, File, LinkTo
  <1>9. CASE m
    <2>1. \A n \in Names : Node(u, <<"lib", n>>) = Node(u, <<"canon", n>>)
      BY <1>2, <1>9 DEF Node, Alias
    <2>2. Empty(u, "canon") => Empty(u, "lib")
      BY <2>1 DEF Empty
    <2>3. Led(u) \/ Void(u)
      BY <1>7, <1>8, <1>9, <2>2, PayloadIs DEF Led, Heads, Void
    <2>4. QED BY <1>2, <1>5, <2>3 DEF Shaped, u, b
  <1>10. CASE ~m
    <2>1. Led(u) \/ Void(u)
      BY <1>7, <1>8, <1>10, PayloadIs DEF Led, Heads, Void
    <2>2. QED BY <1>2, <1>5, <2>1 DEF Shaped, u, b
  <1>11. QED BY <1>9, <1>10

\* A port that installs to one of the two directories.
LEMMA ScriptShaped ==
    ASSUME NEW t, Shaped(t), NEW d \in {"lib", "canon"}, NEW v \in Exact
    PROVE  LET u == Put(Put(Put(t, <<d, v>>, File("port")), <<d, "soname">>, LinkTo(<<d, v>>)),
                        <<d, "dev">>, LinkTo(<<d, "soname">>))
           IN  Shaped(u) /\ u.merged = t.merged
  <1> DEFINE u == Put(Put(Put(t, <<d, v>>, File("port")), <<d, "soname">>, LinkTo(<<d, v>>)),
                      <<d, "dev">>, LinkTo(<<d, "soname">>))
             e == Alias(t, <<d, v>>)[1]
  <1>1. t \in Trees /\ Multi(t)
    BY DEF Shaped
  <1>2. /\ SameFlags(t, u)
        /\ Node(u, <<d, v>>) = File("port")
        /\ Node(u, <<d, "soname">>) = LinkTo(<<d, v>>)
        /\ \A q \in Places : Alias(t, q)[1] # e => Node(u, q) = Node(t, q)
    <2>1. d \in Dirs
      BY DEF Dirs
    <2>2. SameFlags(t, u) /\ Node(u, <<d, v>>) = File("port") /\ Node(u, <<d, "soname">>) = LinkTo(<<d, v>>)
      BY <1>1, <2>1, ScriptIs
    <2>3. \A q \in Places : Alias(t, q)[1] # e => Node(u, q) = Node(t, q)
      BY <1>1, <2>1, ScriptIs
    <2>4. QED BY <2>2, <2>3
  <1> HIDE DEF u
  <1>3. u \in Trees /\ u.merged = t.merged /\ \A q : Alias(u, q) = Alias(t, q)
    BY <1>2, SameAlias DEF SameFlags
  <1>4. /\ e \in {"lib", "canon"} /\ e = (IF t.merged THEN "canon" ELSE d)
        /\ \A n \in Names : Alias(t, <<d, n>>) = <<e, n>> /\ Alias(t, <<e, n>>) = <<e, n>>
    BY DEF Alias
  <1> HIDE DEF e
  <1>5. Multi(u)
    <2>1. ASSUME NEW n \in Names, NEW f \in {"lib64", "usrlib64", "dup", "top"}
          PROVE  Node(u, <<f, n>>) = None
      <3>1. Alias(t, <<f, n>>)[1] \notin {"lib", "canon"}
        BY DEF Alias
      <3>2. Node(u, <<f, n>>) = Node(t, <<f, n>>)
        BY <1>2, <1>4, <3>1, PlaceOf DEF Dirs
      <3>3. QED BY <1>1, <3>2 DEF Multi
    <2>2. QED BY <2>1 DEF Multi
  <1>6. Leads(u, e)
    <2>1. v \in Names /\ "soname" \in Names
      BY NamesAre DEF Exact
    <2>2. Node(u, <<e, v>>) = File("port") /\ Node(u, <<e, "soname">>) = LinkTo(<<d, v>>)
      BY <1>2, <1>3, <1>4, <2>1 DEF Node
    <2>3. Alias(u, <<d, v>>) = Alias(u, <<e, v>>)
      BY <1>3, <1>4, <2>1
    <2>4. QED BY <2>2, <2>3 DEF Leads, File, LinkTo
  <1>7. CASE e = "canon"
    BY <1>3, <1>5, <1>6, <1>7 DEF Shaped, Led, Heads, u
  <1>8. CASE e = "lib"
    <2>1. \A n \in Names : Node(u, <<"canon", n>>) = Node(t, <<"canon", n>>)
      <3>1. TAKE n \in Names
      <3>2. <<"canon", n>> \in Places /\ Alias(t, <<"canon", n>>) = <<"canon", n>>
        BY <1>1, PlainDir
      <3>3. QED BY <1>2, <1>8, <3>2
    <2>2. (Heads(t) => Heads(u)) /\ (Empty(t, "canon") => Empty(u, "canon"))
      BY <1>1, <1>3, <2>1, HeadsSame
    <2>3. Led(u)
      BY <1>6, <1>8, <2>2 DEF Led, Void, Shaped
    <2>4. QED BY <1>3, <1>5, <2>3 DEF Shaped, u
  <1>9. QED BY <1>4, <1>7, <1>8

LEMMA AssembledShaped ==
    ASSUME NEW t, NEW sys, Shaped(t), Shaped(sys), ~t.lib64, t.merged = sys.merged
    PROVE  LET u == Repair(Overlay(t, sys))
           IN  Shaped(u) /\ (Led(sys) => Led(u))
  <1> DEFINE u == Repair(Overlay(t, sys))
  <1>1. t \in Trees /\ sys \in Trees /\ Multi(t) /\ Multi(sys)
    BY DEF Shaped
  <1>2. /\ u \in Trees /\ u.merged = sys.merged /\ u.lib64 = sys.lib64
        /\ \A p \in Places :
              u.at[p] = IF sys.at[p] = None THEN AtHome(t.at[p]) ELSE AtHome(sys.at[p])
    BY <1>1, AssembledIs
  <1> HIDE DEF u
  <1>3. ASSUME NEW p \in Places, Alias(t, p) = Alias(sys, p)
        PROVE  Node(u, p) = IF Node(sys, p) = None THEN AtHome(Node(t, p)) ELSE AtHome(Node(sys, p))
    <2>1. Alias(u, p) = Alias(sys, p)
      BY <1>2 DEF Alias
    <2>2. Alias(sys, p) \in Places
      BY <1>1, AliasIs
    <2>3. QED BY <1>2, <1>3, <2>1, <2>2 DEF Node
  <1>4. \A p : p[1] # "lib64" => Alias(t, p) = Alias(sys, p) /\ Alias(u, p) = Alias(sys, p)
    BY <1>2 DEF Alias
  <1>5. Multi(u)
    <2>1. ASSUME NEW n \in Names, NEW d \in {"usrlib64", "dup", "top"}
          PROVE  Node(u, <<d, n>>) = None
      <3>1. Node(sys, <<d, n>>) = None /\ Node(t, <<d, n>>) = None
        BY <1>1 DEF Multi
      <3>2. <<d, n>> \in Places /\ Alias(t, <<d, n>>) = Alias(sys, <<d, n>>)
        BY <1>4, PlaceOf DEF Dirs
      <3>3. Node(u, <<d, n>>) = AtHome(None)
        BY <1>3, <3>1, <3>2
      <3>4. QED BY <3>3 DEF AtHome, None
    <2>2. ASSUME NEW n \in Names
          PROVE  Node(u, <<"lib64", n>>) = None
      <3> DEFINE p == <<"lib64", n>>
      <3>1. p \in Places
        BY PlaceOf DEF Dirs
      <3>2. CASE sys.lib64
        <4>1. Node(u, p) = Node(u, <<"usrlib64", n>>)
          BY <1>2, <3>2 DEF Node, Alias
        <4>2. QED BY <2>1, <4>1
      <3>3. CASE ~sys.lib64
        <4>1. Alias(t, p) = Alias(sys, p)
          BY <1>1, <3>3, AliasOf
        <4>2. Node(sys, p) = None /\ Node(t, p) = None
          BY <1>1 DEF Multi
        <4>3. Node(u, p) = AtHome(None)
          BY <1>3, <3>1, <4>1, <4>2
        <4>4. QED BY <4>3 DEF AtHome, None
      <3>4. QED BY <3>2, <3>3
    <2>3. QED BY <2>1, <2>2 DEF Multi
  <1>6. ASSUME NEW d \in {"canon", "lib"}, NEW n \in Names
        PROVE  /\ <<d, n>> \in Places /\ Node(sys, <<d, n>>) \in Nodes /\ Node(t, <<d, n>>) \in Nodes
               /\ Node(u, <<d, n>>) = IF Node(sys, <<d, n>>) = None THEN AtHome(Node(t, <<d, n>>))
                                      ELSE AtHome(Node(sys, <<d, n>>))
               /\ Alias(u, <<d, n>>) = Alias(sys, <<d, n>>) /\ Alias(t, <<d, n>>) = Alias(sys, <<d, n>>)
    <2>1. <<d, n>> \in Places
      BY PlaceOf DEF Dirs
    <2>2. Alias(u, <<d, n>>) = Alias(sys, <<d, n>>) /\ Alias(t, <<d, n>>) = Alias(sys, <<d, n>>)
      BY <1>4
    <2>3. Node(sys, <<d, n>>) \in Nodes /\ Node(t, <<d, n>>) \in Nodes
      BY <1>1, <2>1, NodeIs
    <2>4. QED BY <1>3, <2>1, <2>2, <2>3
  <1>7. \A p \in Places : Alias(sys, p)[1] \in {"canon", "lib"} => Alias(u, p) = Alias(sys, p)
    BY <1>2 DEF Alias
  <1>8. \A p \in Places : Alias(t, p)[1] \in {"canon", "lib"} => Alias(u, p) = Alias(t, p)
    BY <1>2 DEF Alias, Places
  <1>9. "soname" \in Names /\ \A v \in Exact : v \in Names
    BY NamesAre DEF Exact
  <1>10. ASSUME NEW d \in {"canon", "lib"}, NEW x \in {t, sys}, Leads(x, d),
                x = sys \/ Empty(sys, d)
         PROVE  Leads(u, d)
    <2> DEFINE so == <<d, "soname">>
    <2>1. PICK v \in Exact :
             /\ Node(x, <<d, v>>).is = "file"
             /\ Node(x, so).is = "link" /\ Node(x, so).tree = "here"
             /\ Alias(x, Node(x, so).to) = Alias(x, <<d, v>>)
      BY <1>10 DEF Leads
    <2>2. Node(x, <<d, v>>) \in Nodes /\ Node(x, so) \in Nodes
      BY <1>6, <1>9, <1>10
    <2>3. Node(x, <<d, v>>) # None /\ Node(x, so) # None
      BY <2>1 DEF None
    <2>4. Node(u, <<d, v>>) = AtHome(Node(x, <<d, v>>)) /\ Node(u, so) = AtHome(Node(x, so))
      BY <1>6, <1>9, <1>10, <2>3 DEF Empty
    <2>5. Node(x, so).to \in Places
      BY <2>1, <2>2, NodesAre
    <2>6. Alias(x, <<d, v>>)[1] \in {"canon", "lib"}
      BY DEF Alias
    <2>7. Alias(u, Node(x, so).to) = Alias(x, Node(x, so).to)
      BY <1>7, <1>8, <1>10, <2>1, <2>5, <2>6
    <2>8. Alias(u, <<d, v>>) = Alias(x, <<d, v>>)
      BY <1>6, <1>9, <1>10
    <2>9. /\ AtHome(Node(x, <<d, v>>)).is = "file"
          /\ AtHome(Node(x, so)).is = "link" /\ AtHome(Node(x, so)).tree = "here"
          /\ AtHome(Node(x, so)).to = Node(x, so).to
      BY <2>1, <2>2, AtHomeIs
    <2> HIDE DEF so
    <2>10. /\ Node(u, <<d, v>>).is = "file"
           /\ Node(u, so).is = "link" /\ Node(u, so).tree = "here"
           /\ Alias(u, Node(u, so).to) = Alias(u, <<d, v>>)
      BY <2>1, <2>4, <2>7, <2>8, <2>9
    <2>11. QED BY <2>10 DEF Leads, so
  <1>11. ASSUME NEW d \in {"canon", "lib"}, Empty(sys, d), Empty(t, d)
         PROVE  Empty(u, d)
    <2>1. AtHome(None) = None
      BY DEF AtHome, None
    <2>2. QED BY <1>6, <1>11, <2>1 DEF Empty
  <1>12. \A d \in {"canon", "lib"} :
            /\ Leads(sys, d) => Leads(u, d)
            /\ Empty(sys, d) => (Leads(t, d) => Leads(u, d)) /\ (Empty(t, d) => Empty(u, d))
    BY <1>10, <1>11
  <1>13. /\ Heads(sys) => Heads(u)
         /\ Empty(sys, "canon") => (Heads(t) => Heads(u))
    <2>1. AtHome(Wide) = Wide /\ Wide # None
      BY DEF AtHome, Wide, None
    <2>2. Node(sys, <<"canon", "soname">>) = Wide => Node(u, <<"canon", "soname">>) = Wide
      BY <1>6, <1>9, <2>1
    <2>3. Empty(sys, "canon") /\ Node(t, <<"canon", "soname">>) = Wide
            => Node(u, <<"canon", "soname">>) = Wide
      BY <1>6, <1>9, <2>1 DEF Empty
    <2>4. QED BY <1>12, <2>2, <2>3 DEF Heads
  <1>14. (Led(u) \/ Void(u)) /\ (Led(sys) => Led(u))
    <2>1. (Led(t) \/ Void(t)) /\ (Led(sys) \/ Void(sys))
      BY DEF Shaped
    <2>2. CASE Heads(sys)
      BY <1>13, <2>2 DEF Led
    <2>3. CASE Empty(sys, "canon") /\ Heads(t)
      BY <1>13, <2>3 DEF Led
    <2>4. CASE Empty(sys, "canon") /\ Empty(t, "canon") /\ Leads(sys, "lib")
      BY <1>12, <2>4 DEF Led
    <2>5. CASE Void(sys) /\ Empty(t, "canon") /\ (Leads(t, "lib") \/ Empty(t, "lib"))
      <3>1. Empty(u, "canon") /\ (Leads(u, "lib") \/ Empty(u, "lib"))
        BY <1>12, <2>5 DEF Void
      <3>2. Led(sys) => Led(u)
        BY <1>12, <1>13, <2>5, <3>1 DEF Led, Void
      <3>3. QED BY <3>1, <3>2 DEF Led, Void
    <2>6. QED BY <2>1, <2>2, <2>3, <2>4, <2>5 DEF Led, Void
  <1>15. QED BY <1>2, <1>5, <1>14 DEF Shaped, u

LEMMA CanonOnlyMulti ==
    ASSUME NEW t, NEW u, CanonOnly(t, u), Multi(t)
    PROVE  Multi(u)
  <1>1. ASSUME NEW n \in Names, NEW d \in {"lib64", "usrlib64", "dup", "top"}
        PROVE  Node(u, <<d, n>>) = None
    <2>1. Alias(t, <<d, n>>)[1] # "canon" /\ <<d, n>> \in Places
      BY PlaceOf DEF Alias, Dirs
    <2>2. QED BY <2>1 DEF CanonOnly, Multi
  <1>2. QED BY <1>1 DEF Multi

LEMMA ReconcileShaped ==
    ASSUME NEW t, Shaped(t), t.merged, Node(t, <<"canon", "v1">>).is = "file"
    PROVE  LET u == Reconcile(t, "v1")
           IN  Shaped(u) /\ u.merged /\ Led(u)
  <1> DEFINE u == Reconcile(t, "v1")
             so == <<"canon", "soname">>
             v1 == <<"canon", "v1">>
  <1>1. t \in Trees /\ Multi(t)
    BY DEF Shaped
  <1>2. Reconciled(t, u)
    BY <1>1, ReconcileIs
  <1> HIDE DEF u
  <1>3. u \in Trees /\ u.merged
    BY <1>2 DEF Reconciled, CanonOnly, SameFlags
  <1>4. "soname" \in Names /\ "v1" \in Names /\ "v1" \in Exact
    BY NamesAre DEF Exact
  <1>5. Heads(t)
    <2>1. Node(t, v1) # None
      BY DEF None
    <2>2. ~Empty(t, "canon")
      BY <1>4, <2>1 DEF Empty
    <2>3. QED BY <2>2 DEF Shaped, Led, Void
  <1>6. Node(t, so).is # "file"
    <2>1. Leads(t, "canon") => Node(t, so).is = "link"
      BY DEF Leads
    <2>2. Node(t, so) = Wide => Node(t, so).is = "wide"
      BY DEF Wide
    <2>3. QED BY <1>5, <2>1, <2>2 DEF Heads
  <1>7. Node(u, so) = LinkTo(v1) /\ Node(u, v1).is = "file"
    BY <1>2, <1>6 DEF Reconciled
  <1>8. Leads(u, "canon")
    BY <1>4, <1>7 DEF Leads, LinkTo
  <1>9. Multi(u)
    BY <1>1, <1>2, CanonOnlyMulti DEF Reconciled
  <1>10. QED BY <1>3, <1>8, <1>9 DEF Shaped, Led, Heads, u

\* The wide library stands in for the narrow one, and of the wide one the file that the
\* SONAME leads to stays.
LEMMA NcursedShaped ==
    ASSUME NEW t, NEW u, Shaped(t), CanonOnly(t, u), Ncursed(t, u)
    PROVE  Shaped(u) /\ u.merged = t.merged /\ (Led(t) => Led(u))
  <1> DEFINE so == <<"canon", "soname">>
  <1>1. /\ t \in Trees /\ u \in Trees /\ Multi(t) /\ u.merged = t.merged
        /\ \A q : Alias(u, q) = Alias(t, q)
    BY SameAlias DEF Shaped, CanonOnly, SameFlags
  <1>2. Multi(u)
    BY <1>1, CanonOnlyMulti
  <1>3. CASE u = t
    BY <1>3
  <1>4. CASE Node(u, so) = Wide
    BY <1>1, <1>2, <1>4 DEF Shaped, Led, Heads
  <1>5. CASE Activated(t, u)
    <2>1. /\ Node(u, <<"canon", "dev">>) = Node(t, <<"canon", "dev">>)
          /\ Node(u, so) = Node(t, so)
          /\ \A n \in Exact : \/ Node(u, <<"canon", n>>) = Node(t, <<"canon", n>>)
                              \/ /\ Node(t, <<"canon", n>>).is = "file"
                                 /\ Node(u, <<"canon", n>>) = None
      BY <1>5 DEF Activated
    <2>2. Leads(t, "canon") => Leads(u, "canon")
      <3>1. SUFFICES ASSUME Leads(t, "canon") PROVE Leads(u, "canon")
        OBVIOUS
      <3>2. PICK v \in Exact :
               /\ Node(t, <<"canon", v>>).is = "file"
               /\ Node(t, so).is = "link" /\ Node(t, so).tree = "here"
               /\ Alias(t, Node(t, so).to) = Alias(t, <<"canon", v>>)
        BY <3>1 DEF Leads
      <3>3. v \in Names /\ Alias(t, <<"canon", v>>) = <<"canon", v>>
        <4>1. v \in Names
          BY NamesAre DEF Exact
        <4>2. QED BY <1>1, <4>1, AliasOf
      <3> DEFINE to == Node(t, so).to
      <3>4. Hop(t, so) = to
        BY <3>2 DEF Hop
      <3>5. Alias(t, to) = <<"canon", v>>
        BY <3>2, <3>3
      <3>6. Node(t, to) = Node(t, <<"canon", v>>)
        BY <3>3, <3>5 DEF Node
      <3>7. Hop(t, to) = to
        BY <3>2, <3>6 DEF Hop
      <3>8. Resolved(t, so) = <<"canon", v>>
        BY <3>4, <3>5, <3>7 DEF Resolved
      <3>9. Resolved(t, so)[2] = v
        BY <3>8
      <3>10. Node(u, <<"canon", v>>) = Node(t, <<"canon", v>>)
        BY <1>5, <3>9 DEF Activated
      <3> HIDE DEF so, to
      <3>11. /\ Node(u, <<"canon", v>>).is = "file"
             /\ Node(u, so).is = "link" /\ Node(u, so).tree = "here"
             /\ Alias(u, Node(u, so).to) = Alias(u, <<"canon", v>>)
        BY <1>1, <2>1, <3>2, <3>10
      <3>12. QED BY <3>11 DEF Leads, so
    <2>3. Heads(t) => Heads(u)
      BY <2>1, <2>2 DEF Heads
    <2>4. Empty(t, "canon") => Empty(u, "canon")
      <3>1. SUFFICES ASSUME Empty(t, "canon"), NEW n \in Names PROVE Node(u, <<"canon", n>>) = None
        BY DEF Empty
      <3>2. Node(t, <<"canon", n>>) = None
        BY <3>1 DEF Empty
      <3>3. CASE n \in Exact
        BY <2>1, <3>2, <3>3
      <3>4. CASE n \in {"dev", "soname"}
        BY <2>1, <3>2, <3>4
      <3>5. QED BY <3>3, <3>4, NamesAre DEF Exact
    <2>5. ASSUME Empty(t, "canon")
          PROVE  (Leads(t, "lib") => Leads(u, "lib")) /\ (Empty(t, "lib") => Empty(u, "lib"))
      <3>1. ASSUME NEW n \in Names
            PROVE  Node(u, <<"lib", n>>) = Node(t, <<"lib", n>>)
        <4>1. <<"lib", n>> \in Places
          BY PlaceOf DEF Dirs
        <4>2. CASE t.merged
          <5>1. Alias(t, <<"lib", n>>) = <<"canon", n>> /\ Alias(t, <<"canon", n>>) = <<"canon", n>>
            BY <1>1, <4>2, AliasOf
          <5>2. /\ Node(t, <<"lib", n>>) = Node(t, <<"canon", n>>)
                /\ Node(u, <<"lib", n>>) = Node(u, <<"canon", n>>)
            BY <1>1, <5>1 DEF Node
          <5>3. Node(t, <<"canon", n>>) = None /\ Node(u, <<"canon", n>>) = None
            BY <2>4, <2>5 DEF Empty
          <5>4. QED BY <5>2, <5>3
        <4>3. CASE ~t.merged
          <5>1. Alias(t, <<"lib", n>>) = <<"lib", n>>
            BY <1>1, <4>3, AliasOf
          <5>2. Alias(t, <<"lib", n>>)[1] # "canon"
            BY <5>1
          <5>3. QED BY <4>1, <5>2 DEF CanonOnly
        <4>4. QED BY <4>2, <4>3
      <3>2. QED BY <1>1, <3>1, LeadsSame
    <2>6. (Led(t) => Led(u)) /\ (Void(t) => Void(u))
      BY <2>3, <2>4, <2>5 DEF Led, Void
    <2>7. QED BY <1>1, <1>2, <2>6 DEF Shaped
  <1>6. QED BY <1>3, <1>4, <1>5 DEF Ncursed

LEMMA PreparedShaped ==
    ASSUME NEW t, Shaped(t), NEW wide \in BOOLEAN
    PROVE  Shaped(Prepared(t, wide, FALSE))
  <1> DEFINE a == Normalise(t)
  <1>1. Shaped(a)
    BY NormaliseShaped
  <1>2. Prepared(t, wide, FALSE) = Ncurses(a, wide)
    BY DEF Prepared, Perl
  <1> HIDE DEF a
  <1>3. CanonOnly(a, Ncurses(a, wide)) /\ Ncursed(a, Ncurses(a, wide))
    BY <1>1, NcursesIs DEF Shaped
  <1>4. QED BY <1>1, <1>2, <1>3, NcursedShaped

LEMMA DropShaped ==
    ASSUME NEW t, Shaped(t)
    PROVE  Shaped(Drop(t)) /\ Void(Drop(t))
  <1> DEFINE u == Drop(t)
  <1>1. t \in Trees /\ Multi(t)
    BY DEF Shaped
  <1>2. /\ SameFlags(t, u) /\ u \in Trees
        /\ \A p \in Places : u.at[p] = IF p[1] \in {"lib", "canon"} THEN None ELSE t.at[p]
    BY <1>1, DropIs DEF SameFlags
  <1> HIDE DEF u
  <1>3. \A q : Alias(u, q) = Alias(t, q)
    BY <1>2, SameAlias
  <1>4. ASSUME NEW n \in Names, NEW d \in {"lib64", "usrlib64", "dup", "top"}
        PROVE  Node(u, <<d, n>>) = None
    <2>1. <<d, n>> \in Places
      BY PlaceOf DEF Dirs
    <2>2. Alias(t, <<d, n>>)[1] \notin {"lib", "canon"} /\ Alias(t, <<d, n>>) \in Places
      BY <1>1, <2>1, AliasIs DEF Alias
    <2>3. Node(u, <<d, n>>) = Node(t, <<d, n>>)
      BY <1>2, <1>3, <2>2 DEF Node
    <2>4. QED BY <1>1, <2>3 DEF Multi
  <1>5. ASSUME NEW n \in Names, NEW d \in {"lib", "canon"}
        PROVE  Node(u, <<d, n>>) = None
    <2>1. <<d, n>> \in Places
      BY PlaceOf DEF Dirs
    <2>2. Alias(t, <<d, n>>)[1] \in {"lib", "canon"}
      BY DEF Alias
    <2>3. Alias(t, <<d, n>>) \in Places
      BY <1>1, <2>1, AliasIs
    <2>4. QED BY <1>2, <1>3, <2>2, <2>3 DEF Node
  <1>6. QED BY <1>2, <1>4, <1>5 DEF Shaped, Multi, Void, Empty, u

-----------------------------------------------------------------------------
(* The stages and the final tree keep the shape.                           *)

StagesInv ==
    /\ Shaped(stage) /\ ~stage.lib64 /\ stage.merged = sysroot.merged
    /\ traits.at = "lib" => ~stage.merged
    /\ ~strayed /\ ~ownPerl => Shaped(sysroot)

LEMMA StagesInit == Init => StagesInv
  <1> SUFFICES ASSUME Init PROVE StagesInv
    OBVIOUS
  <1>1. PICK m \in BOOLEAN : /\ traits.at = "lib" => ~m
                             /\ stage = Bare(m) /\ sysroot = Bare(m)
    BY DEF Init
  <1>2. Bare(m) \in Trees /\ Bare(m).merged = m /\ ~Bare(m).lib64 /\ \A p \in Places : Bare(m).at[p] = None
    BY BareIs
  <1>3. \A n \in Names, d \in Dirs : Node(Bare(m), <<d, n>>) = None
    BY <1>2, AliasIs, PlaceOf DEF Node
  <1>4. Shaped(Bare(m))
    <2>1. Multi(Bare(m)) /\ Empty(Bare(m), "canon") /\ Empty(Bare(m), "lib")
      BY <1>3 DEF Multi, Empty, Dirs
    <2>2. QED BY <1>2, <2>1 DEF Shaped, Void
  <1>5. QED BY <1>1, <1>2, <1>4 DEF StagesInv

LEMMA StagesStep == RootfsTypeOK /\ StagesInv /\ [Next]_vars => StagesInv'
  <1> SUFFICES ASSUME RootfsTypeOK, StagesInv, [Next]_vars PROVE StagesInv'
    OBVIOUS
  <1>1. stage \in Trees /\ sysroot \in Trees /\ stage.merged \in BOOLEAN
    BY DEF RootfsTypeOK, Trees
  <1>2. CASE Prepare
    <2>1. traits' = traits /\ ownPerl' \in BOOLEAN
      BY <1>2, PrepareIs
    <2>2. PICK wide \in BOOLEAN :
             \/ /\ stage' = stage /\ sysroot' = Prepared(sysroot, wide, ownPerl')
                /\ (strayed => strayed') /\ (ownPerl => ownPerl')
             \/ /\ stage' = Unpacked(Bare(stage.merged), Payload(FALSE))
                /\ sysroot' = Prepared(Unpacked(Bare(sysroot.merged), Payload(TRUE)), wide,
                                       ownPerl')
      BY <1>2, PrepareIs
    <2>3. CASE /\ stage' = stage /\ sysroot' = Prepared(sysroot, wide, ownPerl')
               /\ (strayed => strayed') /\ (ownPerl => ownPerl')
      <3>1. sysroot'.merged = sysroot.merged
        BY <1>1, <2>1, <2>3, PreparedIs
      <3>2. ASSUME ~strayed', ~ownPerl'
            PROVE  Shaped(sysroot')
        <4>1. Shaped(sysroot)
          BY <2>3, <3>2 DEF StagesInv
        <4>2. sysroot' = Prepared(sysroot, wide, FALSE)
          BY <2>1, <2>3, <3>2
        <4>3. QED BY <4>1, <4>2, PreparedShaped
      <3>3. QED BY <2>1, <2>3, <3>1, <3>2 DEF StagesInv
    <2>4. CASE /\ stage' = Unpacked(Bare(stage.merged), Payload(FALSE))
               /\ sysroot' = Prepared(Unpacked(Bare(sysroot.merged), Payload(TRUE)), wide, ownPerl')
      <3> DEFINE a == Unpacked(Bare(stage.merged), Payload(FALSE))
                 b == Unpacked(Bare(stage.merged), Payload(TRUE))
      <3>1. Shaped(a) /\ a.merged = stage.merged /\ ~a.lib64
        BY <1>1, SeedShaped DEF StagesInv
      <3>2. Shaped(b) /\ b.merged = stage.merged
        BY <1>1, SeedShaped DEF StagesInv
      <3>3. stage' = a /\ sysroot' = Prepared(b, wide, ownPerl')
        BY <2>4 DEF StagesInv
      <3> HIDE DEF a, b
      <3>4. Prepared(b, wide, ownPerl').merged = stage.merged
        BY <2>1, <3>2, PreparedIs DEF Shaped
      <3>5. ~ownPerl' => Shaped(Prepared(b, wide, ownPerl'))
        <4>1. SUFFICES ASSUME ~ownPerl' PROVE Shaped(Prepared(b, wide, ownPerl'))
          OBVIOUS
        <4>2. ownPerl' = FALSE
          BY <2>1, <4>1
        <4>3. QED BY <3>2, <4>2, PreparedShaped
      <3>6. QED BY <2>1, <3>1, <3>3, <3>4, <3>5 DEF StagesInv
    <2>5. QED BY <2>2, <2>3, <2>4
  <1>3. CASE Build
    <2>1. stage' = stage /\ traits' = traits /\ ownPerl' \in BOOLEAN /\ (ownPerl => ownPerl')
      BY <1>3, BuildIs DEF RootfsTypeOK
    <2>2. PICK d \in LibDirs, v \in Exact, wide \in BOOLEAN :
             /\ sysroot' = Prepared(Put(Put(Put(sysroot, <<d, v>>, File("port")),
                                            <<d, "soname">>, LinkTo(<<d, v>>)),
                                        <<d, "dev">>, LinkTo(<<d, "soname">>)), wide, ownPerl')
             /\ strayed' = (strayed \/ d \notin {"lib", "canon"})
      BY <1>3, BuildIs
    <2> DEFINE u == Put(Put(Put(sysroot, <<d, v>>, File("port")), <<d, "soname">>, LinkTo(<<d, v>>)),
                        <<d, "dev">>, LinkTo(<<d, "soname">>))
    <2>3. d \in Dirs
      BY RootfsAssumption
    <2>4. u \in Trees /\ u.merged = sysroot.merged
      BY <1>1, <2>3, ScriptIs DEF SameFlags
    <2>5. ~strayed' /\ ~ownPerl' => Shaped(u)
      BY <2>1, <2>2, ScriptShaped DEF StagesInv
    <2>6. sysroot' = Prepared(u, wide, ownPerl')
      BY <2>2
    <2> HIDE DEF u
    <2>7. sysroot'.merged = sysroot.merged
      BY <2>1, <2>4, <2>6, PreparedIs
    <2>8. ASSUME ~strayed', ~ownPerl'
          PROVE  Shaped(sysroot')
      <3>1. sysroot' = Prepared(u, wide, FALSE)
        BY <2>1, <2>6, <2>8
      <3>2. QED BY <2>5, <2>8, <3>1, PreparedShaped
    <2>9. QED BY <2>1, <2>7, <2>8 DEF StagesInv
  <1>4. CASE UNCHANGED <<stage, sysroot, traits, strayed, ownPerl>>
    BY <1>4 DEF StagesInv
  <1>5. ~Prepare /\ ~Build => UNCHANGED <<stage, sysroot, traits, strayed, ownPerl>>
    BY DEF Next, Publish, PrepareStops, PortsDone, Assemble, Layout, Sync, Register, Reconciles, Seed,
           Prune, Settle, Verify, Restart, vars
  <1>6. QED BY <1>2, <1>3, <1>4, <1>5

\* What is needed was in the sysroot, and stays in the final tree until it is pruned.
FinalInv ==
    ~strayed /\ ~ownPerl =>
        /\ pc \in Sealed \cup {"layout"} => Shaped(final)
        /\ traits.loadedBy # "nothing" =>
              /\ pc = "assemble" => Led(sysroot)
              /\ pc \in (Sealed \ {"settle", "verify", "done"}) \cup {"layout"} => Led(final)
              /\ pc \in {"settle", "verify"} => Led(final) \/ Unneeded

LEMMA FinalInit == Init => FinalInv
  BY DEF Init, FinalInv, Sealed

\* The normalisers after the registry.
LEMMA ReconcilesShaped ==
    ASSUME RootfsTypeOK, LaidInv, Reconciles, Shaped(final), ~ownPerl
    PROVE  Shaped(final') /\ (Led(final) => Led(final'))
  <1>1. PICK turned, told, left :
           /\ turned = IF Provided THEN Reconcile(final, "v1") ELSE final
           /\ CanonOnly(turned, told) /\ Ncursed(turned, told)
           /\ left = told
           /\ final' \in {left, Normalise(left)}
    BY ReconcilesIs
  <1>2. pc = "reconcile" /\ final.merged
    BY ReconcilesIs DEF LaidInv, Sealed
  <1>3. Shaped(turned) /\ (Led(final) => Led(turned))
    <2>1. CASE Provided
      <3>1. turned = Reconcile(final, "v1") /\ Node(final, <<"canon", "v1">>).is = "file"
        BY <1>1, <2>1 DEF Provided
      <3>2. QED BY <1>2, <3>1, ReconcileShaped
    <2>2. CASE ~Provided
      BY <1>1, <2>2
    <2>3. QED BY <2>1, <2>2
  <1>4. Shaped(told) /\ (Led(turned) => Led(told))
    BY <1>1, <1>3, NcursedShaped
  <1>5. Shaped(Normalise(told)) /\ (Led(told) => Led(Normalise(told)))
    BY <1>4, NormaliseShaped
  <1>6. QED BY <1>1, <1>3, <1>4, <1>5

LEMMA FinalStep ==
    RootfsTypeOK /\ LaidInv /\ StagesInv /\ FinalInv /\ [Next]_vars => FinalInv'
  <1> SUFFICES ASSUME RootfsTypeOK, LaidInv, StagesInv, FinalInv, [Next]_vars PROVE FinalInv'
    OBVIOUS
  <1>1. CASE Prepare
    <2>1. pc' = "build"
      BY <1>1, PrepareIs
    <2>2. QED BY <2>1 DEF FinalInv, Sealed
  <1>2. CASE PortsDone
    <2>1. /\ pc' = "assemble" /\ UNCHANGED <<traits, sysroot, strayed, ownPerl>>
          /\ traits.loadedBy # "nothing" => Found(sysroot) \/ ownPerl
      BY <1>2 DEF PortsDone
    <2>2. ~strayed /\ ~ownPerl /\ traits.loadedBy # "nothing" => Led(sysroot)
      BY <2>1, ShapedFound DEF StagesInv
    <2>3. QED BY <2>1, <2>2 DEF FinalInv, Sealed
  <1>3. CASE Assemble
    <2>1. pc = "assemble" /\ pc' = "layout" /\ final' = Repair(Overlay(stage, sysroot))
          /\ traits' = traits /\ strayed' = strayed /\ ownPerl' = ownPerl
      BY <1>3 DEF Assemble
    <2>2. ~strayed /\ ~ownPerl => Shaped(final') /\ (Led(sysroot) => Led(final'))
      BY <2>1, AssembledShaped DEF StagesInv
    <2>3. QED BY <2>1, <2>2 DEF FinalInv, Sealed
  <1>4. CASE Layout
    <2> DEFINE t == Normalise(final)
    <2>1. pc = "layout" /\ pc' = "sync" /\ final' = UsrMerge(t)
          /\ traits' = traits /\ strayed' = strayed /\ ownPerl' = ownPerl
      BY <1>4 DEF Layout
    <2>2. ~strayed /\ ~ownPerl => Shaped(t) /\ Parted(t) /\ (Led(final) => Led(t))
      BY <2>1, NormaliseShaped DEF FinalInv
    <2> HIDE DEF t
    <2>3. ~strayed /\ ~ownPerl => Shaped(final') /\ (Led(t) => Led(final'))
      BY <2>1, <2>2, UsrMergeShaped
    <2>4. QED BY <2>1, <2>2, <2>3 DEF FinalInv, Sealed
  <1>5. CASE Reconciles
    <2>1. pc = "reconcile" /\ pc' = "dpkg" /\ UNCHANGED <<traits, strayed, ownPerl>>
      BY <1>5, ReconcilesIs
    <2>2. ~strayed /\ ~ownPerl => Shaped(final') /\ (Led(final) => Led(final'))
      BY <1>5, <2>1, ReconcilesShaped DEF FinalInv, Sealed
    <2>3. QED BY <2>1, <2>2 DEF FinalInv, Sealed
  <1>6. CASE Prune
    <2>1. /\ pc = "prune" /\ pc' = "settle" /\ UNCHANGED <<traits, strayed, ownPerl>>
          /\ final' = IF Unneeded THEN Drop(final) ELSE final
          /\ Unneeded' <=> Unneeded
      BY <1>6 DEF Prune, Unneeded
    <2>2. CASE Unneeded
      BY <2>1, <2>2, DropShaped DEF FinalInv, Sealed
    <2>3. CASE ~Unneeded
      BY <2>1, <2>3 DEF FinalInv, Sealed
    <2>4. QED BY <2>2, <2>3
  <1>7. CASE Settle
    <2>1. /\ pc = "settle" /\ pc' = "verify" /\ UNCHANGED <<traits, strayed, ownPerl>>
          /\ final' = Normalise(final) /\ (Unneeded' <=> Unneeded)
      BY <1>7 DEF Settle, Unneeded
    <2>2. ~strayed /\ ~ownPerl => Shaped(final') /\ (Led(final) => Led(final'))
      BY <2>1, NormaliseShaped DEF FinalInv, Sealed
    <2>3. QED BY <2>1, <2>2 DEF FinalInv, Sealed
  <1>8. CASE Sync \/ Register \/ Seed
    BY <1>8 DEF Sync, Register, Seed, FinalInv, Sealed
  <1>9. CASE Publish \/ UNCHANGED vars
    BY <1>9 DEF Publish, vars, FinalInv, Unneeded
  <1>10. CASE PrepareStops \/ Verify \/ Restart
    BY <1>10 DEF PrepareStops, Verify, Restart, FinalInv, Sealed
  <1>11. CASE Build
    BY <1>11 DEF Build, FinalInv, Sealed
  <1>12. QED BY <1>1, <1>2, <1>3, <1>4, <1>5, <1>6, <1>7, <1>8, <1>9, <1>10, <1>11 DEF Next

-----------------------------------------------------------------------------
(* The invariant, and what it says.                                        *)

RootfsInv ==
    /\ RootfsTypeOK
    /\ LaidInv
    /\ VersionInv
    /\ ListInv
    /\ ProviderInv
    /\ StagesInv
    /\ FinalInv

LEMMA RootfsInvInit == Init => RootfsInv
  BY RootfsInit, LaidInit, VersionInit, ListInit, ProviderInit, StagesInit, FinalInit DEF RootfsInv

LEMMA RootfsInvStep == RootfsInv /\ [Next]_vars => RootfsInv'
  BY RootfsTypeStep, LaidStep, VersionStep, ListStep, ProviderStep, StagesStep, FinalStep
  DEF RootfsInv

LEMMA RootfsInvAlways == Spec => []RootfsInv
  BY RootfsInvInit, RootfsInvStep, PTL DEF Spec

\* The version gpkg and dpkg are told of the Debian package is the version whose files the
\* stages were seeded with; what dpkg is told of is in the image unless it was pruned, and
\* what gpkg is told of but for the tools, the exact versions of ncurses and the libperl
\* that are removed after the registry is written: for any number of releases, new
\* indexes, rebuilds and restarts.
THEOREM RecordsAlwaysMatchPayload == Spec => []RecordsMatchPayload
  <1>1. RootfsInv => RecordsMatchPayload
    BY DEF RootfsInv, VersionInv, ListInv, Told, RecordsMatchPayload
  <1>2. QED BY <1>1, RootfsInvAlways, PTL

LEMMA ProviderStaysAlone == RootfsInv => ProviderIsAlone
  <1> SUFFICES ASSUME RootfsInv, pc \in {"verify", "done"}, traits.usable,
                      <<"canon", "v1">> \in registry.files, ~ProviderIsAlone
               PROVE  FALSE
    BY DEF ProviderIsAlone
  <1>1. final \in Trees
    BY DEF RootfsInv, RootfsTypeOK
  <1>2. Sole(final)
    BY DEF RootfsInv, ProviderInv, Told
  <1>3. ~(Node(final, <<"canon", "v1">>).is = "file" /\ Aligned(final))
    <2>1. Node(final, <<"canon", "v1">>).is = "file" /\ Aligned(final) => ~ProviderIssues(final, "v1")
      BY <1>1, AlignedHasNoIssue
    <2>2. QED BY <2>1 DEF ProviderIsAlone
  <1>4. QED BY <1>2, <1>3 DEF Sole, ProviderIsAlone

\* Where the Debian library can be used it is the only one of its family in the image,
\* and its SONAME leads to it, wherever the ports have installed theirs, unless what
\* comes after the reconciliation has replaced it or removed it.
THEOREM ProviderAlwaysAlone == Spec => []ProviderIsAlone
  BY ProviderStaysAlone, RootfsInvAlways, PTL

\* A library of the multiarch directories is found by its SONAME in the sysroot and in
\* the final tree, after any sequence of builds, seeds and restarts, unless a Perl built
\* from source has taken it away.
THEOREM LibraryAlwaysFound == Spec => []LibraryIsFound
  <1>1. RootfsInv => LibraryIsFound
    <2>1. SUFFICES ASSUME RootfsInv, ~strayed, ~ownPerl
                   PROVE  /\ Here(sysroot) => Found(sysroot)
                          /\ pc \in Sealed \cup {"layout"} => (Here(final) => Found(final))
      BY <2>1 DEF LibraryIsFound, Sealed
    <2>2. Shaped(sysroot) /\ (pc \in Sealed \cup {"layout"} => Shaped(final))
      BY <2>1 DEF RootfsInv, StagesInv, FinalInv
    <2>3. QED BY <2>2, ShapedFound
  <1>2. QED BY <1>1, RootfsInvAlways, PTL

\* The verification does not find fault with the provider.
LEMMA ProviderPasses ==
    ASSUME RootfsInv, pc = "verify", ~ownPerl
    PROVE  ~(Provided /\ ProviderIssues(final, "v1"))
  <1> SUFFICES ASSUME Provided PROVE ~ProviderIssues(final, "v1")
    OBVIOUS
  <1>1. final \in Trees
    BY DEF RootfsInv, RootfsTypeOK
  <1>2. Sole(final) /\ Node(final, <<"canon", "v1">>).is = "file"
    BY DEF RootfsInv, ProviderInv, Provided, Told
  <1>3. "v1" \in Exact
    BY DEF Exact
  <1>4. Aligned(final)
    BY <1>2, <1>3 DEF Sole
  <1>5. QED BY <1>1, <1>2, <1>4, AlignedHasNoIssue

LEMMA PruningStep ==
    RootfsInv /\ [Next]_vars =>
        [pc = "verify" /\ pc' = "failed" => \/ Unneeded /\ traits.loadedBy = "libraries"
                                            \/ strayed
                                            \/ ownPerl]_vars
  <1> SUFFICES ASSUME RootfsInv, Next, pc = "verify", pc' = "failed", ~strayed, ~ownPerl
               PROVE  Unneeded /\ traits.loadedBy = "libraries"
    OBVIOUS
  <1>1. Verify
    <2>1. ~Prepare
      BY PrepareIs
    <2>2. QED BY <2>1 DEF Next, Publish, PrepareStops, Build, PortsDone, Assemble, Layout, Sync,
                       Register, Reconciles, Seed, Prune, Settle, Restart
  <1>2. final.merged
    BY DEF RootfsInv, LaidInv, Sealed
  <1>3. ~ShadowIssues(final)
    BY <1>2 DEF ShadowIssues
  <1>4. ~(Provided /\ ProviderIssues(final, "v1"))
    BY ProviderPasses
  <1>5. traits.loadedBy # "nothing" /\ ~Found(final)
    BY <1>1, <1>3, <1>4 DEF Verify
  <1>6. Shaped(final) /\ (Led(final) \/ Unneeded)
    BY <1>5 DEF RootfsInv, FinalInv, Sealed
  <1>7. Unneeded
    BY <1>5, <1>6, ShapedFound
  <1>8. QED BY <1>5, <1>7 DEF Unneeded, RootfsInv, RootfsTypeOK, Traits

\* The verification of the image fails for a library that was pruned though libraries
\* load it, that a port has installed elsewhere, or that a Perl built from source has
\* taken away, and for no other reason.
THEOREM OnlyPruningAlwaysBreaks == Spec => OnlyPruningBreaks
  BY PruningStep, RootfsInvAlways, PTL DEF Spec, OnlyPruningBreaks

=============================================================================
