---------------------------- MODULE RootfsLayout ----------------------------
(***************************************************************************)
(* The functions of builder.py that move the files of one shared library   *)
(* of a staged tree: merge and overlay, the repair of links between the    *)
(* trees, the multiarch and merged-/usr layouts, and the reconciliation    *)
(* with the provider of the Debian packages.                               *)
(*                                                                         *)
(* A place is a directory and one of the names of the library.  A link is  *)
(* known by the place its text leads to, as seen from where it stands, and *)
(* by the tree that place is in, so a link that is relocated keeps both.   *)
(***************************************************************************)
EXTENDS Naturals, Sequences

\* lib64 and usr/lib64, lib and usr/lib with x86_64-linux-gnu ("lib", "canon"),
\* usr/lib itself and usr/lib/lib.
Dirs == {"lib64", "usrlib64", "lib", "canon", "top", "dup"}

\* libX.so, libX.so.1, and two exact versions, in the order the directories are read.
NamesInOrder == <<"dev", "soname", "v1", "v2">>
Names  == {NamesInOrder[i] : i \in DOMAIN NamesInOrder}
Exact  == {"v1", "v2"}
Places == Dirs \X Names

None    == [is |-> "none"]
File(o) == [is |-> "file", own |-> o]
LinkTo(p) == [is |-> "link", to |-> p, tree |-> "here"]
\* A link to the wide library beside this one, libncursesw.so.6 beside libncurses.so.6.
Wide    == [is |-> "wide"]
Nodes == {None, File("deb"), File("port"), Wide}
         \cup [is : {"link"}, to : Places, tree : {"here", "sysroot"}]

\* merged: lib is a link to usr/lib; lib64: lib64 is one to usr/lib64.
Trees == [at : [Places -> Nodes], merged : BOOLEAN, lib64 : BOOLEAN]

Alias(t, p) ==
    CASE t.merged /\ p[1] = "lib" -> <<"canon", p[2]>>
      [] t.lib64 /\ p[1] = "lib64" -> <<"usrlib64", p[2]>>
      [] OTHER -> p

Node(t, p) == t.at[Alias(t, p)]
Put(t, p, node) == [t EXCEPT !.at[Alias(t, p)] = node]

\* resolve_rootfs_path: no chain of links here is longer than the names.
Hop(t, p) ==
    IF Node(t, p).is = "link" /\ Node(t, p).tree = "here" THEN Node(t, p).to ELSE p
Resolved(t, p) == Alias(t, Hop(t, Hop(t, Hop(t, Hop(t, p)))))
Exists(t, p) == Node(t, Resolved(t, p)).is \in {"file", "wide"}

\* find_rootfs_library looks in every directory but usr/lib/lib.
Found(t) == \E d \in Dirs \ {"dup"} : Exists(t, <<d, "soname">>)

-----------------------------------------------------------------------------
\* Each name in turn; op takes the tree and the name.
ForNames(op(_, _), t) == op(op(op(op(t, "dev"), "soname"), "v1"), "v2")

\* merge_rootfs_entry: what is moved replaces what is there, except that a link to
\* the very place it is moved to is dropped.
Move(t, from, to) ==
    IF Node(t, from) = None \/ Alias(t, from) = Alias(t, to) THEN t
    ELSE Put(IF Node(t, from) = LinkTo(to) THEN t ELSE Put(t, to, Node(t, from)), from, None)

MoveDir(t, d, e) == ForNames(LAMBDA u, n : Move(u, <<d, n>>, <<e, n>>), t)

\* normalize_rootfs_multiarch_layout, its migration_specs.
Migrate(t) == MoveDir(IF t.lib64 THEN t ELSE MoveDir(t, "lib64", "lib"), "usrlib64", "canon")

\* normalize_duplicate_usr_lib_subdir
Deduplicate(t) == MoveDir(t, "dup", "canon")

\* prune_shadowed_rootfs_runtime_libraries, for a library that is not a core one.
Unshadow(t) ==
    IF t.merged THEN t
    ELSE ForNames(LAMBDA u, n : IF Node(u, <<"canon", n>>) # None
                                THEN Put(u, <<"lib", n>>, None) ELSE u, t)

\* The member of the family in canon that stands for it: the newest exact version.
Family(t, n) == {m \in Names \ {n} : Node(t, <<"canon", m>>) # None}
Newest(ms) == CHOOSE m \in ms : \A o \in ms : \E i, j \in DOMAIN NamesInOrder :
                 NamesInOrder[i] = m /\ NamesInOrder[j] = o /\ j <= i

\* normalize_rootfs_usr_lib_top_level, for one entry; no manifest names an exact version
\* of usr/lib, which would be moved like the others.
MoveUp(t, n) ==
    LET here == Node(t, <<"top", n>>)
        gone == Put(t, <<"top", n>>, None)
        kin  == IF here.is = "link" /\ Node(t, <<"canon", here.to[2]>>) # None
                THEN {here.to[2]} ELSE Family(t, n)
    IN  IF here = None THEN t
        ELSE IF Node(t, <<"canon", n>>) # None THEN gone
        ELSE IF here.is = "link"
             THEN IF kin = {} THEN gone ELSE Put(gone, <<"canon", n>>, LinkTo(<<"canon", Newest(kin)>>))
        ELSE IF n \in Exact /\ kin # {} THEN gone
        ELSE Put(Put(t, <<"canon", n>>, here), <<"top", n>>, LinkTo(<<"canon", n>>))

\* ensure_multiarch_dev_compat
LinkLib64(t) == [t EXCEPT !.lib64 = TRUE,
                          !.at = [p \in Places |-> IF p[1] = "lib64" THEN None ELSE t.at[p]]]

Normalise(t) ==
    LinkLib64(ForNames(MoveUp, Unshadow(Deduplicate(Migrate(t)))))

\* ensure_usrmerge_layout
UsrMerge(t) == [MoveDir(t, "lib", "canon") EXCEPT !.merged = TRUE]

-----------------------------------------------------------------------------
\* overlay_rootfs_entry: links of the sysroot still lead there.
Carried(node) == IF node.is = "link" THEN [node EXCEPT !.tree = "sysroot"] ELSE node

Overlay(t, sysroot) ==
    [at     |-> [p \in Places |-> IF sysroot.at[p] = None THEN t.at[p]
                                  ELSE Carried(sysroot.at[p])],
     merged |-> sysroot.merged,
     lib64  |-> sysroot.lib64]

\* Mutation: the links that were carried are not looked for.
RepairNothing(t) == t

\* repair_cross_stage_rootfs_symlinks
Repair(t) ==
    [t EXCEPT !.at = [p \in Places |-> IF t.at[p].is = "link"
                                       THEN [t.at[p] EXCEPT !.tree = "here"] ELSE t.at[p]]]

\* The exact versions of canon but the one named keep.
OnlyExact(t, keep) ==
    ForNames(LAMBDA u, n : IF n \in Exact \ {keep} /\ Node(u, <<"canon", n>>).is = "file"
                           THEN Put(u, <<"canon", n>>, None) ELSE u, t)

\* reconcile_base_debian_runtime_providers: the links of the family are turned to the
\* provider, the other exact versions beside it are removed.
Turned(t, p, provider, always) ==
    IF Node(t, p).is \in {"link", "wide"} \/ (always /\ ~Exists(t, p))
    THEN Put(t, p, LinkTo(<<"canon", provider>>)) ELSE t

\* The unversioned link is turned only where it names an exact version itself.
TurnDev(t, provider) ==
    LET dev == Node(t, <<"canon", "dev">>)
    IN  IF dev.is = "link" /\ dev.to[2] \in Exact
        THEN Turned(t, <<"canon", "dev">>, provider, FALSE) ELSE t

\* Mutation: the link is turned, the stale versions stay.
ReconcileLinks(t, provider) ==
    TurnDev(Turned(t, <<"canon", "soname">>, provider, TRUE), provider)

Reconcile(t, provider) ==
    LET turned == TurnDev(Turned(t, <<"canon", "soname">>, provider, TRUE), provider)
    IN  OnlyExact(turned, provider)

\* get_base_debian_runtime_provider_issues
ProviderIssues(t, provider) ==
    \/ /\ Node(t, <<"canon", "soname">>).is \in {"link", "wide"}
       /\ Resolved(t, <<"canon", "soname">>) # <<"canon", provider>>
    \/ \E n \in Exact \ {provider} : Node(t, <<"canon", n>>).is = "file"

-----------------------------------------------------------------------------
(* What reconcile_ncurses_runtime_fallbacks and                            *)
(* normalize_perl_runtime_layout do to the family.                         *)

\* The narrow library gives way to the wide one.
Narrow(t) ==
    OnlyExact(Put(Put(t, <<"canon", "soname">>, Wide), <<"canon", "dev">>, Wide), "soname")

\* Of the wide library what its SONAME leads to is kept.
KeepActive(t) ==
    IF Exists(t, <<"canon", "soname">>) THEN OnlyExact(t, Resolved(t, <<"canon", "soname">>)[2])
    ELSE t

\* libperl.so.* goes, libperl.so stays.
ClearPerl(t) ==
    ForNames(LAMBDA u, n : IF n = "dev" THEN u ELSE Put(u, <<"canon", n>>, None), t)

-----------------------------------------------------------------------------
\* get_shadowed_runtime_library_issues
ShadowIssues(t) ==
    /\ ~t.merged
    /\ \E n \in Names : /\ Exists(t, <<"lib", n>>) /\ Exists(t, <<"canon", n>>)
                        /\ Resolved(t, <<"lib", n>>) # Resolved(t, <<"canon", n>>)

\* prune_unused_host_runtime_libs, once it has decided on a family.
Drop(t) ==
    [t EXCEPT !.at = [p \in Places |-> IF p[1] \in {"lib", "canon"} THEN None ELSE t.at[p]]]
=============================================================================
