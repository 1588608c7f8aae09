----------------------------- MODULE KernelBoot -----------------------------
(***************************************************************************)
(* A machine that installs and removes the kernel packages of the          *)
(* repository (module Repository), and the link /boot/kernel which the     *)
(* maintainer scripts of generate_kernel_scripts move between them.  The   *)
(* image ships /boot/kernel as a file.  gpkg itself is external: it        *)
(* unpacks and then runs postinst, removes the files and then runs postrm. *)
(***************************************************************************)
EXTENDS Repository

VARIABLES
    kernels,        \* releases r whose /boot/kernel-r is a file of the machine
    link,           \* where /boot/kernel leads: a release, "shipped" or "gone"
    step,           \* the script gpkg is about to run, and for which release
    hanging         \* history: a script the link depended on never ran

bootVars == <<kernels, link, step, hanging>>
vars     == <<repoVars, bootVars>>

Idle == [script |-> "none", release |-> 0]

BootTypeOK ==
    /\ RepositoryTypeOK
    /\ kernels \subseteq Releases
    /\ link \in {<<"shipped">>, <<"gone">>} \cup {<<"kernel", r>> : r \in Releases}
    /\ step \in {Idle} \cup [script : {"postinst", "postrm"}, release : Releases]
    /\ hanging \in BOOLEAN

Init ==
    /\ RepositoryInit
    /\ kernels = {} /\ link = <<"shipped">> /\ step = Idle /\ hanging = FALSE

-----------------------------------------------------------------------------
Linked(r) == link = <<"kernel", r>>

\* The digest in the index is checked against what the repository serves.
Offered(r) ==
    readable /\ index[Image(r)] \in 1..MaxBuilds /\ files[Image(r)] = index[Image(r)]

Unpack(r) ==
    /\ step = Idle /\ Offered(r)
    /\ kernels' = kernels \cup {r}
    /\ step' = [script |-> "postinst", release |-> r]
    /\ UNCHANGED <<repoVars, link, hanging>>

PostInst ==
    /\ step.script = "postinst"
    /\ link' = <<"kernel", step.release>>
    /\ hanging' = FALSE
    /\ step' = Idle
    /\ UNCHANGED <<repoVars, kernels>>

Remove(r) ==
    /\ step = Idle /\ r \in kernels
    /\ kernels' = kernels \ {r}
    /\ step' = [script |-> "postrm", release |-> r]
    /\ UNCHANGED <<repoVars, link, hanging>>

\* Mutation: the link is only taken away with the last kernel.
BestIfAny == IF kernels = {} THEN <<"gone">> ELSE link

\* Mutation: an empty answer of find is not noticed.
BestUnchecked == <<"kernel", CHOOSE r \in kernels \cup {0} : \A q \in kernels : q <= r>>

\* sort -V | tail -n 1 over the files that are left.
Best ==
    IF kernels = {} THEN <<"gone">>
    ELSE <<"kernel", CHOOSE r \in kernels : \A q \in kernels : q <= r>>

PostRm ==
    /\ step.script = "postrm"
    /\ link' = IF Linked(step.release) THEN Best ELSE link
    /\ step' = Idle
    /\ UNCHANGED <<repoVars, kernels, hanging>>

\* The machine goes down between the files and the script.
PowerLoss ==
    /\ step # Idle
    /\ faults < MaxFaults /\ faults' = faults + 1
    /\ hanging' = \/ hanging
                  \/ step.script = "postrm" /\ Linked(step.release)
                  \/ step.script = "postinst" /\ link = <<"gone">>
    /\ step' = Idle
    /\ UNCHANGED <<files, index, readable, tree, builds, pc, job, histVars,
                   kernels, link>>

Next ==
    \/ RepositoryNext /\ UNCHANGED bootVars
    \/ \E r \in Releases : Unpack(r) \/ Remove(r)
    \/ PostInst \/ PostRm \/ PowerLoss

Spec == Init /\ [][Next]_vars

-----------------------------------------------------------------------------
\* "That keeps GeminiOS boot compatibility intact" (README.md:522): between two
\* package operations /boot/kernel leads to a kernel that is there, whatever was
\* installed, reinstalled and removed in whatever order, until the last kernel
\* package is removed; only a script that never ran, postrm of the linked kernel or
\* postinst of the only one, leaves it without a kernel until the next installation.
BootLinkResolves ==
    step = Idle /\ ~hanging =>
        \/ kernels = {} /\ link = <<"gone">>
        \/ link = <<"shipped">>
        \/ \E r \in kernels : Linked(r)
=============================================================================
