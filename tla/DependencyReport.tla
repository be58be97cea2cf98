-------------------------- MODULE DependencyReport --------------------------
(***************************************************************************)
(* What analyze_dependencies.py promises of the report it saves, stated    *)
(* over the source tree as a whole: the run is refused, or it ends with    *)
(* one report in which every list and record is what the tree's readable   *)
(* files say.  No scan order, no per-file steps: a name-keyed record comes *)
(* from some readable file of that name.  DependencyAnalyzer is shown to   *)
(* implement this specification.                                           *)
(***************************************************************************)
EXTENDS Naturals, Sequences, FiniteSets, Functions, PyStr

CONSTANTS
    Files, Headers, Content, ArgOk, Unreadable,
    CoreFiles, IntegrationFiles, PciFiles,   \* the script's three name lists
    IncorrectPatterns                        \* the header patterns, in order

VARIABLES
    phase,       \* "start", "running", "done" or "refused"
    unreadable,  \* the files that cannot be opened
    report       \* the saved report, whatever it is before the run is done

rvars == <<phase, unreadable, report>>

NamesOf(S) == {BaseName(f) : f \in S}

\* r is the report of a tree whose unreadable files are u.
Conforms(r, u) ==
    LET readable == Files \ u
        cs == {f \in readable : EndsWith(f, ".c")}
        as == {f \in readable : EndsWith(f, ".asm")}
        usersOf(h) == {f \in readable : h \in Content[f].includes}
        KeyedBy(d, S) == /\ DOMAIN d = NamesOf(S)
                         /\ \A n \in DOMAIN d : d[n] \in S /\ BaseName(d[n]) = n
    IN  /\ r.live = NamesOf(readable) \cap CoreFiles
        /\ r.orphaned = (NamesOf(readable) \cap IntegrationFiles) \ CoreFiles
        /\ r.pci = (NamesOf(cs) \cap PciFiles) \ (CoreFiles \cup IntegrationFiles)
        /\ Range(r.refs) = {[file |-> BaseName(f), features |-> Content[f].features] :
                               f \in {g \in cs : Content[g].features # {}}}
        /\ Range(r.corrections) =
              {[file |-> BaseName(f), pattern |-> IncorrectPatterns[i]] :
                  <<f, i>> \in {<<g, j>> \in cs \X DOMAIN IncorrectPatterns :
                                   j \in Content[g].wrong}}
        /\ KeyedBy(r.cToAsm, cs)
        /\ KeyedBy(r.asmToC, as)
        /\ DOMAIN r.headerUsage = {h \in Headers : usersOf(h) # {}}
        /\ \A h \in DOMAIN r.headerUsage : r.headerUsage[h] = usersOf(h)
        /\ r.gaps

RInit ==
    /\ phase = "start"
    /\ unreadable \in Unreadable

Refuse ==
    /\ phase = "start" /\ FALSE \in ArgOk
    /\ phase' = "refused"
    /\ UNCHANGED <<unreadable, report>>

Begin ==
    /\ phase = "start" /\ TRUE \in ArgOk
    /\ phase' = "running"
    /\ UNCHANGED <<unreadable, report>>

Finish ==
    /\ phase = "running"
    /\ phase' = "done"
    /\ Conforms(report', unreadable)
    /\ UNCHANGED unreadable

RNext == Refuse \/ Begin \/ Finish

RSpec == RInit /\ [][RNext]_rvars
=============================================================================
