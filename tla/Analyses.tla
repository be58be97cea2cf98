------------------------------ MODULE Analyses ------------------------------
(***************************************************************************)
(* The two analysis scripts run over the same source tree: the orphan      *)
(* analysis (OrphanAnalyzer), then the dependency analysis                 *)
(* (DependencyAnalyzer).  They share no state; what composes them is the   *)
(* reader, who takes the orphan report's "safe to delete" advice next to   *)
(* the dependency report's live, orphaned and PCI lists.  Each script     *)
(* keeps its own hard-coded notion of what is live.                        *)
(***************************************************************************)
EXTENDS Naturals, PyStr

CONSTANTS Files, RgInstalled, Headers, Content, ArgOk, Unreadable

VARIABLES opc, pending, referenced, rg, orphaned, report,
          dpc, todo, unreadable, liveFiles, orphanedFiles, pciFiles, orphanedRefs,
          headerCorrections, cToAsm, asmToC, headerUsage, gaps, saved, exitCode

O == INSTANCE OrphanAnalyzer WITH pc <- opc
D == INSTANCE DependencyAnalyzer WITH pc <- dpc

ovars == <<opc, pending, referenced, rg, orphaned, report>>
dvars == <<dpc, todo, unreadable, liveFiles, orphanedFiles, pciFiles, orphanedRefs,
           headerCorrections, cToAsm, asmToC, headerUsage, gaps, saved, exitCode>>
vars == <<ovars, dvars>>

Init == O!Init /\ D!Init

\* analyze_orphans.py runs to its end, then analyze_dependencies.py.
Next ==
    \/ opc # "done" /\ O!Next /\ UNCHANGED dvars
    \/ opc = "done" /\ D!Next /\ UNCHANGED ovars

Spec == Init /\ [][Next]_vars /\ WF_vars(Next)

BothDone == opc = "done" /\ dpc = "exit" /\ saved

\* The orphan report's HIGH bucket ("Safe to delete"), by file name.
SafeToDeleteNames == {BaseName(f) : f \in report.high}

\* When both reports are out, no file the dependency report lists as an
\* orphaned feature that "should be integrated" (dma_safety.c,
\* cache_ops.asm, runtime_config.c ...) is rated safe to delete by the
\* orphan report: the two scripts' category lists and the orphan report's
\* HIGH bound agree on them.
IntegrationFilesNeverSafe ==
    BothDone => orphanedFiles \cap SafeToDeleteNames = {}

\* When both reports are out, no file the dependency report lists as live
\* driver code is rated safe to delete by the orphan report.
LiveNeverSafe ==
    BothDone => liveFiles \cap SafeToDeleteNames = {}
=============================================================================
