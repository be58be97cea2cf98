------------------------- MODULE DependencyAnalyzer -------------------------
(***************************************************************************)
(* analysis/scripts/analyze_dependencies.py: main() checks its argument,   *)
(* run_analysis() scans every C file, then every assembly file, then every *)
(* header against every source file, records the fixed integration gaps,  *)
(* and save_results() writes the JSON report and three DOT graphs.         *)
(*                                                                         *)
(* A file is its relative path; its text is abstracted to what the regular *)
(* expressions find in it (Content).  Opening a file may fail: the        *)
(* exception is printed and the file skipped.  Reading a file once or      *)
(* three times gives the same outcome (Unreadable is fixed at the start).  *)
(***************************************************************************)
EXTENDS Naturals, Sequences, FiniteSets, PyStr

CONSTANTS
    Files,        \* what src/**/*.c and src/**/*.asm glob, as paths
    Headers,      \* the names include/*.h globs
    Content,      \* Content[f]: [features, wrong, includes] found in f's text
    ArgOk,        \* the values "len(sys.argv) == 2" may take
    Unreadable    \* the sets of files open() may fail on

Features == {"dma_safety", "cache_coherency", "runtime_config"}
IncorrectPatterns == <<"PRODUCT_ID", "TXSTAT_COMPLETE", "MEDIA_TP", "RX_FILTER_PROM">>

ASSUME /\ \A f \in Files : EndsWith(f, ".c") \/ EndsWith(f, ".asm")
       /\ \A f \in Files : /\ Content[f].features \subseteq Features
                           /\ Content[f].wrong \subseteq 1..Len(IncorrectPatterns)
                           /\ Content[f].includes \subseteq Headers
       /\ ArgOk \subseteq BOOLEAN
       /\ Unreadable \subseteq SUBSET Files

\* __init__'s three name lists.
CoreFiles ==
    { "3c509b.c", "3c515.c", "nic_init.c", "api.c", "packet_ops.c",
      "buffer_alloc.c", "memory.c", "config.c", "stats.c", "promisc.c",
      "media_control.c", "hardware.c", "packet_api.asm", "nic_irq.asm",
      "hardware.asm" }
IntegrationFiles ==
    { "dma_safety.c", "cache_coherency.c", "cache_management.c",
      "runtime_config.c", "xms_buffer_migration.c", "handle_compact.c",
      "multi_nic_coord.c", "cache_ops.asm" }
PciFiles ==
    { "3com_vortex.c", "3com_boomerang.c", "3com_init.c",
      "3com_power.c", "3com_performance.c", "3c900tpo.c" }

CFiles == {f \in Files : EndsWith(f, ".c")}
AsmFiles == {f \in Files : EndsWith(f, ".asm")}

VARIABLES
    pc,                 \* "start", "c", "asm", "hdr", "gaps", "save", "exit"
    todo,               \* files (or headers) the current scan has still to visit
    unreadable,         \* the files open() fails on
    liveFiles,          \* dependencies['live_files'], file names
    orphanedFiles,      \* dependencies['orphaned_files']
    pciFiles,           \* dependencies['pci_files']
    orphanedRefs,       \* dependencies['orphaned_refs'], in scan order
    headerCorrections,  \* dependencies['header_corrections'], in scan order
    cToAsm,             \* dependencies['c_to_asm']: file name -> path scanned
    asmToC,             \* dependencies['asm_to_c']: file name -> path scanned
    headerUsage,        \* dependencies['header_usage']: header -> the paths whose names it lists
    gaps,               \* whether integration_gaps has been filled in
    saved,              \* whether the JSON and DOT files are written
    exitCode

dvars == <<pc, todo, unreadable, liveFiles, orphanedFiles, pciFiles, orphanedRefs,
           headerCorrections, cToAsm, asmToC, headerUsage, gaps, saved, exitCode>>
scanned == <<liveFiles, orphanedFiles, pciFiles, orphanedRefs, headerCorrections,
             cToAsm, asmToC, headerUsage>>

\* Faulty variant: a file keyed by its path instead of its name.
KeyPath(f) == f

\* filename = c_file.name (asm_file.name): the key of every record.
Key(f) == BaseName(f)

\* dict[name] = value: a new key or an overwritten one.
Put(d, k, v) == [n \in DOMAIN d \cup {k} |-> IF n = k THEN v ELSE d[n]]

\* One record per incorrect pattern that occurs in f, in pattern order.
Corrections(f) ==
    LET hits == SelectSeq([i \in 1..Len(IncorrectPatterns) |-> i],
                          LAMBDA i : i \in Content[f].wrong)
    IN  [j \in 1..Len(hits) |-> [file |-> Key(f), pattern |-> IncorrectPatterns[hits[j]]]]

-----------------------------------------------------------------------------
Init ==
    /\ pc = "start"
    /\ todo = {}
    /\ unreadable \in Unreadable
    /\ liveFiles = {} /\ orphanedFiles = {} /\ pciFiles = {}
    /\ orphanedRefs = <<>> /\ headerCorrections = <<>>
    /\ cToAsm = <<>> /\ asmToC = <<>>
    /\ headerUsage = <<>>
    /\ gaps = FALSE /\ saved = FALSE
    /\ exitCode = 0

\* main(): the wrong number of arguments ends the run with status 1.
Usage ==
    /\ pc = "start"
    /\ FALSE \in ArgOk
    /\ pc' = "exit" /\ exitCode' = 1
    /\ UNCHANGED <<todo, unreadable, scanned, gaps, saved>>

Start ==
    /\ pc = "start"
    /\ TRUE \in ArgOk
    /\ pc' = "c" /\ todo' = CFiles
    /\ UNCHANGED <<unreadable, scanned, gaps, saved, exitCode>>

\* Faulty variant: only the C loop catches the exception; an unreadable
\* assembly file would end the script.
ScanFailsCOnly(f) ==
    /\ pc = "c"
    /\ f \in todo
    /\ f \in unreadable
    /\ todo' = todo \ {f}
    /\ UNCHANGED <<pc, unreadable, scanned, gaps, saved, exitCode>>

\* One pass of analyze_watcom_nasm_deps's or analyze_asm_files's loop for a
\* file open() fails on: the error is printed and the loop goes on.
ScanFails(f) ==
    /\ pc \in {"c", "asm"}
    /\ f \in todo
    /\ f \in unreadable
    /\ todo' = todo \ {f}
    /\ UNCHANGED <<pc, unreadable, scanned, gaps, saved, exitCode>>

\* The records of one C file: orphaned_refs, one header correction per
\* pattern found, its c_to_asm entry, and its category.
ScanC(f) ==
    LET name == Key(f) IN
    /\ pc = "c"
    /\ f \in todo
    /\ f \notin unreadable
    /\ todo' = todo \ {f}
    /\ orphanedRefs' = IF Content[f].features # {}
                       THEN Append(orphanedRefs, [file |-> name, features |-> Content[f].features])
                       ELSE orphanedRefs
    /\ headerCorrections' = headerCorrections \o Corrections(f)
    /\ cToAsm' = Put(cToAsm, name, f)
    /\ liveFiles' = IF name \in CoreFiles THEN liveFiles \cup {name} ELSE liveFiles
    /\ orphanedFiles' = IF name \notin CoreFiles /\ name \in IntegrationFiles
                        THEN orphanedFiles \cup {name} ELSE orphanedFiles
    /\ pciFiles' = IF name \notin CoreFiles \cup IntegrationFiles /\ name \in PciFiles
                   THEN pciFiles \cup {name} ELSE pciFiles
    /\ UNCHANGED <<pc, unreadable, asmToC, headerUsage, gaps, saved, exitCode>>

\* End of analyze_watcom_nasm_deps; analyze_asm_files starts.
EndCScan ==
    /\ pc = "c" /\ todo = {}
    /\ pc' = "asm" /\ todo' = AsmFiles
    /\ UNCHANGED <<unreadable, scanned, gaps, saved, exitCode>>

\* One pass of analyze_asm_files's loop: its asm_to_c entry and category
\* (the PCI list is not consulted for assembly files).
ScanAsm(f) ==
    LET name == Key(f) IN
    /\ pc = "asm"
    /\ f \in todo
    /\ f \notin unreadable
    /\ todo' = todo \ {f}
    /\ asmToC' = Put(asmToC, name, f)
    /\ liveFiles' = IF name \in CoreFiles THEN liveFiles \cup {name} ELSE liveFiles
    /\ orphanedFiles' = IF name \notin CoreFiles /\ name \in IntegrationFiles
                        THEN orphanedFiles \cup {name} ELSE orphanedFiles
    /\ UNCHANGED <<pc, unreadable, pciFiles, orphanedRefs, headerCorrections,
                   cToAsm, headerUsage, gaps, saved, exitCode>>

EndAsmScan ==
    /\ pc = "asm" /\ todo = {}
    /\ pc' = "hdr" /\ todo' = Headers
    /\ UNCHANGED <<unreadable, scanned, gaps, saved, exitCode>>

\* Faulty variant: the header gets a key even when nobody includes it.
ScanHeaderAnyKey(h) ==
    LET users == {f \in CFiles \cup AsmFiles : f \notin unreadable /\ h \in Content[f].includes}
    IN  /\ pc = "hdr"
        /\ h \in todo
        /\ todo' = todo \ {h}
        /\ headerUsage' = Put(headerUsage, h, users)
        /\ UNCHANGED <<pc, unreadable, liveFiles, orphanedFiles, pciFiles, orphanedRefs,
                       headerCorrections, cToAsm, asmToC, gaps, saved, exitCode>>

\* One pass of analyze_header_usage's outer loop: every source file that
\* opens and includes the header is listed under it; a file open() fails
\* on is skipped by the bare except; a header nobody includes gets no key.
ScanHeader(h) ==
    LET users == {f \in CFiles \cup AsmFiles : f \notin unreadable /\ h \in Content[f].includes}
    IN  /\ pc = "hdr"
        /\ h \in todo
        /\ todo' = todo \ {h}
        /\ headerUsage' = IF users # {} THEN Put(headerUsage, h, users) ELSE headerUsage
        /\ UNCHANGED <<pc, unreadable, liveFiles, orphanedFiles, pciFiles, orphanedRefs,
                       headerCorrections, cToAsm, asmToC, gaps, saved, exitCode>>

\* find_integration_gaps, after the header loop: a fixed table.
FindIntegrationGaps ==
    /\ pc = "hdr" /\ todo = {}
    /\ pc' = "save" /\ gaps' = TRUE
    /\ UNCHANGED <<todo, unreadable, scanned, saved, exitCode>>

\* save_results writes the JSON report and the three DOT graphs; main
\* prints the summary and returns.
SaveResults ==
    /\ pc = "save"
    /\ pc' = "exit" /\ saved' = TRUE
    /\ UNCHANGED <<todo, unreadable, scanned, gaps, exitCode>>

Exited ==
    /\ pc = "exit"
    /\ UNCHANGED dvars

Next ==
    \/ Usage \/ Start
    \/ \E f \in Files : ScanFails(f) \/ ScanC(f) \/ ScanAsm(f)
    \/ \E h \in Headers : ScanHeader(h)
    \/ EndCScan \/ EndAsmScan \/ FindIntegrationGaps \/ SaveResults \/ Exited

\* One sequential process that never waits: each step it can take, it takes.
Fairness == WF_dvars(Next)

Spec == Init /\ [][Next]_dvars /\ Fairness

-----------------------------------------------------------------------------
\* The dependencies dict save_results writes, once main() has returned.
SavedReport ==
    [live |-> liveFiles, orphaned |-> orphanedFiles, pci |-> pciFiles,
     refs |-> orphanedRefs, corrections |-> headerCorrections, cToAsm |-> cToAsm,
     asmToC |-> asmToC, headerUsage |-> headerUsage, gaps |-> gaps]

ReportPhase ==
    CASE pc = "start" -> "start"
      [] pc = "exit" /\ exitCode = 1 -> "refused"
      [] pc = "exit" /\ exitCode = 0 -> "done"
      [] pc \notin {"start", "exit"} -> "running"

Report == INSTANCE DependencyReport
            WITH phase <- ReportPhase,
                 report <- IF ReportPhase = "done" THEN SavedReport ELSE [saved |-> FALSE]

\* A run of the script is a run of DependencyReport: refused, or ended with
\* a report whose lists and name-keyed records are what the readable files
\* of the tree say; the per-file handlers, the scan order and the dict
\* overwrites of the three scans together.
ImplementsDependencyReport == Report!RSpec

-----------------------------------------------------------------------------
Names == {BaseName(f) : f \in Files}

TypeOK ==
    /\ pc \in {"start", "c", "asm", "hdr", "save", "exit"}
    /\ todo \subseteq Files \cup Headers
    /\ liveFiles \subseteq CoreFiles
    /\ orphanedFiles \subseteq IntegrationFiles
    /\ pciFiles \subseteq PciFiles
    /\ DOMAIN cToAsm \subseteq Names /\ DOMAIN asmToC \subseteq Names
    /\ \A n \in DOMAIN cToAsm : cToAsm[n] \in CFiles /\ BaseName(cToAsm[n]) = n
    /\ DOMAIN headerUsage \subseteq Headers
    /\ exitCode \in {0, 1}

\* Once the arguments are accepted, the analysis always ends with the JSON
\* report and the DOT graphs written, whatever files cannot be opened: the
\* per-file exception handlers of the C, assembly and header scans.
ReportsWritten == (pc = "c") ~> (pc = "exit" /\ saved)

\* When the run ends normally, live_files (and the summary's "Live files"
\* count) names every globbed file of the core list.
LiveFilesComplete ==
    (pc = "exit" /\ exitCode = 0) => liveFiles = Names \cap CoreFiles
=============================================================================
