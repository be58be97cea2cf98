--------------------------- MODULE OrphanAnalyzer ---------------------------
(***************************************************************************)
(* The orphan-code analysis of analysis/scripts/analyze_orphans.py: main() *)
(* calls generate_report(), which runs analyze_codebase() over every       *)
(* globbed source file (one step per file), then groups the orphans into   *)
(* confidence buckets and the two deletion lists of the report.            *)
(*                                                                         *)
(* Files are their relative paths, and the category chain runs the code's  *)
(* own substring tests on their names.  What the three ripgrep patterns    *)
(* find is abstracted to whether live code mentions the file; the report   *)
(* text is left out, its lists are kept as sets.                           *)
(***************************************************************************)
EXTENDS Integers, Sequences, FiniteSets, PyStr

CONSTANTS
    Files,        \* what find_all_source_files globs: src/**/*.c, src/**/*.asm
    RgInstalled   \* the values "is ripgrep installed" may take

ASSUME /\ \A f \in Files : EndsWith(f, ".c") \/ EndsWith(f, ".asm")
       /\ RgInstalled \subseteq BOOLEAN

\* _load_live_files: the Makefile's hot, cold, debug and assembly objects.
LiveFiles ==
    { "src/c/api.c", "src/c/routing.c", "src/c/packet_ops.c",
      "src/c/init.c", "src/c/config.c", "src/c/memory.c", "src/c/xms_detect.c",
      "src/c/umb_loader.c", "src/c/eeprom.c", "src/c/buffer_alloc.c",
      "src/c/buffer_autoconfig.c", "src/c/static_routing.c", "src/c/arp.c",
      "src/c/nic_init.c", "src/c/hardware.c", "src/c/3c515.c", "src/c/3c509b.c",
      "src/loader/cpu_detect.c", "src/loader/patch_apply.c",
      "src/c/diagnostics.c", "src/c/logging.c", "src/c/stats.c",
      "src/asm/packet_api_smc.asm", "src/asm/nic_irq_smc.asm",
      "src/asm/hardware_smc.asm", "src/asm/flow_routing.asm",
      "src/asm/direct_pio.asm", "src/asm/tsr_common.asm", "src/asm/tsr_loader.asm",
      "src/asm/cpu_detect.asm", "src/asm/pnp.asm", "src/asm/promisc.asm",
      "src/asm/smc_patches.asm" }

VARIABLES
    pc,          \* "analyze", "report" or "done"
    pending,     \* files analyze_codebase() has still to visit
    referenced,  \* the files live code mentions (what rg would find)
    rg,          \* whether the rg subprocess can be started
    orphaned,    \* self.orphaned_files: FileInfo records, in visit order
    report       \* the report's buckets and deletion lists

vars == <<pc, pending, referenced, rg, orphaned, report>>

FileInfo == [file : Files, category : STRING, confidence : Int, referenced : BOOLEAN]

-----------------------------------------------------------------------------
(* categorize_orphaned_file: the first matching test decides.             *)

\* any(keyword in name for keyword in ws)
HasWord(name, ws) == \E w \in ws : Contains(name, w)

Info(f, category, confidence) ==
    [file |-> f, category |-> category, confidence |-> confidence, referenced |-> FALSE]

\* base_name in some live *_smc.asm path (a substring of the whole path).
AsmDuplicate(name) ==
    LET base == Replace(name, ".asm", "")
    IN  \E live \in LiveFiles : EndsWith(live, "_smc.asm") /\ Contains(live, base)

Categorize(f) ==
    LET name == BaseName(f) IN
    IF EndsWith(name, ".bak") THEN Info(f, "backup", 100)
    ELSE IF HasWord(Lower(name), {"test", "demo", "ansi_demo", "console"})
         THEN Info(f, "test_demo", 95)
    ELSE IF HasWord(name, {"3com_", "vortex", "boomerang"})
         THEN Info(f, "pci_vortex", 90)
    ELSE IF HasWord(name, {"enhanced", "3c515_enhanced", "3c509b_pio"})
         THEN Info(f, "enhanced_duplicate", 85)
    ELSE IF HasWord(name, {"dma_", "cache_"}) THEN Info(f, "dma_safety", 20)
    ELSE IF HasWord(name, {"performance", "multi_nic", "runtime_config"})
         THEN Info(f, "performance", 60)
    ELSE IF EndsWith(name, ".asm") /\ AsmDuplicate(name)
         THEN Info(f, "asm_duplicate", 90)
    ELSE Info(f, "general_orphan", 70)

\* find_references: rg over the live files that exist; if rg cannot be
\* started the FileNotFoundError is swallowed and nothing is found.
FindReferences(f) == rg /\ LiveFiles \cap Files # {} /\ f \in referenced

\* Faulty variant: references searched only below 60.
NeedsReferenceSearchBelow60(confidence) == confidence < 60

\* "Only check references for uncertain files".
NeedsReferenceSearch(confidence) == confidence < 80

\* Faulty variant: the lowered confidence is not floored at 10.
AdjustedNoFloor(confidence) == confidence - 30

\* max(10, confidence - 30) for a referenced safety or performance file.
Adjusted(confidence) == IF confidence - 30 > 10 THEN confidence - 30 ELSE 10

\* The loop body of analyze_codebase for a file that is not live.
Assess(f) ==
    LET info == Categorize(f)
        refs == FindReferences(f)
    IN  IF ~NeedsReferenceSearch(info.confidence) THEN info
        ELSE IF refs /\ info.category \in {"dma_safety", "performance"}
        THEN [info EXCEPT !.referenced = TRUE,
                          !.confidence = Adjusted(@)]
        ELSE [info EXCEPT !.referenced = refs]

\* glob('src/**/*.c') + glob('src/**/*.asm'): every .c file comes first,
\* each glob in the file system's order.
NextFiles ==
    LET cs == {f \in pending : EndsWith(f, ".c")}
    IN  IF cs # {} THEN cs ELSE pending

-----------------------------------------------------------------------------
NoReport == [safe |-> {}, critical |-> {}, high |-> {}, medium |-> {}, low |-> {}]

Init ==
    /\ pc = "analyze"
    /\ pending = Files
    /\ referenced \in SUBSET (Files \ LiveFiles)
    /\ rg \in RgInstalled
    /\ orphaned = <<>>
    /\ report = NoReport

\* A live file is skipped.
VisitLive(f) ==
    /\ pc = "analyze"
    /\ f \in NextFiles
    /\ f \in LiveFiles
    /\ pending' = pending \ {f}
    /\ UNCHANGED <<pc, referenced, rg, orphaned, report>>

VisitOrphan(f) ==
    /\ pc = "analyze"
    /\ f \in NextFiles
    /\ f \notin LiveFiles
    /\ pending' = pending \ {f}
    /\ orphaned' = Append(orphaned, Assess(f))
    /\ UNCHANGED <<pc, referenced, rg, report>>

\* Faulty variant: the HIGH bucket starts at 70.
IsHighFrom70(confidence) == confidence >= 70

\* "HIGH Confidence (>=85%) ... Safe to delete".
IsHigh(confidence) == confidence >= 85

\* generate_report's summary buckets and its two action lists.
WriteReport ==
    /\ pc = "analyze"
    /\ pending = {}
    /\ LET os == {orphaned[i] : i \in 1..Len(orphaned)}
       IN  report' = [safe     |-> {o.file : o \in {x \in os : x.confidence >= 95}},
                      critical |-> {o.file : o \in {x \in os : x.referenced /\ x.confidence < 50}},
                      high     |-> {o.file : o \in {x \in os : IsHigh(x.confidence)}},
                      medium   |-> {o.file : o \in {x \in os : 60 <= x.confidence /\ x.confidence < 85}},
                      low      |-> {o.file : o \in {x \in os : x.confidence < 60}}]
    /\ pc' = "done"
    /\ UNCHANGED <<pending, referenced, rg, orphaned>>

Done ==
    /\ pc = "done"
    /\ UNCHANGED vars

Next ==
    \/ \E f \in Files : VisitLive(f) \/ VisitOrphan(f)
    \/ WriteReport
    \/ Done

Spec == Init /\ [][Next]_vars

-----------------------------------------------------------------------------
TypeOK ==
    /\ pc \in {"analyze", "done"}
    /\ pending \subseteq Files
    /\ referenced \subseteq Files \ LiveFiles
    /\ rg \in BOOLEAN
    /\ orphaned \in Seq(FileInfo)
    /\ \A i \in 1..Len(orphaned) : orphaned[i].confidence \in 10..100
    /\ report \in [{"safe", "critical", "high", "medium", "low"} -> SUBSET Files]

\* When the analysis is done, every DMA/cache-safety or performance file
\* that live code mentions is listed under "Critical - DO NOT DELETE" and
\* rated low: categorize_orphaned_file, the reference search threshold,
\* the confidence adjustment and the report's bucket bounds together.
ReferencedSafetyFilesKept ==
    pc = "done" =>
        \A f \in referenced :
            Categorize(f).category \in {"dma_safety", "performance"} =>
                f \in report.critical /\ f \in report.low /\ f \notin report.safe

\* When the analysis is done, no file that live code mentions is rated
\* safe to delete ("HIGH Confidence (>=85%) ... Safe to delete").
ReferencedNeverSafe ==
    pc = "done" => \A f \in referenced : f \notin report.high
=============================================================================
