------------------------ MODULE MCDependencyAnalyzer ------------------------
(***************************************************************************)
(* A small tree for DependencyAnalyzer: a core, an integration and a PCI C *)
(* file, two C files of one name in two directories, a core and an         *)
(* integration assembly file, and three headers, one included nowhere;     *)
(* either the core C file or the core assembly file, or both, may fail to  *)
(* open.                                                                   *)
(***************************************************************************)
EXTENDS DependencyAnalyzer, TLC

Text(features, wrong, includes) == [features |-> features, wrong |-> wrong, includes |-> includes]

MCContent ==
    ( "src/c/api.c"             :> Text({"dma_safety"}, {1, 3}, {"3c509b.h"})
   @@ "src/c/dma_safety.c"      :> Text({"dma_safety", "cache_coherency"}, {}, {"dma.h"})
   @@ "src/c/3com_vortex.c"     :> Text({}, {4}, {"3c509b.h"})
   @@ "src/loader/cpu_detect.c" :> Text({}, {}, {})
   @@ "src/c/cpu_detect.c"      :> Text({}, {2}, {"dma.h"})
   @@ "src/asm/hardware.asm"    :> Text({}, {}, {"3c509b.h"})
   @@ "src/asm/cache_ops.asm"   :> Text({}, {}, {}) )

MCFiles == DOMAIN MCContent
MCHeaders == {"3c509b.h", "dma.h", "pnp.h"}
MCUnreadable == SUBSET {"src/c/api.c", "src/asm/hardware.asm"}
=============================================================================
