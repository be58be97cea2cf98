-------------------------- MODULE MCOrphanAnalyzer --------------------------
(***************************************************************************)
(* Small source trees for OrphanAnalyzer, named after files the scripts    *)
(* themselves list: one live file and one orphan of each category the      *)
(* chain can reach; every choice of which orphans live code mentions is    *)
(* explored.                                                               *)
(***************************************************************************)
EXTENDS OrphanAnalyzer

\* The tree of the passing run: test/demo, DMA/cache (C and assembly),
\* performance, general, and an assembly file whose base name is part of
\* a live *_smc.asm path.
MCFiles ==
    { "src/c/api.c", "src/c/console.c", "src/c/dma_safety.c",
      "src/c/multi_nic_coord.c", "src/c/media_control.c",
      "src/asm/cache_ops.asm", "src/asm/hardware.asm" }

\* The hardware categories, and a name with both a test and a DMA keyword.
MCFilesHw ==
    { "src/c/api.c", "src/c/3com_vortex.c", "src/c/3c515_enhanced.c",
      "src/c/dma_test.c", "src/c/dma_safety.c" }
=============================================================================
