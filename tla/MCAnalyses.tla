---------------------------- MODULE MCAnalyses ----------------------------
(***************************************************************************)
(* One tree for both scripts, of files their own lists name: live in both, *)
(* integration features, and hardware.asm, which the dependency script's   *)
(* core list names and the orphan script's live list does not.           *)
(***************************************************************************)
EXTENDS Analyses, TLC

NoText == [features |-> {}, wrong |-> {}, includes |-> {}]

MCContent ==
    ( "src/c/api.c"                  :> [NoText EXCEPT !.features = {"dma_safety"}]
   @@ "src/c/dma_safety.c"           :> NoText
   @@ "src/c/xms_buffer_migration.c" :> NoText
   @@ "src/c/runtime_config.c"       :> NoText
   @@ "src/asm/cache_ops.asm"        :> NoText
   @@ "src/asm/hardware.asm"         :> NoText )

MCFiles == DOMAIN MCContent
=============================================================================
