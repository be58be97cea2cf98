--------------------------- MODULE MCMapVerifier ---------------------------
(***************************************************************************)
(* A small instance of MapVerifier over the code's own catalogs: the       *)
(* packet API group (three aliases), the two required root segments, the   *)
(* 22 optional symbols and the three forbidden objects, and maps of up to  *)
(* four lines drawn from thirteen that between them put every rule on both *)
(* sides of its verdict.                                                   *)
(***************************************************************************)
EXTENDS MapVerifier

CONSTANTS R, O, P   \* a root code address, an overlay section address, and
                    \* a later paragraph of that overlay section

PacketDriverIsr == [base |-> "packet_driver_isr", us |-> 0]
PacketApiEntry  == [base |-> "packet_api_entry", us |-> 0]
LogInfo         == [base |-> "log_info", us |-> 0]     \* 'log_info'

MCSymBases == {"packet_driver_isr", "packet_api_entry", "log_info"}
MCSegNames == {"_TEXT", "rt_stubs_TEXT", "INIT_DATA", "nicinit_TEXT"}

\* The catalogs of verify_map.py, with the packet API group as the one
\* required group: a map of four lines cannot hold all five groups.
MCRequiredSymbols == SubSeq(REQUIRED_SYMBOLS, 1, 1)
MCRequiredRootSegments == REQUIRED_ROOT_SEGMENTS
MCOptionalSymbols == OPTIONAL_SYMBOLS
MCForbiddenInOverlay == FORBIDDEN_IN_OVERLAY

Grp(size) == [kind |-> "group", group |-> "DGROUP", size |-> size]
Seg(name, class, group, addr) ==
    [kind |-> "seg", name |-> name, class |-> class, group |-> group,
     addr |-> addr, size |-> \h100]
Sym(addr, name) == [kind |-> "sym", addr |-> addr, name |-> name]
Ovl(addr) == [kind |-> "ovl", addr |-> addr]

\* DGROUP sizes: D900 is fine in debug and in the production warning zone,
\* F300 is in the debug warning zone and over the production limit, 10000
\* is over every limit.
MCMapLines ==
    { Grp(\hD900), Grp(\hF300), Grp(\h10000),
      Seg("_TEXT", "CODE", "AUTO", R),
      Seg("_TEXT", "CODE", "DGROUP", R),
      Seg("rt_stubs_TEXT", "_OVLCODE", "OVL1", O),
      Seg("INIT_DATA", "DATA", "DGROUP", R),
      Seg("INIT_DATA", "FAR_BSS", "DGROUP", R),
      Sym(O, PacketDriverIsr), Sym(R, PacketDriverIsr), Sym(R, PacketApiEntry),
      Sym(O, LogInfo),
      Ovl(O) }

\* An overlay section holding two code segments: the second one starts at
\* paragraph P, and the packet API entry point is linked into it.
MCParagraphMapLines ==
    { Ovl(O),
      Seg("rt_stubs_TEXT", "CODE", "AUTO", R),
      Seg("nicinit_TEXT", "_OVLCODE", "OVL1", P),
      Sym(P, PacketDriverIsr), Sym(O, PacketApiEntry) }

MCMapPath == "3cpd.map"

\* No argument; the map alone; two mode flags each way; a flag before the
\* map path; and a mode flag in the wrong case.
MCArgVectors ==
    { <<>>,
      <<"3cpd.map">>,
      <<"3cpd.map", "--release", "--verbose">>,
      <<"3cpd.map", "--production", "--debug">>,
      <<"--release", "3cpd.map">>,
      <<"3cpd.map", "--Production">> }
=============================================================================
