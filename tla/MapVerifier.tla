---------------------------- MODULE MapVerifier ----------------------------
(***************************************************************************)
(* The Watcom map-file verifier of tools/verify_map.py: main() selects a   *)
(* build mode from the command line, MapVerifier.parse() extracts the      *)
(* DGROUP size, the segment table, the symbol table and the overlay        *)
(* section addresses from the map text, the six verify_* rules append      *)
(* error and warning records, and print_summary() decides the exit code.   *)
(*                                                                         *)
(* The map text is a sequence of abstract lines, one record per line shape *)
(* the parser's regular expressions recognise.  The upstream linker that   *)
(* writes the map is the environment: it appends lines up to MaxLines.     *)
(* Everything the verifier prints and never stores (headroom, composition  *)
(* listing, counts, verbose dump) is left out.                             *)
(***************************************************************************)
EXTENDS Naturals, Sequences, FiniteSets, SequencesExt

\* Python's `p in s` on segment names (SequencesExt has its own Contains).
Str == INSTANCE PyStr

CONSTANTS
    SymBases,             \* symbol names with their trailing '_' removed
    MaxUnderscores,       \* most trailing '_' a symbol name of the map has
    SegNames,             \* segment names, as strings
    Addrs,                \* segment (paragraph) addresses, as model values
    MapLines,             \* the lines the linker may write into the map
    MaxLines,             \* most lines a map has
    MapPath,              \* the path the linker writes the map to
    ArgVectors,           \* the command lines main() may be given: sys.argv[1:]
    RequiredSymbols,      \* REQUIRED_SYMBOLS: <<[group, aliases]>>, in dict order
    RequiredRootSegments, \* REQUIRED_ROOT_SEGMENTS: segment names, in order
    OptionalSymbols,      \* OPTIONAL_SYMBOLS, in order
    ForbiddenInOverlay    \* FORBIDDEN_IN_OVERLAY: objects [base, ext]

\* A symbol name is its base spelling followed by `us` underscores, so that
\* symbol.rstrip('_') and symbol + '_' are what they are on strings.
SymName == [base : SymBases, us : 0..MaxUnderscores]
RStrip(s) == [s EXCEPT !.us = 0]
AppendUnderscore(s) == [s EXCEPT !.us = @ + 1]

\* The class alternation of the segment-line pattern (verify_map.py:186).
SegClasses == {"CODE", "DATA", "BSS", "STACK", "BEGDATA", "FAR_DATA",
               "EMU", "CONST", "_OVLCODE"}

\* Line shapes of the map text: a group-table line "DGROUP 0123:0000 F000",
\* a segment-table line "name class group addr:off size", a symbol line
\* "addr:off[*+] name", and "Overlay section N address addr:off".
GroupLine == [kind : {"group"}, group : STRING, size : Nat]
SegLine == [kind : {"seg"}, name : SegNames, class : STRING, group : STRING,
            addr : Addrs, size : Nat]
SymLine == [kind : {"sym"}, addr : Addrs, name : SymName]
OvlLine == [kind : {"ovl"}, addr : Addrs]
Line == GroupLine \cup SegLine \cup SymLine \cup OvlLine

Flags == {"--production", "--release", "--debug", "--verbose"}
Modes == {"debug", "release", "production"}

ASSUME /\ MapLines \subseteq Line
       /\ MaxLines \in Nat
       /\ MapPath \in STRING \ Flags
       /\ ArgVectors \subseteq Seq(STRING)

\* The words of a command line; `'--x' in sys.argv` asks whether x is one.
Words(args) == Range(args)

\* sys.argv[1] is what MapVerifier is given as the map path, whatever word
\* it is; parse() finds a file there only when it is the map's path and
\* the linker wrote the map (no file is named like a flag).
NamesMap(args) == args # <<>> /\ args[1] = MapPath

-----------------------------------------------------------------------------
(* The rule catalogs of verify_map.py, spelt as SymName records.           *)

Sym_(base, us) == [base |-> base, us |-> us]

REQUIRED_SYMBOLS ==
    << [group |-> "packet_api",
        aliases |-> << Sym_("packet_driver_isr", 0), Sym_("_packet_driver_isr", 0),
                       Sym_("packet_api_entry", 0) >>],
       [group |-> "multiplex_api",
        aliases |-> << Sym_("multiplex_handler", 1), Sym_("int2f_handler", 0),
                       Sym_("multiplex_handler", 0), Sym_("_int2f_isr", 0) >>],
       [group |-> "pci_shim",
        aliases |-> << Sym_("_pci_shim_isr", 0), Sym_("pci_shim_handler", 0),
                       Sym_("pci_shim_handler", 1) >>],
       [group |-> "nic_irq",
        aliases |-> << Sym_("nic_irq_handler", 0), Sym_("_nic_isr", 0),
                       Sym_("hardware_handle_3c509b_irq", 0),
                       Sym_("hardware_handle_3c515_irq", 0) >>],
       [group |-> "lifecycle",
        aliases |-> << Sym_("install_packet_api_vector", 0),
                       Sym_("install_interrupts", 0),
                       Sym_("initialize_tsr_defense", 0) >>] >>

REQUIRED_ROOT_SEGMENTS == << "_TEXT", "rt_stubs_TEXT" >>

OPTIONAL_SYMBOLS ==
    << Sym_("g_3c509b_ops", 0), Sym_("g_3c515_ops", 0), Sym_("_3c509b_ops", 0),
       Sym_("_3c509b_send_packet", 1), Sym_("_3c509b_receive_packet", 1),
       Sym_("_3c515_send_packet", 1), Sym_("_3c515_receive_packet", 1),
       Sym_("log_info", 1), Sym_("log_error", 1), Sym_("log_warning", 1),
       Sym_("log_debug", 1),
       Sym_("nic_3c509_handler", 0), Sym_("nic_3c515_handler", 0),
       Sym_("pcmcia_irq_isr", 0), Sym_("pcmcia_isr_install", 0),
       Sym_("pcmcia_isr_uninstall", 0), Sym_("_set_chain_vector", 0),
       Sym_("chain_to_bios", 0),
       Sym_("queue_deferred_work", 0), Sym_("deferred_work_queue_process", 0),
       Sym_("validate_interrupt_vectors", 0), Sym_("safe_port_read", 0) >>

FORBIDDEN_IN_OVERLAY ==
    << [base |-> "rt_stubs", ext |-> ".obj"], [base |-> "3cvortex", ext |-> ".obj"],
       [base |-> "3cboom", ext |-> ".obj"] >>

-----------------------------------------------------------------------------
(* Build-mode thresholds (verify_map.py:31-48) and main()'s flag choice.   *)

DGroupLimit == \h10000
DGroupMax == [production |-> \hE000, release |-> \hE800, debug |-> \h10000]
DGroupWarn == [production |-> \hD800, release |-> \hE000, debug |-> \hF200]

BuildMode(flags) ==
    IF "--production" \in flags THEN "production"
    ELSE IF "--release" \in flags THEN "release"
    ELSE "debug"

-----------------------------------------------------------------------------
(* MapParser: what the four regular-expression passes extract.  Python     *)
(* dicts are last-write-wins, so a name's entry is its last matching line. *)

\* Faulty variant: any class word admitted, as with a (\w+) class group.
IsSegLineAnyClass(l) == l.kind = "seg"

IsSegLine(l) == l.kind = "seg" /\ l.class \in SegClasses
IsSymLine(l) == l.kind = "sym"

\* The unanchored pattern DGROUP\s+hex:hex\s+(hex) matches the DGROUP line
\* of the group table, and also any segment-table line whose group column
\* is DGROUP, whatever its class.
MatchesDGroupPattern(l) == l.kind \in {"group", "seg"} /\ l.group = "DGROUP"

DGroupSizeOf(c) ==
    LET i == SelectInSeq(c, MatchesDGroupPattern)
    IN  IF i = 0 THEN 0 ELSE c[i].size

SegmentTable(c) ==
    LET names == {c[i].name : i \in {j \in 1..Len(c) : IsSegLine(c[j])}}
    IN  [n \in names |->
           c[SelectLastInSeq(c, LAMBDA l : IsSegLine(l) /\ l.name = n)]]

SymbolTable(c) ==
    LET names == {c[i].name : i \in {j \in 1..Len(c) : IsSymLine(c[j])}}
    IN  [s \in names |->
           c[SelectLastInSeq(c, LAMBDA l : IsSymLine(l) /\ l.name = s)]]

OverlayAddresses(c) == {c[i].addr : i \in {j \in 1..Len(c) : c[j].kind = "ovl"}}

\* Position of a segment name in the dict: that of its first insertion.
SegmentOrder(c, n) == SelectInSeq(c, LAMBDA l : IsSegLine(l) /\ l.name = n)

-----------------------------------------------------------------------------
VARIABLES
    pc,              \* where main() is
    argv,            \* the command line
    mode,            \* self.build_mode
    mapExists,       \* whether the map file exists when parse() looks
    content,         \* the map text
    dgroupSize,      \* self.dgroup_size
    segments,        \* self.segments: name -> its segment line
    symbols,         \* self.symbols: name -> its symbol line
    overlaySegments, \* self.overlay_segments
    errors,          \* self.errors
    warnings,        \* self.warnings
    exitCode         \* sys.exit() argument, meaningful once pc = "exit"

vars == <<pc, argv, mode, mapExists, content, dgroupSize, segments, symbols,
          overlaySegments, errors, warnings, exitCode>>

NoSym == [base |-> "", us |-> 0]
Record(rule, what, subject, sym) ==
    [rule |-> rule, what |-> what, subject |-> subject, sym |-> sym]

Init ==
    /\ pc = "link"
    /\ argv \in ArgVectors
    /\ mode = "debug"
    /\ mapExists = FALSE
    /\ content = <<>>
    /\ dgroupSize = 0
    /\ segments = <<>>
    /\ symbols = <<>>
    /\ overlaySegments = {}
    /\ errors = <<>>
    /\ warnings = <<>>
    /\ exitCode = 0

-----------------------------------------------------------------------------
(* The linker writes the map (the environment); main() starts.             *)

WriteLine ==
    /\ pc = "link"
    /\ Len(content) < MaxLines
    /\ \E l \in MapLines : content' = Append(content, l)
    /\ UNCHANGED <<pc, argv, mode, mapExists, dgroupSize, segments, symbols,
                   overlaySegments, errors, warnings, exitCode>>

MapWritten ==
    /\ pc = "link"
    /\ pc' = "main"
    /\ mapExists' = TRUE
    /\ UNCHANGED <<argv, mode, content, dgroupSize, segments, symbols,
                   overlaySegments, errors, warnings, exitCode>>

\* No map file at the path main() is given.
MapMissing ==
    /\ pc = "link"
    /\ content = <<>>
    /\ pc' = "main"
    /\ UNCHANGED <<argv, mode, mapExists, content, dgroupSize, segments,
                   symbols, overlaySegments, errors, warnings, exitCode>>

\* len(sys.argv) < 2: usage text and exit 1, before anything is parsed.
Usage ==
    /\ pc = "main"
    /\ argv = <<>>
    /\ pc' = "exit"
    /\ exitCode' = 1
    /\ UNCHANGED <<argv, mode, mapExists, content, dgroupSize, segments,
                   symbols, overlaySegments, errors, warnings>>

\* main() picks the build mode and constructs MapVerifier, whose __init__
\* sets the thresholds of that mode.
Start ==
    /\ pc = "main"
    /\ argv # <<>>
    /\ pc' = "parse"
    /\ mode' = BuildMode(Words(argv))
    /\ UNCHANGED <<argv, mapExists, content, dgroupSize, segments, symbols,
                   overlaySegments, errors, warnings, exitCode>>

\* parse() on a missing file: one error, False, and main() exits 1
\* without running any rule or the summary.
ParseMissing ==
    /\ pc = "parse"
    /\ ~(mapExists /\ NamesMap(argv))
    /\ errors' = Append(errors, Record("parse", "not_found", "map", NoSym))
    /\ exitCode' = 1
    /\ pc' = "exit"
    /\ UNCHANGED <<argv, mode, mapExists, content, dgroupSize, segments,
                   symbols, overlaySegments, warnings>>

\* Faulty variant: the map path taken from any word of the command line.
ParseFindsMapAnywhere ==
    /\ pc = "parse"
    /\ mapExists /\ MapPath \in Words(argv)
    /\ dgroupSize' = DGroupSizeOf(content)
    /\ segments' = SegmentTable(content)
    /\ symbols' = SymbolTable(content)
    /\ overlaySegments' = OverlayAddresses(content)
    /\ pc' = "size"
    /\ UNCHANGED <<argv, mode, mapExists, content, errors, warnings, exitCode>>

\* parse() on an existing file: the four extraction passes.
Parse ==
    /\ pc = "parse"
    /\ mapExists /\ NamesMap(argv)
    /\ dgroupSize' = DGroupSizeOf(content)
    /\ segments' = SegmentTable(content)
    /\ symbols' = SymbolTable(content)
    /\ overlaySegments' = OverlayAddresses(content)
    /\ pc' = "size"
    /\ UNCHANGED <<argv, mode, mapExists, content, errors, warnings, exitCode>>

-----------------------------------------------------------------------------
(* RootClassifier.                                                         *)

\* _is_symbol_in_overlay: both sides are upper-cased, so the comparison of
\* address strings is the equality of the model values.
IsSymbolInOverlay(s) == symbols[s].addr \in overlaySegments

\* Faulty variant: the group test dropped.
IsRootCodeClassOnly(seg) == seg.class = "CODE"

IsRootSegment(seg) == seg.group = "AUTO" /\ seg.class = "CODE"

\* _is_segment_root: None when absent, else the two-field predicate.
SegmentRootStatus(n) ==
    IF n \notin DOMAIN segments THEN "unknown"
    ELSE IF IsRootSegment(segments[n]) THEN "root" ELSE "not_root"

-----------------------------------------------------------------------------
(* RuleEngine: each verify_* method is one step; its loop over the rule     *)
(* catalog is a fold that appends records in the catalog's order.          *)

\* Faulty variant: > in place of >=.
ExceedsLimitStrict(size, limit) == size > limit

ExceedsLimit(size, limit) == size >= limit

\* verify_dgroup_size: an unparsed (zero) size warns and returns early.
VerifyDGroupSize ==
    /\ pc = "size"
    /\ \/ /\ dgroupSize = 0
          /\ warnings' = Append(warnings, Record("size", "unknown", "DGROUP", NoSym))
          /\ UNCHANGED errors
       \/ /\ dgroupSize # 0
          /\ ExceedsLimit(dgroupSize, DGroupMax[mode])
          /\ errors' = Append(errors, Record("size", "exceeds", "DGROUP", NoSym))
          /\ UNCHANGED warnings
       \/ /\ dgroupSize # 0
          /\ ~ExceedsLimit(dgroupSize, DGroupMax[mode])
          /\ ExceedsLimit(dgroupSize, DGroupWarn[mode])
          /\ warnings' = Append(warnings, Record("size", "warn_zone", "DGROUP", NoSym))
          /\ UNCHANGED errors
       \/ /\ dgroupSize # 0
          /\ ~ExceedsLimit(dgroupSize, DGroupMax[mode])
          /\ ~ExceedsLimit(dgroupSize, DGroupWarn[mode])
          /\ UNCHANGED <<errors, warnings>>
    /\ pc' = "required_symbols"
    /\ UNCHANGED <<argv, mode, mapExists, content, dgroupSize, segments,
                   symbols, overlaySegments, exitCode>>

\* Faulty variant: the loop stops at the first alias found, wherever it is.
RequiredSymbolCheckFirstFound(errs, g) ==
    IF \E i \in 1..Len(g.aliases) : g.aliases[i] \in DOMAIN symbols
    THEN errs
    ELSE Append(errs, Record("required", "not_found", g.group, NoSym))

\* One group of verify_required_symbols.  The loop breaks at the first
\* alias present and not in overlay; an alias present in overlay only
\* records itself as found_symbol and the loop goes on, so found_symbol is
\* the last present alias when none is resident.
RequiredSymbolCheck(errs, g) ==
    LET present  == SelectSeq(g.aliases, LAMBDA a : a \in DOMAIN symbols)
        resident == SelectSeq(present, LAMBDA a : ~IsSymbolInOverlay(a))
    IN  IF present = <<>>
        THEN Append(errs, Record("required", "not_found", g.group, NoSym))
        ELSE IF resident = <<>>
        THEN Append(errs, Record("required", "in_overlay", g.group, Last(present)))
        ELSE errs

VerifyRequiredSymbols ==
    /\ pc = "required_symbols"
    /\ errors' = FoldLeft(RequiredSymbolCheck, errors, RequiredSymbols)
    /\ pc' = "required_segments"
    /\ UNCHANGED <<argv, mode, mapExists, content, dgroupSize, segments,
                   symbols, overlaySegments, warnings, exitCode>>

\* One entry of verify_required_segments; r holds both record lists.
RequiredSegmentCheck(r, n) ==
    CASE SegmentRootStatus(n) = "unknown" ->
            [r EXCEPT !.warnings = Append(@, Record("segment", "missing", n, NoSym))]
      [] SegmentRootStatus(n) = "not_root" ->
            [r EXCEPT !.errors = Append(@, Record("segment", "not_root", n, NoSym))]
      [] SegmentRootStatus(n) = "root" -> r

VerifyRequiredSegments ==
    /\ pc = "required_segments"
    /\ LET r == FoldLeft(RequiredSegmentCheck,
                         [errors |-> errors, warnings |-> warnings],
                         RequiredRootSegments)
       IN  /\ errors' = r.errors
           /\ warnings' = r.warnings
    /\ pc' = "optional_symbols"
    /\ UNCHANGED <<argv, mode, mapExists, content, dgroupSize, segments,
                   symbols, overlaySegments, exitCode>>

\* Faulty variant: only the literal spelling is probed.
OptionalSymbolCheckLiteralOnly(errs, s) ==
    IF s \in DOMAIN symbols /\ IsSymbolInOverlay(s)
    THEN Append(errs, Record("optional", "in_overlay", "", s))
    ELSE errs

\* One symbol of verify_optional_symbols: the first of the spellings
\* symbol, symbol.rstrip('_'), symbol + '_' that the table has decides.
OptionalSymbolCheck(errs, s) ==
    LET spellings == <<s, RStrip(s), AppendUnderscore(s)>>
        i == SelectInSeq(spellings, LAMBDA v : v \in DOMAIN symbols)
    IN  IF i # 0 /\ IsSymbolInOverlay(spellings[i])
        THEN Append(errs, Record("optional", "in_overlay", "", spellings[i]))
        ELSE errs

VerifyOptionalSymbols ==
    /\ pc = "optional_symbols"
    /\ errors' = FoldLeft(OptionalSymbolCheck, errors, OptionalSymbols)
    /\ pc' = "forbidden"
    /\ UNCHANGED <<argv, mode, mapExists, content, dgroupSize, segments,
                   symbols, overlaySegments, warnings, exitCode>>

\* obj.replace('.obj', '') followed by f"{obj_base}_TEXT".
TextSegment(obj) == obj.base \o "_TEXT"

\* One object of verify_forbidden_in_overlay: only the class is looked at.
ForbiddenCheck(errs, obj) ==
    LET n == TextSegment(obj)
    IN  IF n \in DOMAIN segments /\ segments[n].class = "_OVLCODE"
        THEN Append(errs, Record("forbidden", "in_overlay", obj.base, NoSym))
        ELSE errs

VerifyForbiddenInOverlay ==
    /\ pc = "forbidden"
    /\ errors' = FoldLeft(ForbiddenCheck, errors, ForbiddenInOverlay)
    /\ pc' = "folding"
    /\ UNCHANGED <<argv, mode, mapExists, content, dgroupSize, segments,
                   symbols, overlaySegments, warnings, exitCode>>

\* 'OVL_' in seg_name or 'INIT_' in seg_name: case-sensitive substrings.
FoldMarked(n) == Str!Contains(n, "OVL_") \/ Str!Contains(n, "INIT_")

\* Faulty variant: only the 'OVL_' marker is looked for.
FoldedOvlOnly(n, seg) == seg.group = "DGROUP" /\ Str!Contains(n, "OVL_")

\* A segment of DGROUP whose name carries a folding marker.
Folded(n, seg) == seg.group = "DGROUP" /\ FoldMarked(n)

\* verify_dgroup_folding: one error per folded segment, in the dict's
\* insertion order.  The composition listing only prints.
VerifyDGroupFolding ==
    /\ pc = "folding"
    /\ LET folded == {n \in DOMAIN segments : Folded(n, segments[n])}
           order  == SetToSortSeq(folded, LAMBDA a, b :
                        SegmentOrder(content, a) < SegmentOrder(content, b))
       IN  errors' = errors \o [i \in 1..Len(order) |->
                                  Record("folding", "folded", order[i], NoSym)]
    /\ pc' = "summary"
    /\ UNCHANGED <<argv, mode, mapExists, content, dgroupSize, segments,
                   symbols, overlaySegments, warnings, exitCode>>

-----------------------------------------------------------------------------
(* ReportEngine.                                                           *)

\* print_summary returns len(self.errors) == 0; warnings never fail a run.
Passed(errs, warns) == errs = <<>>

PrintSummary ==
    /\ pc = "summary"
    /\ exitCode' = IF Passed(errors, warnings) THEN 0 ELSE 1
    /\ pc' = "exit"
    /\ UNCHANGED <<argv, mode, mapExists, content, dgroupSize, segments,
                   symbols, overlaySegments, errors, warnings>>

\* The process has exited.
Terminated ==
    /\ pc = "exit"
    /\ UNCHANGED vars

Next ==
    \/ WriteLine
    \/ MapWritten
    \/ MapMissing
    \/ Usage
    \/ Start
    \/ ParseMissing
    \/ Parse
    \/ VerifyDGroupSize
    \/ VerifyRequiredSymbols
    \/ VerifyRequiredSegments
    \/ VerifyOptionalSymbols
    \/ VerifyForbiddenInOverlay
    \/ VerifyDGroupFolding
    \/ PrintSummary
    \/ Terminated

Spec == Init /\ [][Next]_vars

-----------------------------------------------------------------------------
(* Properties.  "The map" is the text the linker wrote; what it says about *)
(* a name is what its last line for that name says.                       *)

MapSymbols == SymbolTable(content)
MapSegments == SegmentTable(content)
MapOverlays == OverlayAddresses(content)

MapResident(s) == s \in DOMAIN MapSymbols /\ MapSymbols[s].addr \notin MapOverlays

\* The run ended with exit status 0.
PassedRun == pc = "exit" /\ exitCode = 0

TypeOK ==
    /\ pc \in {"link", "main", "parse", "size", "required_symbols",
               "required_segments", "optional_symbols", "forbidden",
               "folding", "summary", "exit"}
    /\ argv \in ArgVectors
    /\ mode \in Modes
    /\ mapExists \in BOOLEAN
    /\ content \in Seq(MapLines) /\ Len(content) <= MaxLines
    /\ dgroupSize \in Nat
    /\ DOMAIN segments \subseteq SegNames
    /\ \A n \in DOMAIN segments : segments[n] \in SegLine /\ segments[n].class \in SegClasses
    /\ \A s \in DOMAIN symbols : symbols[s] \in SymLine
    /\ overlaySegments \subseteq Addrs
    /\ exitCode \in {0, 1}

\* A passed run means every required entry point group (packet API,
\* multiplex, PCI shim, NIC IRQ, lifecycle) has an alias the map places
\* outside every overlay section: verify_required_symbols' alias scan,
\* its overlay test, and print_summary's verdict together.
ResidentEntryPoints ==
    PassedRun =>
        \A k \in 1..Len(RequiredSymbols) :
            \E i \in 1..Len(RequiredSymbols[k].aliases) :
                MapResident(RequiredSymbols[k].aliases[i])

\* A passed run means, for every optional symbol, that the first of its
\* spellings (literal, trailing '_' stripped, '_' appended) the map
\* defines lies outside every overlay section (verify_optional_symbols).
OptionalSymbolsResident ==
    PassedRun =>
        \A k \in 1..Len(OptionalSymbols) :
            LET s == OptionalSymbols[k]
                spellings == <<s, RStrip(s), AppendUnderscore(s)>>
                i == SelectInSeq(spellings, LAMBDA v : v \in DOMAIN MapSymbols)
            IN  i # 0 => MapResident(spellings[i])

\* A passed run means every required root segment the map defines is in
\* group AUTO with class CODE, and no forbidden object's _TEXT segment has
\* the overlay code class (verify_required_segments, _is_segment_root and
\* verify_forbidden_in_overlay).
ResidentSegments ==
    PassedRun =>
        /\ \A k \in 1..Len(RequiredRootSegments) :
              LET n == RequiredRootSegments[k]
              IN  n \in DOMAIN MapSegments =>
                     MapSegments[n].group = "AUTO" /\ MapSegments[n].class = "CODE"
        /\ \A k \in 1..Len(ForbiddenInOverlay) :
              LET n == ForbiddenInOverlay[k].base \o "_TEXT"
              IN  n \in DOMAIN MapSegments => MapSegments[n].class # "_OVLCODE"

\* A passed run means no segment the map puts in DGROUP carries an overlay
\* or one-time-initialisation name (verify_dgroup_folding).
NoOverlayFoldedIntoDGroup ==
    PassedRun =>
        \A n \in DOMAIN MapSegments :
            MapSegments[n].group = "DGROUP" => ~FoldMarked(n)

\* The map puts a segment of the overlay code class at s's address.
InOverlayCode(s) ==
    \E n \in DOMAIN MapSegments :
        MapSegments[n].class = "_OVLCODE" /\ MapSegments[n].addr = MapSymbols[s].addr

\* A passed run means every required entry point group has an alias that
\* lies in no segment the map classes as overlay code: what the resident
\* runtime needs is not discarded, at whatever paragraph of an overlay
\* section the linker placed it (_is_symbol_in_overlay compares a symbol's
\* segment only with the sections' base addresses).
EntryPointsOutsideOverlayCode ==
    PassedRun =>
        \A k \in 1..Len(RequiredSymbols) :
            \E i \in 1..Len(RequiredSymbols[k].aliases) :
                LET a == RequiredSymbols[k].aliases[i]
                IN  MapResident(a) /\ ~InOverlayCode(a)

\* The build modes a command line asks for: each mode flag, debug if none.
RequestedModes(flags) ==
    LET asked == {m \in Modes : "--" \o m \in flags}
    IN  IF asked = {} THEN {"debug"} ELSE asked

AuditVerdict ==
    CASE pc = "link" -> "writing"
      [] pc = "exit" -> IF exitCode = 0 THEN "pass" ELSE "fail"
      [] pc \notin {"link", "exit"} -> "pending"

\* The command line as MapAudit sees it: whether it names the map, and
\* the words it holds.
CmdOf(args) == [path |-> NamesMap(args), flags |-> Words(args)]

Audit == INSTANCE MapAudit
            WITH PhaseNamed <- {n \in SegNames : FoldMarked(n)},
                 map <- content, mapFound <- mapExists, cmd <- CmdOf(argv),
                 ArgVectors <- {CmdOf(a) : a \in ArgVectors},
                 verdict <- AuditVerdict

\* main() with parse(), the six rules and print_summary() implements
\* MapAudit: every run ends with exit status 0 exactly when the command
\* line names a map that exists and shows no residency violation under
\* the strictest mode asked for, and with status 1 otherwise.
ImplementsMapAudit == Audit!ASpec

-----------------------------------------------------------------------------
(* What spec.md says of the verifier and the code does otherwise; each is  *)
(* checked by a run that expects TLC to find it violated.                  *)

\* The run read the map and ran every rule.
RulesRan == pc = "exit" /\ NamesMap(argv) /\ mapExists

\* spec.md 4.3b: the first alias of a group that the map defines decides;
\* if it lies in an overlay section the group is reported "found but in
\* overlay" under that alias, and later aliases are not tried as a
\* fallback (verify_required_symbols' loop).
FirstAliasDecides ==
    RulesRan =>
        \A k \in 1..Len(RequiredSymbols) :
            LET g == RequiredSymbols[k]
                i == SelectInSeq(g.aliases, LAMBDA a : a \in DOMAIN MapSymbols)
            IN  (i # 0 /\ ~MapResident(g.aliases[i])) =>
                    \E j \in 1..Len(errors) :
                        errors[j] = Record("required", "in_overlay", g.group,
                                           g.aliases[i])

\* spec.md 4.1: the size judged is the one the group table gives DGROUP,
\* and 0 (so a warning) when the map has no such line
\* (_parse_dgroup_size).
DGroupSizeFromGroupTable ==
    pc \notin {"link", "main", "parse", "exit"} =>
        LET i == SelectInSeq(content, LAMBDA l : l.kind = "group" /\ l.group = "DGROUP")
        IN  dgroupSize = IF i = 0 THEN 0 ELSE content[i].size

\* spec.md 9: when a symbol name recurs across resident and overlay memory,
\* the run surfaces a warning on the collision rather than silently
\* keeping only the later line (_parse_symbol_table's last-write-wins).
SymbolCollisionWarned ==
    RulesRan =>
        \A s \in SymName :
            (\E i, j \in 1..Len(content) :
                /\ IsSymLine(content[i]) /\ content[i].name = s
                /\ IsSymLine(content[j]) /\ content[j].name = s
                /\ content[i].addr \in MapOverlays
                /\ content[j].addr \notin MapOverlays)
            => \E k \in 1..Len(warnings) : warnings[k].sym = s
=============================================================================
