------------------------------ MODULE MapAudit ------------------------------
(***************************************************************************)
(* What the map verifier promises, stated over the map as a whole: once    *)
(* the linker has written the map, one audit step turns the pending       *)
(* verdict into "pass" exactly when the command line names a map, the map  *)
(* exists, and the map, read the way the verifier reads it (a name means   *)
(* what its last line says), shows no residency violation under the        *)
(* strictest build mode asked for.  No parsing passes, no rule order, no   *)
(* record lists: MapVerifier is shown to implement this specification.     *)
(***************************************************************************)
EXTENDS Naturals, Sequences, FiniteSets

CONSTANTS
    MapLines, MaxLines, ArgVectors,
    PhaseNamed,   \* the segment names that mark overlay or one-time initialisation content
    RequiredSymbols, RequiredRootSegments, OptionalSymbols, ForbiddenInOverlay

VARIABLES
    map,       \* the map text the linker wrote
    mapFound,  \* whether the map file is there to be read
    cmd,       \* the command line
    verdict    \* "writing", "pending", "pass" or "fail"

avars == <<map, mapFound, cmd, verdict>>

ModeLimit == [production |-> \hE000, release |-> \hE800, debug |-> \h10000]

\* The strictest build mode the command line asks for; debug when none.
AuditMode ==
    LET asked == {m \in DOMAIN ModeLimit : "--" \o m \in cmd.flags}
        cands == IF asked = {} THEN {"debug"} ELSE asked
    IN  CHOOSE m \in cands : \A m2 \in cands : ModeLimit[m] <= ModeLimit[m2]

Lines == 1..Len(map)
Overlays == {map[i].addr : i \in {j \in Lines : map[j].kind = "ovl"}}

SymAt(i, s) == map[i].kind = "sym" /\ map[i].name = s
SegAt(i, n) ==
    /\ map[i].kind = "seg"
    /\ map[i].name = n
    /\ map[i].class \in {"CODE", "DATA", "BSS", "STACK", "BEGDATA",
                         "FAR_DATA", "EMU", "CONST", "_OVLCODE"}

\* The line that has the last word on a symbol or a segment.
FinalSym(s) == map[CHOOSE i \in Lines : SymAt(i, s) /\ \A j \in Lines : j > i => ~SymAt(j, s)]
FinalSeg(n) == map[CHOOSE i \in Lines : SegAt(i, n) /\ \A j \in Lines : j > i => ~SegAt(j, n)]
SymDefined(s) == \E i \in Lines : SymAt(i, s)
SegDefined(n) == \E i \in Lines : SegAt(i, n)
Resident(s) == SymDefined(s) /\ FinalSym(s).addr \notin Overlays

\* The size on the first line of the shape "DGROUP addr:off size".
DGroupAt(i) == map[i].kind \in {"group", "seg"} /\ map[i].group = "DGROUP"
ReportedDGroupSize ==
    IF \E i \in Lines : DGroupAt(i)
    THEN map[CHOOSE i \in Lines : DGroupAt(i) /\ \A j \in Lines : j < i => ~DGroupAt(j)].size
    ELSE 0

SizeViolated == ReportedDGroupSize >= ModeLimit[AuditMode]

EntryPointMissing ==
    \E k \in 1..Len(RequiredSymbols) :
        \A i \in 1..Len(RequiredSymbols[k].aliases) :
            ~Resident(RequiredSymbols[k].aliases[i])

RootSegmentMisplaced ==
    \E k \in 1..Len(RequiredRootSegments) :
        LET n == RequiredRootSegments[k]
        IN  SegDefined(n) /\ ~(FinalSeg(n).group = "AUTO" /\ FinalSeg(n).class = "CODE")

OptionalMisplaced ==
    \E k \in 1..Len(OptionalSymbols) :
        LET s == OptionalSymbols[k]
            spellings == <<s, [s EXCEPT !.us = 0], [s EXCEPT !.us = @ + 1]>>
        IN  \E i \in 1..3 :
                /\ SymDefined(spellings[i])
                /\ \A j \in 1..(i - 1) : ~SymDefined(spellings[j])
                /\ ~Resident(spellings[i])

ForbiddenOverlaid ==
    \E k \in 1..Len(ForbiddenInOverlay) :
        LET n == ForbiddenInOverlay[k].base \o "_TEXT"
        IN  SegDefined(n) /\ FinalSeg(n).class = "_OVLCODE"

OverlayFolded ==
    \E n \in PhaseNamed :
        SegDefined(n) /\ FinalSeg(n).group = "DGROUP"

Acceptable ==
    /\ cmd.path
    /\ mapFound
    /\ ~SizeViolated
    /\ ~EntryPointMissing
    /\ ~RootSegmentMisplaced
    /\ ~OptionalMisplaced
    /\ ~ForbiddenOverlaid
    /\ ~OverlayFolded

AInit ==
    /\ map = <<>>
    /\ mapFound = FALSE
    /\ cmd \in ArgVectors
    /\ verdict = "writing"

Write ==
    /\ verdict = "writing"
    /\ Len(map) < MaxLines
    /\ \E l \in MapLines : map' = Append(map, l)
    /\ UNCHANGED <<mapFound, cmd, verdict>>

Close ==
    /\ verdict = "writing"
    /\ verdict' = "pending"
    /\ mapFound' = TRUE
    /\ UNCHANGED <<map, cmd>>

Lose ==
    /\ verdict = "writing"
    /\ map = <<>>
    /\ verdict' = "pending"
    /\ UNCHANGED <<map, mapFound, cmd>>

Audit ==
    /\ verdict = "pending"
    /\ verdict' = IF Acceptable THEN "pass" ELSE "fail"
    /\ UNCHANGED <<map, mapFound, cmd>>

ANext == Write \/ Close \/ Lose \/ Audit

ASpec == AInit /\ [][ANext]_avars
=============================================================================
