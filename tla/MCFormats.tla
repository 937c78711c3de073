------------------------------ MODULE MCFormats -------------------------------
(* Small instances of what is read and corrected, for TLC: files and rules *)
(* (Correction over Kernel), tables of numbers seen (NearMiss) and texts   *)
(* of every format (Readers).  They share no state: a behavior is one of   *)
(* one of them.                                                            *)
EXTENDS MCCorrection

(* ---- proposals ---- *)

VARIABLES fleet, token, probe, seen, cut, proposals

nearVars == <<fleet, token, probe, seen, cut, proposals>>

M == INSTANCE MCNearMiss WITH Fleets <- {}, Tokens <- {}, PerProbe <- 2, found <- seen
N == INSTANCE NearMiss WITH Fleets <- M!AllFleets, Tokens <- M!AllTokens, PerProbe <- 2, found <- seen

\* The tables are such as the theorem on the probes is about.
ASSUME NearMissNumbers == N!NumbersAreShaped(STRING)

(* ---- readers ---- *)

VARIABLES doc, arrived, pos, mode, start, pendingCr, field, row, yielded, stage

readVars == <<doc, arrived, pos, mode, start, pendingCr, field, row, yielded, stage>>

D == INSTANCE MCReaders WITH Documents <- {}, Blank <- {" "}, Slot <- 3, cut <- arrived, out <- yielded, phase <- stage
R == INSTANCE Readers WITH Documents <- D!AllDocuments, Blank <- {" "}, Slot <- 3, cut <- arrived, out <- yielded,
                           phase <- stage

VARIABLE side

\* A behavior leaves the variables of the other two groups alone.
InitAll ==
  /\ Init
  /\ \/ /\ side = "files"
        /\ fleet = None /\ token = None /\ probe = None /\ seen = None /\ cut = None /\ proposals = None
        /\ doc = None /\ arrived = None /\ pos = None /\ mode = None /\ start = None /\ pendingCr = None
        /\ field = None /\ row = None /\ yielded = None /\ stage = None
     \/ /\ side = "fleets" /\ N!Init
        /\ doc = None /\ arrived = None /\ pos = None /\ mode = None /\ start = None /\ pendingCr = None
        /\ field = None /\ row = None /\ yielded = None /\ stage = None
     \/ /\ side = "texts" /\ R!Init
        /\ fleet = None /\ token = None /\ probe = None /\ seen = None /\ cut = None /\ proposals = None

NextAll ==
  /\ UNCHANGED side
  /\ \/ side = "files" /\ Next /\ UNCHANGED <<nearVars, readVars>>
     \/ side = "fleets" /\ N!Next /\ UNCHANGED <<corrVars, readVars>>
     \/ side = "texts" /\ R!Next /\ UNCHANGED <<corrVars, nearVars>>

SpecAll == InitAll /\ [][NextAll]_<<corrVars, nearVars, readVars, side>>

NearMissFound     == side = "fleets" => N!NearMissFound
ReadsLikeTheWhole == side = "texts" => R!ReadsLikeTheWhole
=============================================================================
