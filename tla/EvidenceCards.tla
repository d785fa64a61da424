---------------------------- MODULE EvidenceCards ----------------------------
(***************************************************************************)
(* The evidence cards of the admin page (admin/*_status.py): each loader   *)
(* reads the files that it pins one after the other, compares each with    *)
(* the digest and the mode that it pins, validates what the documents      *)
(* among them say, and shows the card, or shows it unavailable with every  *)
(* authority closed.  Meanwhile anybody may write to the files, change     *)
(* their modes or rename them.                                             *)
(*                                                                         *)
(* A file is two halves that are read one after the other and that are as  *)
(* pinned or not; its digest is the pinned one when both were.  No two     *)
(* changes of a file leave the same times.  What the validators compare    *)
(* the documents with are literals beside the pins in the source: here     *)
(* they find what is expected or they do not.                              *)
(***************************************************************************)
EXTENDS Naturals, Sequences

CONSTANT MaxCardEdits   \* bound: changes of the files while a card is loaded

ASSUME CardBound == MaxCardEdits \in Nat

VARIABLES
  card,       \* the loader: its card, its step, the file it is at, what it shows
  file,       \* the file that is open, as it is now
  got,        \* the halves of it that were read, as pinned or not
  cardEdits,  \* changes so far
  truly,      \* was the open file what its pin says, at one moment since? (history)
  proven      \* the files accepted so far that were (history)

cardVars == <<card, file, got, cardEdits, truly, proven>>

-----------------------------------------------------------------------------
(* The cards: their files in the order they are read, and how a file is    *)
(* looked at                                                               *)

PersonPins ==
  <<"review", "reviewer", "review schema", "review tests", "review notes", "controller",
    "schema", "tests", "notes", "model plan", "workload plan", "workload schema", "handoff">>
LoadPersonR14i == [pins |-> PersonPins, look |-> "held"]

PpePins ==
  <<"review", "reviewer", "review schema", "review tests", "controller", "schema", "tests",
    "notes", "handoff">>
LoadPpeA32 == [pins |-> PpePins, look |-> "held"]

PosePins == PersonPins
LoadPoseR13i == [pins |-> PosePins, look |-> "held"]

PreflightR1Pins == <<"review", "reviewer", "review schema">>
LoadPreflightR1 == [pins |-> PreflightR1Pins, look |-> "named"]

PreflightR2Pins ==
  <<"review", "preflight", "plan", "schema", "sources", "source schema", "terminal root",
    "root schema", "candidate", "lease contract", "lease schema", "R1 review">>
LoadPreflightR2 == [pins |-> PreflightR2Pins, look |-> "named"]

LeasePins == <<"lease", "contract", "plan schema", "receipt schema">>
LoadGpuLeaseV5 == [pins |-> LeasePins, look |-> "held"]

SafetyVisionPins == <<"manifest", "validator", "receipt">>
LoadSafetyVision == [pins |-> SafetyVisionPins, look |-> "held"]

ConstructionPins == <<"manifest", "validator", "receipt">>
LoadConstruction == [pins |-> ConstructionPins, look |-> "held"]

DriverR4Pins == <<"review", "reviewer", "review schema", "maintenance", "plan schema">>
LoadDriverR4 == [pins |-> DriverR4Pins, look |-> "held"]

DriverR7Pins ==
  <<"review", "reviewer", "review schema", "review tests", "candidate", "handoff",
    "qualification", "schema", "tests", "notes">>
LoadDriverR7 == [pins |-> DriverR7Pins, look |-> "held"]

EngineBuilderPins ==
  <<"root", "review", "candidate", "release plan", "gate", "verifier", "review schema",
    "root schema">>
LoadEngineBuilder == [pins |-> EngineBuilderPins, look |-> "held"]

\* The two documents are read a second time to be validated.
NativePins ==
  <<"Dockerfile", "README", "receipt", "build", "contract", "tests", "verifier", "ignore">>
LoadNative == [pins |-> NativePins \o <<"contract", "receipt">>, look |-> "plain"]

Loaders ==
  [person |-> LoadPersonR14i, ppe |-> LoadPpeA32, pose |-> LoadPoseR13i,
   preflightR1 |-> LoadPreflightR1, preflightR2 |-> LoadPreflightR2,
   lease |-> LoadGpuLeaseV5, safetyvision |-> LoadSafetyVision,
   construction |-> LoadConstruction, driverR4 |-> LoadDriverR4, driverR7 |-> LoadDriverR7,
   builder |-> LoadEngineBuilder, native |-> LoadNative]

\* _host_tool_paths
HostTools == <<"docker", "nvidia-smi">>

Loader == Loaders[card.name]
LastPin  == Len(Loader.pins)
LastTool == LastPin + Len(HostTools)

\* A file behind the pins is a host tool, whose mode and name nobody asks for.
Look == IF card.at <= LastPin THEN Loader.look ELSE "tool"

-----------------------------------------------------------------------------
(* The files *)

Whole(f) == f.half[1] /\ f.half[2]

\* What a look can tell of the open file: that it is whole, that nobody may write to it,
\* and that it has its name.
AsPinned(f) ==
  /\ Whole(f)
  /\ Look \in {"held", "named"} => f.frozen
  /\ Look = "named" => f.named

Changed(f) ==
  /\ card.pc \in {"first", "second", "after", "name"} /\ cardEdits < MaxCardEdits
  /\ cardEdits' = cardEdits + 1
  /\ file' = f /\ truly' = (truly \/ AsPinned(f))
  /\ UNCHANGED <<card, got, proven>>

WriteHalf(h) ==
  Changed([file EXCEPT !.half[h] = ~@, !.mtime = cardEdits + 1, !.ctime = cardEdits + 1])

Chmod == Changed([file EXCEPT !.frozen = ~@, !.ctime = cardEdits + 1])

\* The file is renamed, or another is renamed over it, or it is put back.
RenameFile == Changed([file EXCEPT !.named = ~@, !.ctime = cardEdits + 1])

-----------------------------------------------------------------------------
(* The loaders *)

NoHalf == [h \in 1 .. 2 |-> FALSE]

Unopened == [half |-> NoHalf, frozen |-> FALSE, named |-> TRUE, mtime |-> 0, ctime |-> 0,
             was |-> [mtime |-> 0, ctime |-> 0]]

CardsInit ==
  /\ card = [name |-> "person", pc |-> "idle", at |-> 1, available |-> FALSE, current |-> TRUE]
  /\ file = Unopened /\ got = NoHalf /\ cardEdits = 0
  /\ truly = FALSE /\ proven = {}

Go(pc) == card' = [card EXCEPT !.pc = pc]

\* _unavailable: any exception of a loader.
Unavailable ==
  /\ card' = [card EXCEPT !.pc = "shown", !.available = FALSE, !.current = FALSE]
  /\ UNCHANGED proven

BeginCard ==
  /\ card.pc = "idle"
  /\ \E name \in DOMAIN Loaders : card' = [card EXCEPT !.name = name, !.pc = "open"]
  /\ UNCHANGED <<file, got, cardEdits, truly, proven>>

\* A file is opened, whatever was done to it before, and its times are noted by fstat; a
\* file that may be written to is refused at once.
OpenFile ==
  /\ card.pc = "open"
  /\ \E half \in [1 .. 2 -> BOOLEAN], frozen, named \in BOOLEAN :
       LET f == [half |-> half, frozen |-> frozen, named |-> named, mtime |-> cardEdits,
                 ctime |-> cardEdits, was |-> [mtime |-> cardEdits, ctime |-> cardEdits]]
       IN  /\ file' = f /\ truly' = AsPinned(f)
           /\ IF Look \in {"held", "named"} /\ ~frozen
                THEN Unavailable
                ELSE Go("first") /\ UNCHANGED proven
  /\ got' = NoHalf
  /\ UNCHANGED <<cardEdits>>

ReadHalf ==
  /\ \/ card.pc = "first"  /\ got' = [got EXCEPT ![1] = file.half[1]] /\ Go("second")
     \/ card.pc = "second" /\ got' = [got EXCEPT ![2] = file.half[2]] /\ Go("after")
  /\ UNCHANGED <<file, cardEdits, truly, proven>>

Digested == got[1] /\ got[2]

\* The file is accepted, and the loader goes on to the next one or to what comes then.
Accept ==
  /\ proven' = IF truly THEN proven \cup {card.at} ELSE proven
  /\ card' = [card EXCEPT !.at = @ + 1,
                          !.pc = IF card.at = LastPin THEN "validate"
                                 ELSE IF card.at = LastTool THEN "show" ELSE "open"]

\* Mutant: the file is not looked at again.
NeverChanged == TRUE

\* The times of the open file, as they are compared after the reading: all but the two
\* preflights are content with the size and the time of the last write.
Unchanged ==
  /\ Look # "plain" => file.mtime = file.was.mtime
  /\ Look = "named" => file.ctime = file.was.ctime

\* A host tool of another content is not refused: the card is not current.
CompareRead ==
  /\ card.pc = "after"
  /\ IF ~Unchanged THEN Unavailable
     ELSE IF Look = "named" THEN Go("name") /\ UNCHANGED proven
     ELSE IF Digested THEN Accept
     ELSE IF Look = "tool"
       THEN /\ card' = [card EXCEPT !.current = FALSE, !.at = @ + 1,
                                    !.pc = IF card.at = LastTool THEN "show" ELSE "open"]
            /\ UNCHANGED proven
     ELSE Unavailable
  /\ UNCHANGED <<file, got, cardEdits, truly>>

\* The preflights ask for the name as well, and for the times again.
CompareName ==
  /\ card.pc = "name"
  /\ IF file.named /\ Unchanged /\ Digested THEN Accept ELSE Unavailable
  /\ UNCHANGED <<file, got, cardEdits, truly>>

\* The validator is asked once every pinned file has been accepted, and about the bytes
\* that were digested: the documents are as it expects them, or the card is unavailable.
Validate ==
  /\ card.pc = "validate"
  /\ \/ Go(IF card.name = "lease" THEN "root" ELSE "show") /\ UNCHANGED proven
     \/ Unavailable
  /\ UNCHANGED <<file, got, cardEdits, truly>>

\* The root of the lease's results is there for its owner alone, and empty; the tools come
\* behind it.
ResultRoot ==
  /\ card.pc = "root"
  /\ (Go("open") /\ UNCHANGED proven) \/ Unavailable
  /\ UNCHANGED <<file, got, cardEdits, truly>>

\* The card is shown; that of the driver is current for the boot that its receipt names.
Show ==
  /\ card.pc = "show"
  /\ \E boot \in IF card.name = "driverR7" THEN BOOLEAN ELSE {TRUE} :
       card' = [card EXCEPT !.pc = "shown", !.available = TRUE, !.current = @ /\ boot]
  /\ UNCHANGED <<file, got, cardEdits, truly, proven>>

CardsNext ==
  \/ BeginCard \/ OpenFile \/ ReadHalf \/ CompareRead \/ CompareName
  \/ Validate \/ ResultRoot \/ Show
  \/ WriteHalf(1) \/ WriteHalf(2) \/ Chmod \/ RenameFile

CardsSpec == CardsInit /\ [][CardsNext]_cardVars

-----------------------------------------------------------------------------
(* Properties *)

\* Every file behind a card that is shown as available was, at one moment while it was open,
\* wholly what its pin says, closed to writing, and for the preflights in its place: no
\* card rests on a mixture of an old and a new file.  (The native build card looks at
\* nothing but the digest of what it read.)
ShownWasThere ==
  card.available /\ Loader.look # "plain" => (1 .. LastPin) \subseteq proven

\* A card whose host tools are called current saw both of them whole.
CurrentToolsWereThere ==
  card.available /\ card.name = "lease" /\ card.current
    => ((LastPin + 1) .. LastTool) \subseteq proven

CardsAreTrue == ShownWasThere /\ CurrentToolsWereThere
=============================================================================
