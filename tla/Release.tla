------------------------------- MODULE Release -------------------------------
(***************************************************************************)
(* The preparation of a release by cmd/clx-release, run after run in one   *)
(* directory, with runs that are killed or fail and are resumed.           *)
(*                                                                         *)
(* What a file holds is a tuple of its kind and what went into it, so that *)
(* equal contents have equal hashes and the others different ones.         *)
(***************************************************************************)
EXTENDS Integers, Sequences

CONSTANT MaxMade    \* bound: commits, builds of the bottle and versions of the notes

VARIABLES
  file,       \* what each file holds
  world,      \* the checkout, the notes and the last bottle of Homebrew
  command,    \* what the command under way has still to write
  promoted,   \* history: the release has been verified and promoted
  first       \* history: what each file first held as a whole

vars == <<file, world, command, promoted, first>>

Files ==
  {"source", "formula", "brewed bottle", "brewed metadata", "bottle", "metadata", "bottled formula",
   "manifest", "signature"}

Absent  == <<>>
Partial == <<"partial">>
Exists(name) == file[name] # Absent

Init ==
  /\ file = [name \in Files |-> Absent]
  /\ first = file
  /\ world = [commit |-> "1", notes |-> "1", built |-> 0]
  /\ command = [writes |-> <<>>, open |-> FALSE]
  /\ promoted = FALSE

\* The archive of a commit with its dependencies: sorted, without times and
\* owners, so that it is the same whenever it is made.
SourceTar(commit) == <<"source", commit>>

\* fileArtifact and sourceArtifact: any regular file of the right name will do.
Hash(name) == file[name]

\* readBottleMetadata: of the metadata only what is well-formed.
ReadBottleMetadata(name) == file[name] \notin {Absent, Partial}
BottleOf(name) == file[name][2]

Formula(source, bottle) == <<"formula", source, bottle>>
Manifest(source, bottle, notes) == <<"manifest", source, bottle, notes>>

Idle == command.writes = <<>>
Run(writes) == Idle /\ command' = [writes |-> writes, open |-> FALSE] /\ UNCHANGED <<file, world, promoted, first>>

-----------------------------------------------------------------------------
(* Commands: what they check and what they are going to write              *)

PrepareSource == Run(<<<<"source", SourceTar(world.commit)>>>>)

MakeFormula ==
  /\ Exists("source")
  /\ Run(<<<<"formula", Formula(Hash("source"), Absent)>>>>)

MakeBottledFormula ==
  /\ Exists("source") /\ ReadBottleMetadata("metadata")
  /\ Run(<<<<"bottled formula", Formula(Hash("source"), BottleOf("metadata"))>>>>)

PrepareBottles ==
  /\ ReadBottleMetadata("brewed metadata")
  /\ Hash("brewed bottle") = BottleOf("brewed metadata")
  /\ Run(<<<<"bottle", Hash("brewed bottle")>>, <<"metadata", file["brewed metadata"]>>>>)

\* The manifest is written before its signature, and each bottle must be what
\* Homebrew said.
MakeManifest ==
  /\ Exists("source") /\ Exists("bottle") /\ ReadBottleMetadata("metadata")
  /\ Hash("bottle") = BottleOf("metadata")
  /\ LET manifest == Manifest(Hash("source"), Hash("bottle"), world.notes)
     IN  Run(<<<<"manifest", manifest>>, <<"signature", <<"signature", manifest>>>>>>)

-----------------------------------------------------------------------------
(* writeNew                                                                *)

Current == Head(command.writes)
Left(writes, open) == command' = [writes |-> writes, open |-> open]

Create ==
  /\ ~Idle /\ ~command.open /\ ~Exists(Current[1])
  /\ file' = [file EXCEPT ![Current[1]] = Partial]
  /\ Left(command.writes, TRUE)
  /\ UNCHANGED <<world, promoted, first>>

\* A file that is there is kept: the same content is taken for written, and a
\* different one ends the command.
Resume ==
  /\ ~Idle /\ ~command.open /\ Exists(Current[1])
  /\ Left(IF file[Current[1]] = Current[2] THEN Tail(command.writes) ELSE <<>>, FALSE)
  /\ UNCHANGED <<file, world, promoted, first>>

Write ==
  /\ command.open
  /\ file' = [file EXCEPT ![Current[1]] = Current[2]]
  /\ first' = [first EXCEPT ![Current[1]] = IF @ = Absent THEN Current[2] ELSE @]
  /\ Left(Tail(command.writes), FALSE)
  /\ UNCHANGED <<world, promoted>>

WriteFails ==
  /\ command.open
  /\ file' = [file EXCEPT ![Current[1]] = Absent]
  /\ Left(<<>>, FALSE)
  /\ UNCHANGED <<world, promoted, first>>

\* What has been written of the file stays.
Killed ==
  /\ ~Idle
  /\ Left(<<>>, FALSE)
  /\ UNCHANGED <<file, world, promoted, first>>

-----------------------------------------------------------------------------
(* Around it                                                               *)

\* A run that goes on reports the part of a file that is in its way.
RemovePartial(name) ==
  /\ Idle /\ file[name] = Partial
  /\ file' = [file EXCEPT ![name] = Absent]
  /\ UNCHANGED <<world, command, promoted, first>>

Commit == world.commit = "1" /\ world' = [world EXCEPT !.commit = "2"] /\ UNCHANGED <<file, command, promoted, first>>
EditNotes == world.notes = "1" /\ world' = [world EXCEPT !.notes = "2"] /\ UNCHANGED <<file, command, promoted, first>>

\* brew builds a bottle of the formula's source, which is not the same twice.
BrewBottle ==
  /\ Idle /\ world.built < MaxMade
  /\ file["formula"] \notin {Absent, Partial} /\ file["formula"][2] = file["source"]
  /\ file["source"] # Partial
  /\ LET bottle == <<"bottle", file["source"], world.built>> IN
     file' = [file EXCEPT !["brewed bottle"] = bottle, !["brewed metadata"] = <<"metadata", bottle>>]
  /\ world' = [world EXCEPT !.built = @ + 1]
  /\ UNCHANGED <<command, promoted, first>>

\* verify-manifest with the assets.
VerifyManifest ==
  /\ file["manifest"] \notin {Absent, Partial}
  /\ file["signature"] = <<"signature", file["manifest"]>>
  /\ file["manifest"][2] = Hash("source") /\ file["manifest"][3] = Hash("bottle")

\* The formula is made again and compared before the release becomes the latest.
Promote ==
  /\ Idle /\ ~promoted /\ VerifyManifest
  /\ ReadBottleMetadata("metadata")
  /\ file["bottled formula"] = Formula(Hash("source"), BottleOf("metadata"))
  /\ promoted' = TRUE
  /\ UNCHANGED <<file, world, command, first>>

Next ==
  \/ PrepareSource \/ MakeFormula \/ MakeBottledFormula \/ PrepareBottles \/ MakeManifest
  \/ Create \/ Resume \/ Write \/ WriteFails \/ Killed
  \/ \E name \in Files : RemovePartial(name)
  \/ Commit \/ EditNotes \/ BrewBottle \/ Promote

-----------------------------------------------------------------------------
\* Whatever is killed, repeated, committed or built again: a file that was once
\* there as a whole is never another one, so that what was uploaded, and above
\* all a signed manifest, stays what it is.
WrittenOnce ==
  \A name \in Files \ {"brewed bottle", "brewed metadata"} :
    first[name] # Absent => file[name] = first[name]

\* A release that was promoted is of one piece: its manifest, signature, formula
\* and bottle are of the source that lies beside them.
OnePiece ==
  promoted =>
    LET source == file["source"]  bottle == file["bottle"] IN
    /\ file["manifest"][2] = source /\ file["manifest"][3] = bottle
    /\ file["signature"] = <<"signature", file["manifest"]>>
    /\ bottle[2] = source /\ source # Partial
    /\ file["bottled formula"] = Formula(source, bottle)
=============================================================================
