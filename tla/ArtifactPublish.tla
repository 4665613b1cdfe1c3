---------------------------- MODULE ArtifactPublish ----------------------------
(***************************************************************************)
(* Publication of the output files of one command: stage every document    *)
(* beside its target, keep a hard link to the file it will replace, rename *)
(* the documents into place in order, and undo the renames when one fails. *)
(* Every file-system call may fail.  The process may crash between any two *)
(* of them: no code runs then, and what is on disk is what the calls left. *)
(* Nobody else writes the paths (the caller's contract).                   *)
(***************************************************************************)
EXTENDS Naturals

CONSTANT N           \* number of artifacts; the last one is RESULT

ASSUME ArtifactAssumption == N \in Nat \ {0}

Items == 1..N

VARIABLES
    initially,       \* what each target was before the call: "absent" or "old"
    target,          \* what each target is: "absent", "old" or "new"
    directory,       \* items whose staging directory exists
    staged,          \* items whose staged document exists, whole or not
    previous,        \* items whose backup link exists in the staging directory
    has_previous,    \* StagedArtifact flags, as sets of items
    published,
    preserve_backup,
    phase,           \* "validate", "stage", "publish", "rollback", "clean",
                     \* "finish", "returned", "threw" or "crashed"
    at,              \* item the phase's loop is at
    failing,         \* an exception is being handled
    reported         \* items whose staging directory the exception names

disk == <<initially, target, directory, staged, previous>>
memory == <<has_previous, published, preserve_backup, phase, at, failing, reported>>
vars == <<disk, memory>>

Init ==
    /\ initially \in [Items -> {"absent", "old"}]
    /\ target = initially
    /\ directory = {} /\ staged = {} /\ previous = {}
    /\ has_previous = {} /\ published = {} /\ preserve_backup = {}
    /\ phase = "validate" /\ at = 1
    /\ failing = FALSE /\ reported = {}

\* On to the next item of the phase, or to the next phase.
Proceed(next) ==
    IF at = N THEN phase' = next /\ at' = 1
              ELSE at' = at + 1 /\ UNCHANGED phase

-----------------------------------------------------------------------------
(* validate_paths: aliases, special files and stdout are refused up front.  *)
RejectPaths ==
    /\ phase = "validate"
    /\ phase' = "threw"
    /\ UNCHANGED <<disk, has_previous, published, preserve_backup, at, failing, reported>>

AcceptPaths ==
    /\ phase = "validate"
    /\ phase' = "stage"
    /\ UNCHANGED <<disk, has_previous, published, preserve_backup, at, failing, reported>>

(* The three calls that stage one artifact.                                 *)
MakeDirectory ==
    /\ phase = "stage" /\ at \notin directory
    /\ directory' = directory \cup {at}
    /\ UNCHANGED <<initially, target, staged, previous, memory>>

WriteDocument ==
    /\ phase = "stage" /\ at \in directory \ staged
    /\ staged' = staged \cup {at}
    /\ UNCHANGED <<initially, target, directory, previous, memory>>

\* Mutant: the file to be replaced is not backed up.
LinkPrevious_no_backup ==
    /\ phase = "stage" /\ at \in staged
    /\ Proceed("publish")
    /\ UNCHANGED <<initially, target, directory, staged, previous, has_previous,
                   published, preserve_backup, failing, reported>>

LinkPrevious ==
    /\ phase = "stage" /\ at \in staged
    /\ IF target[at] = "absent"
       THEN UNCHANGED <<previous, has_previous>>
       ELSE previous' = previous \cup {at} /\ has_previous' = has_previous \cup {at}
    /\ Proceed("publish")
    /\ UNCHANGED <<initially, target, directory, staged, published,
                   preserve_backup, failing, reported>>

\* The exception handler starts: roll back from the last item.
Abort == phase' = "rollback" /\ at' = N /\ failing' = TRUE

\* A call of the current item's staging fails; a failed write may leave part
\* of a document behind.
StagingFails ==
    /\ phase = "stage"
    /\ staged' \in {staged, staged \cup ({at} \cap directory)}
    /\ Abort
    /\ UNCHANGED <<initially, target, directory, previous, has_previous,
                   published, preserve_backup, reported>>

-----------------------------------------------------------------------------
Publish ==
    /\ phase = "publish"
    /\ target' = [target EXCEPT ![at] = "new"]
    /\ staged' = staged \ {at}
    /\ published' = published \cup {at}
    /\ Proceed("clean")
    /\ UNCHANGED <<initially, directory, previous, has_previous,
                   preserve_backup, failing, reported>>

\* Mutant: publication goes on after a failed rename.
PublishFails_goes_on ==
    /\ phase = "publish"
    /\ Proceed("clean")
    /\ UNCHANGED <<disk, has_previous, published, preserve_backup, failing, reported>>

\* ArtifactRename's contract: it throws before changing either path.
PublishFails ==
    /\ phase = "publish"
    /\ Abort
    /\ UNCHANGED <<disk, has_previous, published, preserve_backup, reported>>

-----------------------------------------------------------------------------
(* rollback: backwards over the staged items, restoring the published ones. *)
Backwards ==
    IF at = 1 THEN phase' = "clean" /\ at' = 1
              ELSE at' = at - 1 /\ UNCHANGED phase

LeaveUnpublished ==
    /\ phase = "rollback" /\ at \notin published
    /\ Backwards
    /\ UNCHANGED <<disk, has_previous, published, preserve_backup, failing, reported>>

Restore ==
    /\ phase = "rollback" /\ at \in published
    /\ IF at \in has_previous
       THEN target' = [target EXCEPT ![at] = "old"] /\ previous' = previous \ {at}
       ELSE target' = [target EXCEPT ![at] = "absent"] /\ UNCHANGED previous
    /\ Backwards
    /\ UNCHANGED <<initially, directory, staged, has_previous, published,
                   preserve_backup, failing, reported>>

\* Mutant: the only backup is not kept.
RestoreFails_unkept ==
    /\ phase = "rollback" /\ at \in published
    /\ reported' = reported \cup {at}
    /\ Backwards
    /\ UNCHANGED <<disk, has_previous, published, preserve_backup, failing>>

RestoreFails ==
    /\ phase = "rollback" /\ at \in published
    /\ preserve_backup' = preserve_backup \cup {at}
    /\ reported' = reported \cup {at}
    /\ Backwards
    /\ UNCHANGED <<disk, has_previous, published, failing>>

-----------------------------------------------------------------------------
(* clean_staging: every staging directory goes, except retained backups.    *)
ToClean == at \in directory \ preserve_backup

KeepStaging ==
    /\ phase = "clean" /\ ~ToClean
    /\ Proceed("finish")
    /\ UNCHANGED <<disk, has_previous, published, preserve_backup, failing, reported>>

RemoveStaging ==
    /\ phase = "clean" /\ ToClean
    /\ directory' = directory \ {at}
    /\ staged' = staged \ {at}
    /\ previous' = previous \ {at}
    /\ Proceed("finish")
    /\ UNCHANGED <<initially, target, has_previous, published, preserve_backup,
                   failing, reported>>

\* A removal that fails has removed any part of the directory's contents.
RemoveStagingFails ==
    /\ phase = "clean" /\ ToClean
    /\ staged' \in {staged, staged \ {at}}
    /\ previous' \in {previous, previous \ {at}}
    /\ reported' = reported \cup {at}
    /\ Proceed("finish")
    /\ UNCHANGED <<initially, target, directory, has_previous, published,
                   preserve_backup, failing>>

\* The call returns, or throws what failed and what it could not undo.
Finish ==
    /\ phase = "finish"
    /\ phase' = IF failing \/ reported # {} THEN "threw" ELSE "returned"
    /\ UNCHANGED <<disk, has_previous, published, preserve_backup, at, failing, reported>>

Crash ==
    /\ phase \notin {"returned", "threw", "crashed"}
    /\ phase' = "crashed"
    /\ UNCHANGED <<disk, has_previous, published, preserve_backup, at, failing, reported>>

Next ==
    \/ RejectPaths \/ AcceptPaths
    \/ MakeDirectory \/ WriteDocument \/ LinkPrevious \/ StagingFails
    \/ Publish \/ PublishFails
    \/ LeaveUnpublished \/ Restore \/ RestoreFails
    \/ KeepStaging \/ RemoveStaging \/ RemoveStagingFails
    \/ Finish \/ Crash

Spec == Init /\ [][Next]_vars

-----------------------------------------------------------------------------
TypeOK ==
    /\ initially \in [Items -> {"absent", "old"}]
    /\ target \in [Items -> {"absent", "old", "new"}]
    /\ directory \subseteq Items /\ staged \subseteq Items
    /\ previous \subseteq Items /\ has_previous \subseteq Items
    /\ published \subseteq Items /\ preserve_backup \subseteq Items
    /\ reported \subseteq Items
    /\ phase \in {"validate", "stage", "publish", "rollback", "clean", "finish",
                  "returned", "threw", "crashed"}
    /\ at \in Items
    /\ failing \in BOOLEAN

Committed == ~failing /\ published = Items

(* RESULT is published last: whenever the new RESULT is in place, every     *)
(* other artifact of the same run is, also after a crash and in the middle  *)
(* of a rollback.                                                           *)
ResultComesLast == target[N] = "new" => \A i \in Items : target[i] = "new"

(* Until every artifact is in place, the contents of a file that existed    *)
(* before are still on disk, under its name or as the backup beside it,     *)
(* whatever fails and wherever the process dies.                            *)
NothingLost ==
    \A i \in Items :
        initially[i] = "old" /\ ~Committed => target[i] = "old" \/ i \in previous

(* A failure that was handled leaves every target as it was, except those   *)
(* it could not restore; these it names, and their staging directory, with  *)
(* the backup of what they replaced, is kept.                               *)
HandledFailureRestores ==
    phase = "threw" /\ failing =>
        \A i \in Items :
            \/ target[i] = initially[i]
            \/ /\ i \in reported /\ i \in directory
               /\ initially[i] = "old" => i \in previous

(* How the call ends tells what it left: one that does not fail has         *)
(* published everything, so has one that throws without a failed            *)
(* publication, where only cleaning up failed, and neither leaves a staging *)
(* directory behind unmentioned.                                            *)
OutcomeTellsState ==
    /\ phase = "returned" \/ (phase = "threw" /\ ~failing /\ reported # {}) =>
          \A i \in Items : target[i] = "new"
    /\ phase \in {"returned", "threw"} => directory \subseteq reported
=============================================================================
