-------------------------------- MODULE Backup --------------------------------
(***************************************************************************)
(* Backups of a vault (src/backup/, src/cli/backup.rs) on top of the       *)
(* variables they carry: push bundles the home directory and sends it with *)
(* the etag of this home's last push, pull fetches a bundle, extracts it   *)
(* into a staging directory and then marks its variables unverified, and   *)
(* the user moves the restored files into place.                           *)
(*                                                                         *)
(* Of a bundle only vars.blob is kept: the other files are copied both     *)
(* ways as they are.  The service and the other machines of the user are   *)
(* the environment: a backup may hold variables that are verified there.   *)
(***************************************************************************)
EXTENDS VarsStore, Sequences, SequencesExt

CONSTANTS MaxBackups,  \* bound on the backups ever pushed
          NoDir        \* the staging directory does not exist

ASSUME BackupConstants ==
  /\ MaxBackups \in Nat
  /\ NoDir \notin VarsDoc \cup {NoFile, Torn}
  /\ Value # {}

VARIABLES
  remote,      \* the backups at the service, oldest first
  pushed,      \* backups ever accepted: the next one's version and etag
  etag,        \* cache/backup_etag, 0 when missing
  staging,     \* vars.blob in the staging directory, or NoDir
  halfway,     \* ghost: has a pull stopped after it began to extract?
  overwritten  \* ghost: has an unforced push with a parent replaced another machine's backup?

bvars == <<remote, pushed, etag, staging, halfway, overwritten>>
vars  == <<vvars, bvars>>

(* BackupVersionMeta, and the variables in the blob. *)
BackupMeta == [version : Nat, doc : VarsDoc \cup {NoFile, Torn}, own : BOOLEAN]

(* Another machine's document: every value it knows, verified there. *)
ForeignDoc == [k \in Key |-> [value |-> CHOOSE v \in Value : TRUE, verified |-> TRUE, origin |-> "set"]]

BackupInit ==
  /\ VarsInit
  /\ remote = <<>> /\ pushed = 0 /\ etag = 0
  /\ staging = NoDir /\ halfway = FALSE /\ overwritten = FALSE

Start(p, op, label, doc) ==
  /\ Begin(p)
  /\ Goto(p, label)
  /\ job' = [job EXCEPT ![p] = [NoJob EXCEPT !.op = op, !.doc = doc]]

Newest == IF remote = <<>> THEN 0 ELSE Last(remote).version

------------------------------------------------------------------------------
(* push.                                                                     *)

(* The files of the home, read one after the other: the variables in it.     *)
build_bundle == file

Push(p, op) ==
  /\ pushed < MaxBackups
  /\ Start(p, op, "read-etag", build_bundle)
  /\ UNCHANGED <<file, copies, saves, vghosts, bvars>>

(* Variant: the parent is what the service lists as newest. *)
ReadNewest(p) ==
  /\ pc[p] = "read-etag"
  /\ Goto(p, "upload")
  /\ job' = [job EXCEPT ![p].at = IF job[p].op = "push-force" THEN 0 ELSE Newest]
  /\ UNCHANGED <<begun, file, copies, saves, vghosts, bvars>>

(* read_cached_etag, after the bundle is built; at is the parent.            *)
ReadEtag(p) ==
  /\ pc[p] = "read-etag"
  /\ Goto(p, "upload")
  /\ job' = [job EXCEPT ![p].at = IF job[p].op = "push-force" THEN 0 ELSE etag]
  /\ UNCHANGED <<begun, file, copies, saves, vghosts, bvars>>

(* The service accepts a push on top of its newest backup; without a parent  *)
(* it may accept or not.                                                     *)
Upload(p) ==
  /\ pc[p] = "upload" /\ pushed < MaxBackups
  /\ job[p].at \in {0, Newest}
  /\ pushed' = pushed + 1
  /\ overwritten' = (overwritten \/ (job[p].at # 0 /\ remote # <<>> /\ ~Last(remote).own))
  /\ remote' = Append(remote, [version |-> pushed + 1, doc |-> job[p].doc, own |-> TRUE])
  /\ job' = [job EXCEPT ![p].at = pushed + 1]
  /\ Goto(p, "store-etag")
  /\ UNCHANGED <<begun, file, copies, saves, vghosts, etag, staging, halfway>>

(* 409, 413, 429, 401: nothing is stored. *)
UploadRefused(p) ==
  /\ pc[p] = "upload"
  /\ Finish(p)
  /\ UNCHANGED <<begun, file, copies, saves, vghosts, bvars>>

StoreEtag(p) ==
  /\ pc[p] = "store-etag"
  /\ etag' = job[p].at
  /\ Finish(p)
  /\ UNCHANGED <<begun, file, copies, saves, vghosts, remote, pushed, staging, halfway, overwritten>>

------------------------------------------------------------------------------
(* pull and restore.                                                         *)

(* The newest of the list, or the one named: its blob, decrypted.            *)
Downloaded(i) == remote[i].doc

(* The newest backup, or the one named; the staging directory may exist only *)
(* with --yes.  The bundle is complete in memory before anything is written. *)
Pull(p, i, yes) ==
  /\ i \in DOMAIN remote
  /\ staging = NoDir \/ yes
  /\ Start(p, "pull", "extract", Downloaded(i))
  /\ UNCHANGED <<file, copies, saves, vghosts, bvars>>

(* extract_bundle writes over what is there, and leaves what the bundle does *)
(* not have.                                                                 *)
Extract(p) ==
  /\ pc[p] = "extract"
  /\ staging' = IF job[p].doc # NoFile THEN job[p].doc
                ELSE IF staging = NoDir THEN NoFile ELSE staging
  /\ Goto(p, "mark-restored")
  /\ UNCHANGED <<begun, file, copies, job, saves, vghosts, remote, pushed, etag, halfway, overwritten>>

Unverified(d) ==
  [k \in Key |-> IF d[k] = Unset THEN Unset
                 ELSE [d[k] EXCEPT !.verified = FALSE, !.origin = "restore"]]

(* mark_restored_unverified: load what is there now, and write it back.      *)
LoadRestored(p) ==
  /\ pc[p] = "mark-restored" /\ staging \notin {NoDir, NoFile, Torn}
  /\ job' = [job EXCEPT ![p].doc = Unverified(staging)]
  /\ Goto(p, "reseal")
  /\ UNCHANGED <<begun, file, copies, saves, vghosts, bvars>>

(* Variant: the variables of the bundle are marked, what was left in the *)
(* directory by an earlier pull is not.                                  *)
NothingRestoredInBundle(p) ==
  /\ pc[p] = "mark-restored"
  /\ job[p].doc = NoFile \/ staging \in {NoDir, NoFile}
  /\ Finish(p)
  /\ halfway' = FALSE
  /\ UNCHANGED <<begun, file, copies, saves, vghosts, remote, pushed, etag, staging, overwritten>>

NothingRestored(p) ==
  /\ pc[p] = "mark-restored" /\ staging \in {NoDir, NoFile}
  /\ Finish(p)
  /\ halfway' = FALSE
  /\ UNCHANGED <<begun, file, copies, saves, vghosts, remote, pushed, etag, staging, overwritten>>

Reseal(p) ==
  /\ pc[p] = "reseal" /\ staging # NoDir
  /\ staging' = job[p].doc
  /\ halfway' = FALSE
  /\ Finish(p)
  /\ UNCHANGED <<begun, file, copies, saves, vghosts, remote, pushed, etag, overwritten>>

(* An error or a death.  While the bundle is extracted the file may be cut   *)
(* off, or not yet written; a torn file cannot be loaded to be marked.       *)
BackupFail(p) ==
  /\ pc[p] \in {"read-etag", "upload", "store-etag", "extract", "mark-restored", "reseal"}
  /\ \/ pc[p] = "extract" /\ staging' \in {staging, Torn, NoFile} /\ (staging' = NoFile => staging = NoDir)
     \/ staging' = staging
  /\ halfway' = (halfway \/ pc[p] \in {"extract", "mark-restored", "reseal"})
  /\ Finish(p)
  /\ UNCHANGED <<begun, file, copies, saves, vghosts, remote, pushed, etag, overwritten>>

------------------------------------------------------------------------------
(* The user and the other machines.                                          *)

(* The user moves the restored files into place, once no pull is at work and *)
(* the last one has ended well: then it has said so.                         *)
Pulling(p) == pc[p] \in {"extract", "mark-restored", "reseal"}
Restored   == staging # NoDir /\ ~halfway /\ \A p \in Proc : ~Pulling(p)

Install ==
  /\ Restored
  /\ staging' = NoDir
  /\ saves' = saves + 1
  /\ IF staging = NoFile
       THEN UNCHANGED <<file, ledger, previous, crowd>>
       ELSE /\ file' = staging /\ ledger' = staging /\ previous' = NoFile
            /\ crowd' = (crowd \/ \E p \in Proc : pc[p] \in Saving)
  /\ UNCHANGED <<begun, copies, pc, job, confirmed, late, rotations, remote, pushed, etag, halfway, overwritten>>

(* Another machine pushes, forced or not.                                    *)
ForeignPush ==
  /\ pushed < MaxBackups
  /\ pushed' = pushed + 1
  /\ remote' = Append(remote, [version |-> pushed + 1, doc |-> ForeignDoc, own |-> FALSE])
  /\ UNCHANGED <<vvars, etag, staging, halfway, overwritten>>

(* prune: one request, nothing here changes. *)
Prune(i) ==
  /\ begun < MaxCommands /\ begun' = begun + 1
  /\ i \in DOMAIN remote
  /\ remote' = RemoveAt(remote, i)
  /\ UNCHANGED <<file, copies, pc, job, saves, vghosts, pushed, etag, staging, halfway, overwritten>>

------------------------------------------------------------------------------
BackupStep(p) ==
  \/ ReadEtag(p) \/ Upload(p) \/ UploadRefused(p) \/ StoreEtag(p)
  \/ Extract(p) \/ LoadRestored(p) \/ NothingRestored(p) \/ Reseal(p)

BackupCommand(p) ==
  \/ \E op \in {"push", "push-force"} : Push(p, op)
  \/ \E i \in DOMAIN remote, yes \in BOOLEAN : Pull(p, i, yes)

Next ==
  \/ \E p \in Proc : (VarsCommand(p) \/ VarsStep(p) \/ VarsFail(p)) /\ UNCHANGED bvars
  \/ \E p \in Proc : BackupCommand(p) \/ BackupStep(p) \/ BackupFail(p)
  \/ Install \/ ForeignPush \/ \E i \in DOMAIN remote : Prune(i)

Spec == BackupInit /\ [][Next]_vars

------------------------------------------------------------------------------
(* Properties.                                                               *)

(* Restore only lowers verified (cli/backup.rs:292): whatever an earlier     *)
(* pull, another pull at the same time or a bundle without variables has     *)
(* left in the staging directory, nothing in it is verified once no pull is  *)
(* at work and the last one has not stopped half way.  So what is verified   *)
(* was confirmed by a human on this machine, installed or not.               *)
VerifiedOnlyHere ==
  /\ ConfirmedUnlessRaced
  /\ Restored /\ staging \notin {NoFile, Torn}
       => \A k \in Key : staging[k] = Unset \/ ~staging[k].verified

(* A push without --force never supersedes the backup of another machine,    *)
(* once this home has pushed: the parent it names is its own last push       *)
(* (PushArgs::force, "even if remote etag has advanced").                    *)
OthersKept == ~overwritten

(* What a human has done to a variable or pushed is lost only so.            *)
NothingLost == LostOnlyByOverlap /\ OthersKept
==============================================================================
