-------------------------------- MODULE Profiles --------------------------------
(***************************************************************************)
(* The three files of a profile (src/vault/mod.rs) and who touches them:   *)
(* the owner's commands add, rotate, revoke and set-allowlist              *)
(* (src/cli/secret.rs), each a process of its own, and the MCP servers     *)
(* (src/mcp/server.rs), which admit calls under the signed allowlist and   *)
(* quarantine the profile of a call that carried a secret.  Nobody locks.  *)
(*                                                                         *)
(* std::fs::write truncates and then writes: a reader, or a death, in      *)
(* between finds a torn file.  No step touches the files of two profiles,  *)
(* so the module has those of one.  A signature is the text it signs, and  *)
(* the vault is unlocked wherever a step needs its key.                    *)
(***************************************************************************)
EXTENDS Naturals, FiniteSets

CONSTANTS Owner,     \* terminals running a kvendra command
          Server,    \* MCP servers
          Text,      \* allowlists the owner may set for this profile, all valid
          NoText,    \* no allowlist, or no signature
          Absent,    \* a file that does not exist
          Torn,      \* a file truncated and not written yet
          Sealed,    \* a sealed secret
          MaxCommands, \* bound on the commands begun
          MaxCalls     \* bound on the calls begun

VARIABLES
  blob,        \* secrets/<id>.blob
  meta,        \* profiles/<id>.json
  yaml,        \* allowlists/<id>.yaml
  ppc,         \* per process: its next step
  work,        \* per process: what it has read and is about to write
  commands, calls, \* begun so far
  granted,     \* ghost: the text of the last complete set-allowlist of the profile as it now is
  blocked,     \* ghost: has a server answered that the profile is quarantined?
  crowd,       \* ghost: have two processes had the metadata in hand at once?
  stale,       \* ghost: has a call been admitted under a text other than granted?
  leaked       \* ghost: has the escape hatch handed out the secret of a blocked profile?

files  == <<blob, meta, yaml>>
pghosts == <<granted, blocked, crowd, stale, leaked>>
pvars  == <<files, ppc, work, commands, calls, pghosts>>

Process == Owner \cup Server

(* Profile: the fields that decide. *)
Profile == [allowlist_hmac : Text \cup {NoText}, quarantined : BOOLEAN, unsafe_raw_token_enabled : BOOLEAN]

NoWork == [op |-> "none", text |-> NoText, meta |-> Absent]

ProfilesInit ==
  /\ blob = Absent /\ meta = Absent /\ yaml = Absent
  /\ ppc = [p \in Process |-> "idle"]
  /\ work = [p \in Process |-> NoWork]
  /\ commands = 0 /\ calls = 0
  /\ granted = NoText /\ blocked = FALSE /\ crowd = FALSE /\ stale = FALSE /\ leaked = FALSE

Step(p, from, to) == ppc[p] = from /\ ppc' = [ppc EXCEPT ![p] = to]

Finish(p, from) == Step(p, from, "idle") /\ work' = [work EXCEPT ![p] = NoWork]

BeginCommand(p, op, label, t, m) ==
  /\ p \in Owner /\ commands < MaxCommands
  /\ Step(p, "idle", label)
  /\ commands' = commands + 1
  /\ work' = [work EXCEPT ![p] = [op |-> op, text |-> t, meta |-> m]]
  /\ UNCHANGED <<files, calls, pghosts>>

Readable(file) == file \notin {Absent, Torn}

(* Who has the metadata in hand: between load and write, or while writing.   *)
InHand == {"truncate-meta", "write-meta"}
Crowded(p) == crowd \/ \E q \in Process \ {p} : ppc[q] \in InHand

------------------------------------------------------------------------------
(* Writing a file is two steps.                                              *)

(* add and rotate: put_secret, whether or not there is a blob already.       *)
TruncateBlob(p) ==
  /\ Step(p, "truncate-blob", "write-blob")
  /\ blob' = Torn
  /\ UNCHANGED <<meta, yaml, work, commands, calls, pghosts>>

WriteBlob(p) ==
  /\ IF work[p].op = "rotate" THEN Finish(p, "write-blob")
     ELSE Step(p, "write-blob", "truncate-meta") /\ UNCHANGED work
  /\ blob' = Sealed
  /\ crowd' = IF work[p].op = "rotate" THEN crowd ELSE Crowded(p)
  /\ UNCHANGED <<meta, yaml, commands, calls, granted, blocked, stale, leaked>>

(* save_profile_meta. *)
TruncateMeta(p) ==
  /\ Step(p, "truncate-meta", "write-meta")
  /\ meta' = Torn
  /\ granted' = IF work[p].op = "add" THEN NoText ELSE granted
  /\ blocked' = IF work[p].op = "add" THEN FALSE ELSE blocked
  /\ UNCHANGED <<blob, yaml, work, commands, calls, crowd, stale, leaked>>

WriteMeta(p) ==
  /\ Finish(p, "write-meta")
  /\ meta' = work[p].meta
  /\ granted' = IF work[p].op = "set-allowlist" THEN work[p].text ELSE granted
  /\ blocked' = IF work[p].op = "quarantine" THEN TRUE ELSE blocked
  /\ UNCHANGED <<blob, yaml, commands, calls, crowd, stale, leaked>>

(* set-allowlist writes the text as it was read. *)
TruncateYaml(p) ==
  /\ Step(p, "truncate-yaml", "write-yaml")
  /\ yaml' = Torn
  /\ UNCHANGED <<blob, meta, work, commands, calls, pghosts>>

WriteYaml(p) ==
  /\ Step(p, "write-yaml", "load-meta")
  /\ yaml' = work[p].text
  /\ UNCHANGED <<blob, meta, work, commands, calls, pghosts>>

------------------------------------------------------------------------------
(* The owner's commands.                                                     *)

(* add: the blob, then metadata of its own, whatever there was. *)
Add(p, raw) ==
  BeginCommand(p, "add", "truncate-blob", NoText,
    [allowlist_hmac |-> NoText, quarantined |-> FALSE, unsafe_raw_token_enabled |-> raw])

(* rotate: only the blob. *)
Rotate(p) == BeginCommand(p, "rotate", "truncate-blob", NoText, Absent)

(* set-allowlist, once the text is read, validated and found to be for this  *)
(* profile.                                                                  *)
SetAllowlist(p, t) == BeginCommand(p, "set-allowlist", "truncate-yaml", t, Absent)

Signed(t) == [meta EXCEPT !.allowlist_hmac = t]

LoadMetaToSign(p) ==
  /\ Step(p, "load-meta", "truncate-meta")
  /\ Readable(meta)
  /\ work' = [work EXCEPT ![p].meta = Signed(work[p].text)]
  /\ crowd' = Crowded(p)
  /\ UNCHANGED <<files, commands, calls, granted, blocked, stale, leaked>>

(* Without readable metadata set-allowlist fails, its file left behind. *)
NoMetaToSign(p) ==
  /\ Finish(p, "load-meta")
  /\ ~Readable(meta)
  /\ UNCHANGED <<files, commands, calls, pghosts>>

(* revoke: the three files one after the other; an error is kept for later   *)
(* and the next file tried all the same.                                     *)
RevokeProfile(p) == BeginCommand(p, "revoke", "remove-blob", NoText, Absent)

RemoveBlob(p) ==
  /\ Step(p, "remove-blob", "remove-meta")
  /\ blob' \in {blob, Absent}
  /\ UNCHANGED <<meta, yaml, work, commands, calls, pghosts>>

RemoveMeta(p) ==
  /\ Step(p, "remove-meta", "remove-yaml")
  /\ meta' \in {meta, Absent}
  /\ granted' = IF meta' = Absent THEN NoText ELSE granted
  /\ blocked' = IF meta' = Absent THEN FALSE ELSE blocked
  /\ crowd' = Crowded(p)
  /\ UNCHANGED <<blob, yaml, work, commands, calls, stale, leaked>>

RemoveYaml(p) ==
  /\ Finish(p, "remove-yaml")
  /\ yaml' \in {yaml, Absent}
  /\ UNCHANGED <<blob, meta, commands, calls, pghosts>>

(* A file operation fails or the process dies; what is torn stays torn. *)
CommandDies(p) ==
  /\ p \in Owner /\ ppc[p] # "idle"
  /\ Finish(p, ppc[p])
  /\ UNCHANGED <<files, commands, calls, pghosts>>

------------------------------------------------------------------------------
(* The servers.                                                              *)

(* A call reaches enforce_allowlist, or detection has blocked it. *)
BeginCall(s, op, label) ==
  /\ s \in Server /\ calls < MaxCalls
  /\ Step(s, "idle", label)
  /\ calls' = calls + 1
  /\ work' = [work EXCEPT ![s] = [NoWork EXCEPT !.op = op]]
  /\ UNCHANGED <<files, commands, pghosts>>

Call(s, raw) == BeginCall(s, IF raw THEN "raw-token" ELSE "primitive", "read-yaml")

Refuse(s, from) == Finish(s, from) /\ UNCHANGED <<files, commands, calls, pghosts>>

ReadYaml(s) ==
  /\ Step(s, "read-yaml", "verify")
  /\ yaml # Absent
  /\ work' = [work EXCEPT ![s].text = yaml]
  /\ UNCHANGED <<files, commands, calls, pghosts>>

MissingAllowlist(s) == yaml = Absent /\ Refuse(s, "read-yaml")

(* Variant: a text without a signature is signed as it is found, as releases *)
(* before 0.6.4 did. *)
VerifiedOrUnsigned(t) == Readable(meta) /\ meta.allowlist_hmac \in {t, NoText} /\ t # Torn

Verified(t) == Readable(meta) /\ meta.allowlist_hmac = t /\ t # NoText

Verify(s) ==
  /\ Step(s, "verify", "resolve")
  /\ Verified(work[s].text)
  /\ stale' = (stale \/ work[s].text # granted)
  /\ UNCHANGED <<files, work, commands, calls, granted, blocked, crowd, leaked>>

AllowlistTampered(s) == ~Verified(work[s].text) /\ Refuse(s, "verify")

(* get_secret; the escape hatch then reads the metadata again. *)
GetSecret(s) ==
  /\ Readable(blob)
  /\ IF work[s].op = "raw-token" THEN Step(s, "resolve", "hand-out") /\ UNCHANGED work
     ELSE Finish(s, "resolve")
  /\ UNCHANGED <<files, commands, calls, pghosts>>

NoSecret(s) == ~Readable(blob) /\ Refuse(s, "resolve")

(* unsafe_raw_token. *)
MayHandOut == Readable(meta) /\ meta.unsafe_raw_token_enabled /\ ~meta.quarantined

HandOut(s) ==
  /\ Finish(s, "hand-out")
  /\ MayHandOut
  /\ leaked' = (leaked \/ blocked)
  /\ UNCHANGED <<files, commands, calls, granted, blocked, crowd, stale>>

NoHandOut(s) == ~MayHandOut /\ Refuse(s, "hand-out")

(* Detection has blocked a call: mark_quarantined.                           *)
Block(s) == BeginCall(s, "quarantine", "load-to-quarantine")

LoadToQuarantine(s) ==
  /\ Step(s, "load-to-quarantine", "truncate-meta")
  /\ Readable(meta)
  /\ work' = [work EXCEPT ![s].meta = [meta EXCEPT !.quarantined = TRUE]]
  /\ crowd' = Crowded(s)
  /\ UNCHANGED <<files, commands, calls, granted, blocked, stale, leaked>>

(* Metadata that cannot be read is left as it is, and the call is answered   *)
(* as if it had been marked. *)
NothingToQuarantine(s) ==
  /\ Finish(s, "load-to-quarantine")
  /\ ~Readable(meta)
  /\ blocked' = TRUE
  /\ crowd' = Crowded(s)
  /\ UNCHANGED <<files, commands, calls, granted, stale, leaked>>

(* A server that dies with the metadata in hand. *)
ServerDies(s) ==
  /\ s \in Server /\ ppc[s] \in InHand
  /\ Finish(s, ppc[s])
  /\ UNCHANGED <<files, commands, calls, pghosts>>

------------------------------------------------------------------------------
Command(p) ==
  \/ \E raw \in BOOLEAN : Add(p, raw)
  \/ Rotate(p) \/ RevokeProfile(p) \/ \E t \in Text : SetAllowlist(p, t)

FileStep(p) ==
  \/ TruncateBlob(p) \/ WriteBlob(p) \/ TruncateMeta(p) \/ WriteMeta(p)
  \/ TruncateYaml(p) \/ WriteYaml(p) \/ LoadMetaToSign(p) \/ NoMetaToSign(p)
  \/ RemoveBlob(p) \/ RemoveMeta(p) \/ RemoveYaml(p) \/ CommandDies(p)

ServeStep(s) ==
  \/ \E raw \in BOOLEAN : Call(s, raw)
  \/ ReadYaml(s) \/ MissingAllowlist(s) \/ Verify(s) \/ AllowlistTampered(s)
  \/ GetSecret(s) \/ NoSecret(s) \/ HandOut(s) \/ NoHandOut(s)
  \/ LoadToQuarantine(s) \/ NothingToQuarantine(s) \/ ServerDies(s)

(* The processes on their own, when any call may be one that is blocked. *)
ProfilesNext ==
  \/ \E p \in Owner : Command(p)
  \/ \E p \in Process : FileStep(p)
  \/ \E s \in Server : ServeStep(s) \/ Block(s)

ProfilesSpec == ProfilesInit /\ [][ProfilesNext]_pvars
------------------------------------------------------------------------------
(* Properties.                                                               *)

(* A call is admitted only under the text of the last set-allowlist that     *)
(* came to its end, and none set before the profile was added anew or        *)
(* revoked, whatever was torn or left behind by a command that died, and     *)
(* although the text and its signature are read one after the other and      *)
(* written one after the other, unless two processes had the metadata in     *)
(* hand at once (vault/mod.rs:590: the later save undoes the earlier).       *)
AcceptedIsLatest == stale => crowd

(* Once a server has answered that a profile is quarantined the escape hatch *)
(* hands out nothing for it until the owner adds or revokes it, also when    *)
(* the metadata could not be read at that moment, with the same exception.   *)
QuarantineSticks == leaked => crowd

(* Both: what the owner or the server last decided of a profile holds.       *)
LastWordStands == AcceptedIsLatest /\ QuarantineSticks
===============================================================================
