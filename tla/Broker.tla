-------------------------------- MODULE Broker --------------------------------
(***************************************************************************)
(* The MCP server of kvendra (mcp/server.rs with approval/, vault/ and     *)
(* vars/resolve.rs): one process that serves tools/call requests one at a  *)
(* time and, for each, heals its vault, substitutes local variables,       *)
(* checks detection, the signed allowlist, the approval mode and the       *)
(* escape-hatch quota, resolves the secret, records a Started row, runs    *)
(* the primitive and masks what it answers.                                *)
(*                                                                         *)
(* Everything it decides with is a file that other commands and the owner  *)
(* change meanwhile: the session (kvendra unlock / lock), config.toml, the *)
(* allowlist with its HMAC in the profile's metadata (secret               *)
(* set-allowlist, which writes the two one after the other), vars.blob     *)
(* (vars set).  A call is therefore a sequence of steps, one for each      *)
(* reading of shared state.                                                *)
(*                                                                         *)
(* A HMAC is modelled by the text it authenticates, a local variable by    *)
(* the version of the value vars.blob holds, a secret by whether there is  *)
(* one.  Refusal rows of the audit log are left to AuditWriter: their      *)
(* result is ignored by the code.                                          *)
(***************************************************************************)
EXTENDS ApprovalPolicy, FiniteSets

CONSTANTS
  Profile,        \* profiles of the vault
  Name,           \* profile names an allowlist may declare
  Op,             \* operations of the primitives
  Policy,         \* allowlist texts, records of PolicyType
  NoPolicy,       \* no allowlist file, or no HMAC
  Call,           \* requests the client may send, records of CallType
  NoCall,         \* no request is being served
  Config,         \* contents of config.toml, records of ConfigType
  DefaultConfig,  \* what an absent or rejected config.toml stands for
  EnvMode,        \* KVENDRA_APPROVAL_MODE of the server process
  RawEnabled,     \* profiles with unsafe_raw_token_enabled
  Remote,         \* resolvers the server may boot with: workspace mode or not
  CacheTtl,       \* approval.cache_ttl_seconds, in ticks
  MaxTime,        \* bound on the clock
  MaxVars,        \* bound on the values a local variable takes
  MaxEdits        \* bound on the changes made from outside the server

PolicyType == [of : Name, ops : SUBSET Op, bounds : BOOLEAN,
               mode : ModeOrUnset, destructive : BOOLEAN, uses : Nat]
CallType   == [raw : BOOLEAN, op : Op, profile : Profile,
               form : {"good", "bad_field", "no_profile", "bad_profile"},
               ref : BOOLEAN,         \* mentions {{lvr:key}}
               hit : BOOLEAN,         \* a detection pattern matches
               text : 0 .. MaxVars,   \* value its free text carries, 0 = none
               destructive : BOOLEAN] \* by the built-in catalogue
ConfigType == [mode : Mode, severity : {"warn", "error", "block"},
               downgrade : BOOLEAN, signed : BOOLEAN]

ASSUME BrokerConstants ==
  /\ Profile \subseteq Name
  /\ Policy \subseteq PolicyType /\ NoPolicy \notin Policy
  /\ Call \subseteq CallType /\ NoCall \notin Call
  /\ Config \subseteq ConfigType
  /\ DefaultConfig \in ConfigType /\ DefaultConfig.signed
  /\ EnvMode \in ModeOrUnset
  /\ RawEnabled \subseteq Profile /\ Remote \subseteq BOOLEAN
  /\ CacheTtl \in Nat /\ MaxTime \in Nat /\ MaxVars \in Nat /\ MaxEdits \in Nat

VARIABLES
  now,      \* the clock
  edits,    \* changes made from outside so far
  session,  \* can the session on disk be loaded?
  conf,     \* config.toml
  vars,     \* vars.blob: version of the value it holds, 0 = no file
  yaml,     \* per profile: the allowlist file
  meta,     \* per profile: the metadata file
  cli,      \* the set-allowlist command under way
  vault,    \* the server's vault: Locked, LockedPendingUnlock or Unlocked
  config,   \* the server's copy of the configuration
  writer,   \* its audit writer: none, up, or failed (none since a failed start)
  remote,   \* is the resolver the workspace broker?
  cache,    \* approval cache: <<profile, text>> -> expiry, 0 = no entry
  used,     \* per profile: escape-hatch uses counted
  pc,       \* next step of the server
  job,      \* the call being served
  signed,   \* history: the texts set-allowlist has signed, per profile
  granted,  \* history: when the human granted <<profile, text>> last, -1 = not
            \* since the cache dropped the entry
  exposed   \* history: per profile, plaintexts handed out by this process

allowlists == <<yaml, meta, cli, signed>>
disk       == <<session, conf, vars, allowlists>>
server     == <<vault, config, writer, remote>>
memory     == <<cache, used, granted, exposed>>
bvars      == <<now, edits, disk, server, memory, pc, job>>

Text    == Policy \cup {NoPolicy}
Meta    == [hmac : Text, quarantined : BOOLEAN]
CacheKey == Profile \X Text
NoCli   == [step |-> "none"]

(* Everything a call knows between its steps.                              *)
NoJob == [call |-> NoCall, known |-> 0, value |-> 0, read |-> NoPolicy,
          meta |-> [hmac |-> NoPolicy, quarantined |-> FALSE],
          text |-> NoPolicy, secret |-> FALSE, event |-> "none", out |-> 0,
          answer |-> "none",
          changed |-> FALSE, healthy |-> FALSE]   \* history, see the properties

Unlocked == vault = "Unlocked"

(* The approval cache and the counters of a server that has just started.  *)
NoGrants == [k \in CacheKey |-> -1]
NoCache  == [k \in CacheKey |-> 0]
NoUses   == [p \in Profile |-> 0]

(* The files are what earlier commands and edits have left: an allowlist   *)
(* may be missing, or not be the one that was signed.                      *)
BrokerInit ==
  /\ now = 0 /\ edits = 0
  /\ session \in BOOLEAN /\ conf \in Config /\ vars \in 0 .. MaxVars
  /\ yaml \in [Profile -> Text]
  /\ signed \in [Profile -> {{}} \cup {{text} : text \in Policy}]
  /\ \A p \in Profile : \A text \in signed[p] : text.of = p
  /\ \E hmac \in [Profile -> Text] :
       /\ \A p \in Profile : hmac[p] \in signed[p] \/ (signed[p] = {} /\ hmac[p] = NoPolicy)
       /\ meta = [p \in Profile |-> [hmac |-> hmac[p], quarantined |-> FALSE]]
  /\ cli = NoCli
  /\ vault = "Locked" /\ config = DefaultConfig /\ writer = "none" /\ remote = FALSE
  /\ cache = NoCache /\ granted = NoGrants /\ used = NoUses /\ exposed = NoUses
  /\ pc = "off" /\ job = NoJob

------------------------------------------------------------------------------
(* The process.                                                            *)

(* What a load of config.toml with an unlocked vault yields.               *)
VerifiedConfig == IF conf.signed THEN conf ELSE DefaultConfig

VaultStateKind == {"Locked", "LockedPendingUnlock", "Unlocked"}

(* mcp serve: attach_session_key unlocks with the session or a password,   *)
(* boots tolerantly without either, or skips the step (--no-unlock).  The  *)
(* configuration is verified only under an unlocked vault; without one     *)
(* there is no audit writer.                                               *)
Boot ==
  /\ pc = "off"
  /\ \E v \in VaultStateKind :
       /\ v = "LockedPendingUnlock" => ~session
       /\ vault' = v
       /\ config' = IF v = "Unlocked" THEN VerifiedConfig ELSE conf
       /\ writer' = IF v = "Unlocked" THEN "up" ELSE "none"
  /\ remote' \in Remote
  /\ pc' = "idle"
  /\ UNCHANGED <<now, edits, disk, memory, job>>

(* The client closes the pipe, or the process dies: all of it was memory.  *)
Exit ==
  /\ pc # "off"
  /\ pc' = "off" /\ job' = NoJob
  /\ vault' = "Locked" /\ config' = DefaultConfig /\ writer' = "none" /\ remote' = FALSE
  /\ cache' = NoCache /\ granted' = NoGrants /\ used' = NoUses /\ exposed' = NoUses
  /\ UNCHANGED <<now, edits, disk>>

(* The idle timeout of the key in memory runs out; nothing refreshes it.   *)
ExpireKey ==
  /\ pc # "off" /\ Unlocked
  /\ vault' = "Locked"
  /\ job' = [job EXCEPT !.healthy = FALSE]
  /\ UNCHANGED <<now, edits, disk, config, writer, remote, memory, pc>>

------------------------------------------------------------------------------
(* One call, step by step.  A step either continues, refuses or ends it.   *)

AtStep(step) == pc = step

Continue(step) == pc' = step

(* The call is over; what shows in its answer is out.                      *)
Answer(why, out) ==
  /\ pc' = "respond"
  /\ job' = [NoJob EXCEPT !.call = job.call, !.known = job.known, !.out = out,
                          !.answer = why, !.changed = job.changed, !.healthy = job.healthy]

Refuse(why) == Answer(why, 0)

(* try_self_heal_vault.                                                    *)
HealNotNeeded ==
  /\ Unlocked
  /\ UNCHANGED server

HealWithoutSession ==
  /\ ~Unlocked /\ ~session
  /\ UNCHANGED server

(* Variant: the writer is only ever started at boot.                       *)
HealWithoutWriter ==
  /\ ~Unlocked /\ session /\ conf.signed
  /\ vault' = "Unlocked" /\ config' = conf
  /\ UNCHANGED <<writer, remote>>

(* ensure_audit_writer_spawned: a writer that is there stays; opening its  *)
(* database may fail.                                                      *)
WriterStarts == writer' = "up" \/ (writer # "up" /\ writer' = "failed")

(* The session unlocks the vault, the configuration on disk verifies and   *)
(* replaces the cached one, and the audit writer is started if missing.    *)
HealFully ==
  /\ ~Unlocked /\ session /\ conf.signed
  /\ vault' = "Unlocked" /\ config' = conf
  /\ WriterStarts
  /\ UNCHANGED remote

(* The configuration on disk does not verify: the vault is locked again.   *)
HealRelocked ==
  /\ ~Unlocked /\ session /\ ~conf.signed
  /\ vault' = "Locked"
  /\ UNCHANGED <<config, writer, remote>>

(* A request arrives and tools_call begins by healing the vault.           *)
Receive ==
  /\ AtStep("idle")
  /\ \E c \in Call :
       job' = [NoJob EXCEPT !.call = c, !.healthy = Unlocked \/ (session /\ conf.signed)]
  /\ HealNotNeeded \/ HealWithoutSession \/ HealFully \/ HealRelocked
  /\ Continue("screen")
  /\ UNCHANGED <<now, edits, disk, memory>>

(* LvrState::known_values: the value the output filter can mask now.       *)
KnownValue == IF Unlocked THEN vars ELSE 0

(* Variant: no snapshot before the call, only the values known at its end. *)
ScreenWithoutSnapshot ==
  /\ AtStep("screen")
  /\ IF job.call.form = "bad_field" THEN Refuse("bad_field")
     ELSE IF vault = "LockedPendingUnlock" THEN Refuse("pending_unlock")
     ELSE Continue("prepare") /\ UNCHANGED job
  /\ UNCHANGED <<now, edits, disk, server, memory>>

(* tools_call takes its snapshot of the values to mask, then refuses a     *)
(* malformed tool name and, before the first unlock, every call.           *)
Screen ==
  /\ AtStep("screen")
  /\ \/ /\ job.call.form = "bad_field"
        /\ Refuse("bad_field")
     \/ /\ job.call.form # "bad_field" /\ vault = "LockedPendingUnlock"
        /\ Refuse("pending_unlock")
     \/ /\ job.call.form # "bad_field" /\ vault # "LockedPendingUnlock"
        /\ job' = [job EXCEPT !.known = KnownValue]
        /\ Continue("prepare")
  /\ UNCHANGED <<now, edits, disk, server, memory>>

(* vars::resolve::prepare: the references take the value vars.blob holds   *)
(* now; the rate limiter may refuse.                                       *)
Prepare ==
  /\ AtStep("prepare")
  /\ \/ /\ ~job.call.ref
        /\ Continue("inspect") /\ UNCHANGED job
     \/ /\ job.call.ref /\ ~Unlocked
        /\ Refuse("lvr_vault_locked")
     \/ /\ job.call.ref /\ Unlocked
        /\ Refuse(IF vars = 0 THEN "lvr_undefined" ELSE "lvr_rate_limited")
     \/ /\ job.call.ref /\ Unlocked /\ vars # 0
        /\ job' = [job EXCEPT !.value = vars]
        /\ Continue("inspect")
  /\ UNCHANGED <<now, edits, disk, server, memory>>

Subject == job.call.profile

Warned == job.call.hit => config.severity = "warn"

(* A free-text field carries the literal value of a variable.              *)
FreeTextHit == job.call.text # 0 /\ job.call.text = KnownValue

(* enforce_allowlist, up to reading the file.                              *)
ReadAllowlist ==
  \/ /\ yaml[Subject] = NoPolicy
     /\ Refuse("missing_allowlist")
  \/ /\ yaml[Subject] # NoPolicy
     /\ job' = [job EXCEPT !.read = yaml[Subject]]
     /\ Continue("check")

GuardFreeText ==
  \/ FreeTextHit /\ Refuse("free_text")
  \/ ~FreeTextHit /\ ReadAllowlist

(* Profile form, detection on the arguments as sent, free-text guard; then *)
(* the allowlist.                                                          *)
Inspect ==
  /\ AtStep("inspect")
  /\ \/ /\ job.call.form \in {"no_profile", "bad_profile"}
        /\ Refuse(job.call.form)
     \/ /\ job.call.form = "good" /\ job.call.hit /\ config.severity = "error"
        /\ Refuse("detection")
     \/ /\ job.call.form = "good" /\ job.call.hit /\ config.severity = "block"
        /\ job' = [job EXCEPT !.meta = meta[Subject]]
        /\ Continue("quarantine")
     \/ /\ job.call.form = "good" /\ Warned
        /\ GuardFreeText
  /\ UNCHANGED <<now, edits, disk, server, memory>>

(* mark_quarantined writes back the metadata it loaded, with the flag set. *)
Quarantine ==
  /\ AtStep("quarantine")
  /\ meta' = [meta EXCEPT ![Subject] = [job.meta EXCEPT !.quarantined = TRUE]]
  /\ Refuse("detection")
  /\ UNCHANGED <<now, edits, session, conf, vars, yaml, cli, signed, server, memory>>

(* Variant: an allowlist without a HMAC is taken for a legacy one.         *)
GenuineOrUnsigned(p, text) == meta[p].hmac \in {text, NoPolicy} /\ text.of = p

Genuine(p, text) == meta[p].hmac = text /\ text.of = p

Allows(text, call) == call.op \in text.ops /\ (call.ref => text.bounds)

(* enforce_allowlist, from the HMAC key on.                                *)
CheckAllowlist ==
  /\ AtStep("check")
  /\ \/ /\ ~Unlocked
        /\ Refuse("vault_locked")
     \/ /\ Unlocked /\ ~Genuine(Subject, job.read)
        /\ Refuse("tampered")
     \/ /\ Unlocked /\ Genuine(Subject, job.read) /\ ~Allows(job.read, job.call)
        /\ Refuse("denied")
     \/ /\ Unlocked /\ Genuine(Subject, job.read) /\ Allows(job.read, job.call)
        /\ Continue("judge") /\ UNCHANGED job
  /\ UNCHANGED <<now, edits, disk, server, memory>>

(* Destructive by the catalogue, or declared so in the allowlist.          *)
lookup_destructive(text, call) == call.destructive \/ text.destructive

(* approval::check loads the allowlist again, unverified, for the mode and *)
(* the destructive flag.                                                   *)
Prompts(text, call) ==
  LET override == IF text = NoPolicy THEN Unset ELSE text.mode
      destructive == text # NoPolicy /\ lookup_destructive(text, call)
  IN  should_prompt(resolve_mode_ratcheted(EnvMode, override, config.mode, config.downgrade),
                    destructive)

Judge ==
  /\ AtStep("judge")
  /\ Continue(IF Prompts(yaml[Subject], job.call) THEN "lookup" ELSE "quota")
  /\ UNCHANGED <<now, edits, disk, server, memory, job>>

(* Variant: the cache key is the profile alone.                            *)
LookupNoText == NoPolicy

(* The allowlist is read once more for the cache key; without the HMAC key *)
(* the key is the profile alone.                                           *)
LookupText == IF Unlocked THEN yaml[Subject] ELSE NoPolicy

Fresh(key) == now < cache[key]

Lookup ==
  /\ AtStep("lookup")
  /\ LET key == <<Subject, LookupText>> IN
     \/ /\ Fresh(key)
        /\ Continue("quota") /\ UNCHANGED <<job, cache, granted>>
     \/ /\ ~Fresh(key)
        /\ cache' = [cache EXCEPT ![key] = 0]
        /\ granted' = [granted EXCEPT ![key] = -1]
        /\ job' = [job EXCEPT !.text = LookupText]
        /\ Continue("ask")
  /\ UNCHANGED <<now, edits, disk, server, used, exposed>>

(* What the popup of the operating system ends in.  Silent is Judge's, and *)
(* CacheHit Lookup's; the others belong to a terminal's prompt.            *)
ApprovalDecision == {"BiometricGranted", "BiometricRejected", "BiometricUnavailable"}

blocks_dispatch(d) == d \in {"BiometricRejected", "BiometricUnavailable"}

error_type(d) == IF d = "BiometricRejected" THEN "approval_denied" ELSE "approval_no_biometric"

approve(key) ==
  /\ cache' = [cache EXCEPT ![key] = now + CacheTtl]
  /\ granted' = [granted EXCEPT ![key] = now]

(* A grant warms the cache.                                                *)
Ask ==
  /\ AtStep("ask")
  /\ \E d \in ApprovalDecision :
     \/ /\ ~blocks_dispatch(d)
        /\ approve(<<Subject, job.text>>)
        /\ job' = [job EXCEPT !.text = NoPolicy]
        /\ Continue("quota")
     \/ /\ blocks_dispatch(d)
        /\ Refuse(error_type(d)) /\ UNCHANGED <<cache, granted>>
  /\ UNCHANGED <<now, edits, disk, server, used, exposed>>

(* unsafe_max_uses_for reads the allowlist, whatever its HMAC.             *)
DefaultMaxUses == 1
MaxUses(p) == IF yaml[p] = NoPolicy THEN DefaultMaxUses ELSE yaml[p].uses

(* Variant: off by one.                                                    *)
QuotaLeftOrSpent == job.call.raw => used[Subject] <= MaxUses(Subject)

QuotaLeft == job.call.raw => used[Subject] < MaxUses(Subject)

(* check_unsafe_quota, then in workspace mode the stale-allowlist gate.    *)
CheckQuota ==
  /\ AtStep("quota")
  /\ \/ /\ ~QuotaLeft
        /\ Refuse("quota")
     \/ /\ QuotaLeft /\ remote
        /\ Refuse("stale")
     \/ /\ QuotaLeft
        /\ Continue("resolve") /\ UNCHANGED job
  /\ UNCHANGED <<now, edits, disk, server, memory>>

(* The resolver finds a secret or none; a locked local vault counts as     *)
(* none, every other failure of the workspace broker ends the call.        *)
Resolve ==
  /\ AtStep("resolve")
  /\ \/ /\ \E found \in BOOLEAN :
             /\ found => remote \/ Unlocked
             /\ job' = [job EXCEPT !.secret = found]
        /\ Continue("consume")
     \/ /\ remote
        /\ Refuse("resolver")
  /\ UNCHANGED <<now, edits, disk, server, memory>>

(* The Started row.  Without a writer, or when recording fails, the call   *)
(* goes on with event id 0.                                                *)
RecordStarted ==
  \/ writer = "up" /\ job' = [job EXCEPT !.event = "started"]
  \/ writer = "up" /\ job' = [job EXCEPT !.event = "failed"]
  \/ writer # "up" /\ UNCHANGED job

(* consume_unsafe_quota, then the Started row.                             *)
Consume ==
  /\ AtStep("consume")
  /\ \/ /\ ~QuotaLeft
        /\ Refuse("quota") /\ UNCHANGED used
     \/ /\ QuotaLeft
        /\ used' = IF job.call.raw THEN [used EXCEPT ![Subject] = @ + 1] ELSE used
        /\ RecordStarted
        /\ Continue("run")
  /\ UNCHANGED <<now, edits, disk, server, cache, granted, exposed>>

(* invoke_primitive.  The escape hatch reads the metadata, then hands out  *)
(* the resolved secret or the vault's; every other primitive may show the  *)
(* value of a substituted variable in its result or its error.             *)
HandsOut ==
  /\ job.call.raw
  /\ Subject \in RawEnabled /\ ~meta[Subject].quarantined
  /\ job.secret \/ Unlocked
  /\ exposed' = [exposed EXCEPT ![Subject] = @ + 1]
  /\ Answer("ok", 0)

HandsOutNothing ==
  /\ job.call.raw
  /\ Answer("error", 0)
  /\ UNCHANGED exposed

RunsPrimitive ==
  /\ ~job.call.raw
  /\ \E shown \in {0, job.value}, result \in {"ok", "error"} : Answer(result, shown)
  /\ UNCHANGED exposed

Run ==
  /\ AtStep("run")
  /\ HandsOut \/ HandsOutNothing \/ RunsPrimitive
  /\ UNCHANGED <<now, edits, disk, server, cache, used, granted>>

(* The value the filter of tools_call masks in the answer: the snapshot's, *)
(* or without one the value known at the end.                              *)
Masked == IF job.known # 0 THEN job.known ELSE KnownValue

Respond ==
  /\ AtStep("respond")
  /\ Continue("idle") /\ job' = NoJob
  /\ UNCHANGED <<now, edits, disk, server, memory>>

------------------------------------------------------------------------------
(* What happens outside the server meanwhile.                              *)

Edit ==
  /\ edits < MaxEdits
  /\ edits' = edits + 1
  /\ UNCHANGED <<now, server, memory, pc>>

(* unlock, unlock --extend, lock, or the end of the session's lifetime.    *)
ChangeSession ==
  /\ Edit
  /\ session' = ~session
  /\ job' = IF session THEN [job EXCEPT !.healthy = FALSE] ELSE job
  /\ UNCHANGED <<conf, vars, allowlists>>

(* config.toml is saved by a config command, or edited by hand.            *)
ChangeConfig ==
  /\ Edit
  /\ conf' \in Config
  /\ UNCHANGED <<session, vars, allowlists, job>>

(* vars set.                                                               *)
SetVar ==
  /\ Edit
  /\ vars < MaxVars
  /\ vars' = vars + 1
  /\ job' = [job EXCEPT !.changed = TRUE]
  /\ UNCHANGED <<session, conf, allowlists>>

(* The allowlist file is edited by hand, or removed: its HMAC stays.       *)
EditAllowlist ==
  /\ Edit
  /\ \E p \in Profile, text \in Text : yaml' = [yaml EXCEPT ![p] = text]
  /\ UNCHANGED <<session, conf, vars, meta, cli, signed, job>>

(* secret set-allowlist: write the file, load the metadata, save it with   *)
(* the new HMAC.                                                           *)
WriteAllowlist ==
  /\ Edit
  /\ cli = NoCli
  /\ \E text \in {t \in Policy : t.of \in Profile} :
       /\ yaml' = [yaml EXCEPT ![text.of] = text]
       /\ cli' = [step |-> "load", text |-> text]
  /\ UNCHANGED <<session, conf, vars, meta, signed, job>>

LoadMeta ==
  /\ cli.step = "load"
  /\ cli' = [step |-> "save", text |-> cli.text,
             meta |-> [meta[cli.text.of] EXCEPT !.hmac = cli.text]]
  /\ UNCHANGED <<now, edits, session, conf, vars, yaml, meta, signed, server, memory, pc, job>>

SaveMeta ==
  /\ cli.step = "save"
  /\ LET p == cli.text.of IN
       /\ meta' = [meta EXCEPT ![p] = cli.meta]
       /\ signed' = [signed EXCEPT ![p] = @ \cup {cli.text}]
  /\ cli' = NoCli
  /\ UNCHANGED <<now, edits, session, conf, vars, yaml, server, memory, pc, job>>

(* set-allowlist fails, or dies, before it is done.                        *)
SetAllowlistFails ==
  /\ cli # NoCli
  /\ cli' = NoCli
  /\ UNCHANGED <<now, edits, session, conf, vars, yaml, meta, signed, server, memory, pc, job>>

Tick ==
  /\ now < MaxTime
  /\ now' = now + 1
  /\ UNCHANGED <<edits, disk, server, memory, pc, job>>

Serve ==
  \/ Receive \/ Screen \/ Prepare \/ Inspect \/ Quarantine
  \/ CheckAllowlist \/ Judge \/ Lookup \/ Ask
  \/ CheckQuota \/ Resolve \/ Consume \/ Run \/ Respond

Outside ==
  \/ ChangeSession \/ ChangeConfig \/ SetVar \/ EditAllowlist
  \/ WriteAllowlist \/ LoadMeta \/ SaveMeta \/ SetAllowlistFails \/ Tick

BrokerNext == Boot \/ Exit \/ ExpireKey \/ Serve \/ Outside

BrokerSpec == BrokerInit /\ [][BrokerNext]_bvars

------------------------------------------------------------------------------
(* Properties.                                                             *)

(* A call that has passed the allowlist and has not been answered.         *)
Admitted == pc \in {"judge", "lookup", "ask", "quota", "resolve", "consume", "run"}

(* A call that passes the approval step on a cached approval rests on a    *)
(* human who, in this process and less than the cache's lifetime ago,      *)
(* granted the same profile under the same allowlist text (approval/cache. *)
(* rs); the text is not known while the key is expired.                    *)
CacheHitBacked ==
  [][ Lookup /\ pc' = "quota" =>
        LET text == IF Unlocked THEN yaml[Subject] ELSE NoPolicy
            at   == granted[<<Subject, text>>]
        IN  at # -1 /\ now - at < CacheTtl ]_bvars

(* No call is admitted under a configuration that was never verified,      *)
(* however the server booted and whatever became of config.toml (findings  *)
(* A5 in try_self_heal_vault), nor against a text that set-allowlist has   *)
(* not signed for this very profile, whatever happened to the file         *)
(* (enforce_allowlist).                                                    *)
AdmittedAsSigned ==
  Admitted => config.signed /\ job.read \in signed[Subject] /\ job.read.of = Subject

(* The escape hatch never hands out more plaintexts than uses it counted,  *)
(* nor counts more than any allowlist permits, in the life of a process.   *)
QuotaHolds ==
  \A p \in Profile :
    /\ exposed[p] <= used[p]
    /\ \/ used[p] <= DefaultMaxUses
       \/ \E text \in Policy : used[p] <= text.uses

(* A substituted value reaches the client unmasked at most when vars.blob  *)
(* was changed while the call ran: a key that expires meanwhile does not   *)
(* switch the filter off (tools_call).                                     *)
Leaks == job.out # 0 /\ job.out # Masked

MaskedUnlessChanged == Leaks => job.changed

(* A call that found a usable session and a verified configuration when it *)
(* began is not refused for a locked vault, unless the key or the session  *)
(* ended meanwhile: no restart of the server is ever needed.               *)
NoFalseLock ==
  job.answer \in {"pending_unlock", "lvr_vault_locked", "vault_locked"} => ~job.healthy

(* Every primitive runs with its Started row written, unless writing that  *)
(* row or starting the writer has failed: in particular a server that      *)
(* booted locked gets its writer when it heals (ensure_audit_writer_       *)
(* spawned).                                                               *)
RunsAudited ==
  pc = "run" => job.event \in {"started", "failed"} \/ writer = "failed"

(* A healed vault is healed whole: the next call is served, and leaves its *)
(* row.                                                                    *)
HealedWhole == NoFalseLock /\ RunsAudited
=============================================================================
