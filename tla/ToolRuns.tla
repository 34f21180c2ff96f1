------------------------------- MODULE ToolRuns -------------------------------
(***************************************************************************)
(* How a primitive runs its tool as a child process (src/primitives/       *)
(* git.rs, npm.rs, pypi.rs, aws.rs, shell.rs, spawn.rs) from the moment    *)
(* the secret is resolved (src/mcp/server.rs, tools_call_inner): what the  *)
(* child finds in its environment, what it was told about the registry,    *)
(* and what its end becomes in the answer and in the row.                  *)
(*                                                                         *)
(* Meanwhile the vault locks and package.json changes. Which calls are     *)
(* admitted is AllowlistGate's, what the output may hold OutputFilter's.   *)
(* GithubOps has the primitive that asks GitHub itself; at the end of this *)
(* module the two are put together.                                        *)
(***************************************************************************)
EXTENDS GithubOps

CONSTANTS Inherited,   \* variables of the server's own environment
          Secrets,     \* what the vault may hold: [form, has]
          Directories, \* [scope, publishTo, npmrc], or NotJson: what npm reads
          NotJson, Missing,
          MaxRuns, MaxTurns

ASSUME RunsConstants == Missing \notin {"zero", "other", "killed"}

VARIABLES vault,       \* the profile's secret, or Missing while locked
          folder,      \* the package's directory
          child,       \* the call in progress
          record,      \* its row: status and code
          reply,
          runs, turns

rvars == <<vault, folder, child, record, reply, runs, turns>>

-------------------------------------------------------------------------------
(* The tools.                                                               *)

GitOps == {"clone", "push", "pull", "commit", "tag"}
NpmOps == {"publish", "deprecate"}
AwsOps == {"s3_sync", "s3_cp", "cloudfront_invalidate", "lambda_invoke"}
ToolOps == GitOps \cup NpmOps \cup AwsOps \cup {"upload", "exec"}

(* The fields a call must have, and those that must not look like an option; *)
(* a URL must also be one that git fetches from.                             *)
Demanded ==
  [op \in ToolOps |->
     CASE op = "clone" -> {"url"}            [] op \in {"push", "pull"} -> {"ref"}
       [] op = "commit" -> {"message"}       [] op = "tag" -> {"name"}
       [] op = "publish" -> {"cwd"}          [] op = "deprecate" -> {"package"}
       [] op = "upload" -> {"dist"}          [] op \in {"s3_sync", "s3_cp"} -> {"src", "dst"}
       [] op = "cloudfront_invalidate" -> {"distribution_id"}
       [] op = "lambda_invoke" -> {"function_name"} [] op = "exec" -> {"binary", "argv"}]
Guarded ==
  [op \in ToolOps |->
     CASE op \in {"push", "pull"} -> {"remote", "ref"} [] op = "upload" -> {"repository", "dist"}
       [] op = "cloudfront_invalidate" -> {"distribution_id", "paths"}
       [] op \in {"commit", "publish", "exec"} -> {}
       [] OTHER -> Demanded[op]]
FieldsOf(op) == Demanded[op] \cup Guarded[op]

(* Every field as it should be but for one.                                  *)
Odd(op) == {"plain", "missing", "-"} \cup (IF op = "clone" THEN {"helper::"} ELSE {})
ToolCalls ==
  UNION {{[op |-> op, region |-> r, words |-> [f \in FieldsOf(op) |-> IF f = odd THEN w ELSE "plain"]] :
            odd \in FieldsOf(op), w \in Odd(op),
            r \in IF op \in AwsOps THEN BOOLEAN ELSE {FALSE}} : op \in ToolOps}

Wanting(call) == \E f \in Demanded[call.op] : call.words[f] = "missing"
reject_option_like(call) == \E f \in Guarded[call.op] : call.words[f] = "-"
validate_git_url(call) == call.op = "clone" => call.words["url"] # "helper::"

-------------------------------------------------------------------------------
(* Environments: from each variable to whose value it has.                  *)

SENSITIVE_ENV_VARS ==
  {"KVENDRA_PASSWORD", "KVENDRA_MCP_PASSWORD", "KVENDRA_INIT_PASSWORD", "KVENDRA_NEW_PASSWORD",
   "KVENDRA_RECOVERY_MNEMONIC", "KVENDRA_INIT_CONFIRM_CODE", "KVENDRA_REBIND_RECOVERY_CODE"}

hardened_command == [v \in Inherited \ SENSITIVE_ENV_VARS |-> "server"]
WithVars(env, set) == [v \in DOMAIN env \cup DOMAIN set |-> IF v \in DOMAIN set THEN set[v] ELSE env[v]]
From(who, vs) == [v \in vs |-> who]

Regions == {"AWS_REGION", "AWS_DEFAULT_REGION"}
Keys    == {"AWS_ACCESS_KEY_ID", "AWS_SECRET_ACCESS_KEY"}

(* A secret of aws is a JSON object, or two or three parts joined by colons; *)
(* only the object may name a region, which then goes before the call's.     *)
parse_creds(secret) ==
  secret # Missing /\ secret.form \in {"json", "parts"} /\ {"id", "key"} \subseteq secret.has
RegionOf(secret, asked) ==
  IF secret.form = "json" /\ "region" \in secret.has THEN From("profile", Regions)
  ELSE IF asked THEN From("call", Regions) ELSE << >>
aws_command(secret, asked) ==
  WithVars(WithVars(WithVars(hardened_command, From("profile", Keys)),
                    IF "token" \in secret.has THEN From("profile", {"AWS_SESSION_TOKEN"}) ELSE << >>),
           RegionOf(secret, asked))

ChildEnv(call, secret) ==
  CASE call.op \in AwsOps -> aws_command(secret, call.region)
    [] call.op \in NpmOps -> WithVars(hardened_command,
                               IF secret # Missing THEN From("profile", {"NPM_TOKEN"}) ELSE << >>)
    [] call.op = "upload" -> WithVars(WithVars(hardened_command, From("primitive", {"TWINE_USERNAME"})),
                               IF secret # Missing THEN From("profile", {"TWINE_PASSWORD"}) ELSE << >>)
    [] OTHER -> hardened_command

-------------------------------------------------------------------------------
(* The registry of npm publish.                                             *)

registry_is_npmjs(r) == r = "npmjs"

(* Variant: only the default registry is pinned.                             *)
scope_pin_default(dir) == {}

(* The command line of publish and deprecate names the registry.             *)
publish_argv == {"default"}

(* The scope of the package, as it is when package.json is read.             *)
scope_pin(dir) == IF dir # NotJson /\ dir.scope # Missing THEN {dir.scope} ELSE {}

(* Where npm publishes what it finds when it starts: what the package itself *)
(* chooses, else what is pinned for its scope or at all, else .npmrc's.      *)
PublishesTo(dir, pins) ==
  IF dir.publishTo # Missing THEN dir.publishTo
  ELSE IF (IF dir.scope = Missing THEN "default" ELSE dir.scope) \in pins \/ dir.npmrc = Missing THEN "npmjs"
  ELSE dir.npmrc

-------------------------------------------------------------------------------
(* One call.                                                                *)

NoRecord == [status |-> "none", severity |-> "none", code |-> "none"]
NoReply == [result |-> FALSE, exit |-> "none", success |-> "none"]
NoChild == [at |-> "idle", call |-> Missing, secret |-> Missing, read |-> Missing, env |-> << >>,
            pins |-> {}, found |-> Missing, how |-> Missing]

RunsInit ==
  /\ vault \in Secrets /\ folder \in Directories
  /\ child = NoChild /\ record = NoRecord /\ reply = NoReply /\ runs = 0 /\ turns = 0

(* When the resolver finds the vault locked the call goes on without secret. *)
ResolveSecret(call) ==
  /\ child.at \in {"idle", "ended"} /\ runs < MaxRuns /\ runs' = runs + 1
  /\ child' = [NoChild EXCEPT !.at = "resolved", !.call = call, !.secret = vault]
  /\ record' = [NoRecord EXCEPT !.status = "started"] /\ reply' = NoReply
  /\ UNCHANGED <<vault, folder, turns>>

classify(err) ==
  CASE err = "InvalidArgs" -> "INVALID_ARGS"
    [] err = "AllowlistViolation" -> "ALLOWLIST_VIOLATION"
    [] err \in {"Json", "Vault"} -> "RUNTIME_ERROR"
    [] err = "PrimitiveFailed" -> "RUNTIME_ERROR" \* the operation's name is all it holds

Fails(err) ==
  /\ record' = [status |-> "error", code |-> classify(err),
                severity |-> IF err = "AllowlistViolation" THEN "warn" ELSE "error"]
  /\ reply' = NoReply

(* The first thing that is wrong with a call.                                *)
Wrong(call, secret) ==
  LET bytes == secret # Missing /\ secret.form = "bytes" IN
  IF call.op \in AwsOps /\ ~parse_creds(secret)
  THEN IF bytes THEN "Vault" ELSE IF secret # Missing /\ secret.form = "broken" THEN "Json" ELSE "InvalidArgs"
  ELSE IF Wanting(call) \/ reject_option_like(call) \/ ~validate_git_url(call) THEN "InvalidArgs"
  ELSE IF /\ call.op = "publish" /\ folder # NotJson /\ folder.publishTo # Missing
          /\ ~registry_is_npmjs(folder.publishTo) THEN "AllowlistViolation"
  ELSE IF call.op \in NpmOps \cup {"upload"} /\ bytes THEN "Vault" ELSE "none"

Refusing ==
  /\ child.at = "resolved" /\ Wrong(child.call, child.secret) # "none"
  /\ Fails(Wrong(child.call, child.secret)) /\ child' = [child EXCEPT !.at = "ended"]
  /\ UNCHANGED <<vault, folder, runs, turns>>

(* execute, to the point where the command is complete: package.json is read *)
(* here, and once more by npm itself.                                        *)
Prepare ==
  /\ child.at = "resolved" /\ Wrong(child.call, child.secret) = "none"
  /\ child' = [child EXCEPT !.at = "prepared", !.read = folder, !.env = ChildEnv(child.call, child.secret),
                            !.pins = IF child.call.op \in NpmOps
                                     THEN publish_argv \cup (IF child.call.op = "publish" THEN scope_pin(folder) ELSE {})
                                     ELSE {}]
  /\ UNCHANGED <<vault, folder, record, reply, runs, turns>>

Spawn ==
  /\ child.at = "prepared" /\ child' = [child EXCEPT !.at = "running", !.found = folder]
  /\ UNCHANGED <<vault, folder, record, reply, runs, turns>>

CannotStart ==
  /\ child.at = "prepared"
  /\ Fails("PrimitiveFailed") /\ child' = [child EXCEPT !.at = "ended"]
  /\ UNCHANGED <<vault, folder, runs, turns>>

(* How a child ends: with 0, with another code, or killed, which has no code *)
(* and is answered as 0. Only npm, twine and aws have a field for success.   *)
Exits(how) ==
  /\ child.at = "running" /\ child' = [child EXCEPT !.at = "ended", !.how = how]
  /\ child.call.op = "publish" /\ child.found = NotJson => how # "zero"
  /\ IF child.call.op \in GitOps /\ how # "zero" THEN Fails("PrimitiveFailed")
     ELSE /\ record' = [status |-> "ok", severity |-> "info", code |-> "none"]
          /\ reply' = [result |-> TRUE, exit |-> IF how = "killed" THEN "zero" ELSE how,
                       success |-> IF child.call.op \in GitOps \cup {"exec"} THEN "none"
                                   ELSE IF how = "zero" THEN "yes" ELSE "no"]
  /\ UNCHANGED <<vault, folder, runs, turns>>

(* The vault locks, or is unlocked with what it holds; the package changes.  *)
Turn ==
  /\ turns < MaxTurns /\ turns' = turns + 1
  /\ \/ vault' \in (Secrets \cup {Missing}) \ {vault} /\ UNCHANGED folder
     \/ folder' \in Directories \ {folder} /\ UNCHANGED vault
  /\ UNCHANGED <<child, record, reply, runs>>

RunsNext ==
  \/ \E call \in ToolCalls : ResolveSecret(call)
  \/ Refusing \/ Prepare \/ Spawn \/ CannotStart
  \/ \E how \in {"zero", "other", "killed"} : Exits(how)
  \/ Turn

(* invoke_primitive: an operation at GitHub, or the run of a tool; one may   *)
(* go on while another server of the vault is about the other.               *)
PrimitivesInit == GithubInit /\ RunsInit
PrimitivesNext ==
  \/ GithubNext /\ UNCHANGED rvars
  \/ RunsNext /\ UNCHANGED hvars
PrimitivesSpec == PrimitivesInit /\ [][PrimitivesNext]_<<hvars, rvars>>

-------------------------------------------------------------------------------
(* Properties.                                                               *)

CredentialsOf(op) ==
  IF op \in AwsOps THEN Keys \cup {"AWS_SESSION_TOKEN"}
  ELSE IF op \in NpmOps THEN {"NPM_TOKEN"} ELSE IF op = "upload" THEN {"TWINE_PASSWORD"} ELSE {}

(* spawn.rs N1, and the primitives: no password of the server's environment  *)
(* reaches a child; the credentials it finds are the profile's, of one       *)
(* resolution, and in no variable but the tool's own; the server's are left  *)
(* only where the call went on without a secret, and as a session token next *)
(* to the keys of a profile that has none.                                   *)
OneSource == child.at \in {"prepared", "running"} =>
  LET op == child.call.op  env == child.env IN
  /\ DOMAIN env \cap SENSITIVE_ENV_VARS = {}
  /\ \A v \in DOMAIN env : env[v] = "profile" => v \in CredentialsOf(op) \cup Regions
  /\ \A v \in DOMAIN env \cap CredentialsOf(op) : env[v] # "profile" =>
       \/ child.secret = Missing /\ op \notin AwsOps
       \/ v = "AWS_SESSION_TOKEN" /\ "token" \notin child.secret.has

(* npm.rs N6, "the target host is always npmjs.org": as long as package.json *)
(* is not changed between its two readings.                                  *)
PublishedAsPinned ==
  child.at = "running" /\ child.call.op = "publish" /\ child.found \notin {NotJson}
    /\ child.found = child.read
  => PublishesTo(child.found, child.pins) = "npmjs"

(* tools_call_inner: a row that says ok has an answer with a result and one  *)
(* that says error has none; success is answered for a child that exited     *)
(* with 0 and for no other; of a git command there is a result only then,    *)
(* and that of another tool is an error only if it never ran.                *)
EndsAsAnswered == child.at = "ended" =>
  /\ reply.result <=> record.status = "ok"
  /\ reply.success = "yes" => child.how = "zero"
  /\ child.how = "zero" => reply.result /\ reply.exit = "zero" /\ reply.success # "no"
  /\ reply.result /\ child.call.op \in GitOps => child.how = "zero"
  /\ ~reply.result => child.how = Missing \/ child.call.op \in GitOps

RunsAsTold == OneSource /\ PublishedAsPinned /\ EndsAsAnswered

(* What a primitive answers is what has happened: at GitHub (github.rs), and *)
(* in the child it has run, with the profile's credentials and towards the   *)
(* registry that was checked (git.rs, npm.rs, pypi.rs, aws.rs, shell.rs).    *)
PrimitivesAnswerTrue == AnswersTrue /\ RunsAsTold
===============================================================================
