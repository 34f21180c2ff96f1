# Formal models of kvendra-cli

Kvendra runs between an AI agent and the credentials of its user: the agent calls
primitives (`kvendra.git.push`, `kvendra.aws.s3_sync`, ...) over MCP, and one
server process per client, `kvendra mcp serve`, checks each call against what
the user has signed, fetches the secret, runs the primitive and writes an audit
row.  Servers, and the commands the user types meanwhile (`unlock`, `lock`,
`login`, `logout`, `secret set-allowlist`, `vars set`, `config ...`), share
nothing but the files under `~/.kvendra`.  What can go wrong is therefore the order in
which several processes read and write files, and what is left when one of them
stops half way.  Most of these modules are about that; AllowlistRules and AllowlistGate
are about the other half, what a signed allowlist permits.

Paths below are relative to the repository; `PROJECT.json` gives the lines behind every
definition (`map`), the hazards of the code at their lines, the runs, the
variants that show each property can fail, and the theorems.

## 1. Inventory

| Component | State it keeps | Operations | What is hard |
|---|---|---|---|
| Audit log (`src/audit/hmac.rs`, `reader.rs`, `layout_commit.rs`) | rows of `audit.db`, each with its layout, the previous row's tag and its own | verify; pin the digest of legacy rows | four row layouts with different coverage; a status update changes a row that others are chained to; an encoding that tells columns apart |
| Audit writer (`src/audit/writer.rs`) | one thread and one bounded channel per process, one SQLite write lock | record, update status, commit layout, shutdown | several processes, bounded lock retries, errors and crashes inside a transaction |
| Audit database (`src/audit/schema.rs`, `migrations.rs`) | tables, columns, a ledger of the migrations applied | open: create, adopt, migrate | every process opens it, deferred transactions that read before they write |
| Audit export (`src/audit/export/`, `cli/audit.rs`) | none; a bundle in a file | export, verify-export, list | offline verification knows only the rows that a window or a filter kept |
| Local session (`src/session/local.rs`, `cli/unlock.rs`, `cli/lock.rs`) | `active.blob`, `active.blob.hmac`, `active.blob.lock` | unlock, extend, lock, load | two files for one fact, readers without the lock, death between the files |
| Launch and MCP password (`src/cli/mcp.rs`, `cli/config_mcp_password.rs`, `keychain_acl/`) | a keychain item, a wrapper, the configuration of the MCP client | launch; enable, migrate, disable | a key from three sources; the client's file is read, changed and written in place beside the client |
| MCP broker (`src/mcp/server.rs`, `approval/`) | vault state and key, cached config, approval cache, use counters | boot, heal, the gates of `tools/call` | every gate reads a file that others change; the key expires while a question is open |
| Vault and profiles (`src/vault/`, `cli/secret.rs`) | sentinel; per profile a sealed secret, its metadata and its allowlist, three files | create, unlock, add, rotate, revoke, set-allowlist, get, quarantine | load-change-save without a lock, files written in place |
| Local variables (`src/vars/`, `cli/vars.rs`) | `vars.blob` and three older copies; a token bucket for each variable and server | set, unset, verify, resolve, mask | a value is read twice, to substitute and to mask; a path is judged, spelled and opened at three times; a human verifies a value shown earlier; a save rotates three copies before it renames |
| Workspace tokens (`src/session/store.rs`, `auth/refresh.rs`, `cli/login.rs`, `cli/logout.rs`) | `<workspace>.token`, its lock file, a copy in each server's memory | login, background refresh, logout | refresh tokens used once, a lock file that is unlinked under its holders, logout without the lock |
| Browser login (`src/auth/oidc.rs`, `auth/discovery.rs`) | a listener on a port, the state and proof key of one request | authorize, callback, exchange | logins at once share ports and a browser; pages come late, twice or never |
| Pro tokens (`src/auth/pro_refresh.rs`) | `pro.client_id`, `pro.refresh_token`, `pro.token`, `pro.id_token`, `pro.token.lock` | login, refresh before each backup or notifs call, logout | order of the writes, a death between any two, client id read outside the lock, logout without it |
| Grants (`src/grant/`, `cli/bypass.rs`, `cli/lock.rs`) | `<workspace>.bypass` and its lock file, key pair in two files | bypass, protect, verify-grant, revocation by lock | a file named after a base name, a lock file that is unlinked under its holders, two key files without a lock, a grant that should not outlive its session |
| Recovery codes, init, rebind (`src/vault/recovery.rs`, `cli/init.rs`, `cli/config_rebind.rs`, `cli/config_recovery_codes.rs`) | `recovery_codes.json`, `sentinel.blob`, and a temporary file of a fixed name for each of codes and configuration | init, consume, regenerate | validated early, written whole, late; side effects in an order that a death can cut anywhere |
| Configuration (`src/config.rs`, `cli/config_*.rs`) | signed `config.toml` | load, save, migrate, rebind | read before it can be verified |
| Reports (`session info`, `config approval get`, `secret show-allowlist`, `secret validate`, `vars status`) | none | read and judge what others wrote | judgements of their own beside the server's; several readings of files that change |
| Allowlist rules (`src/allowlist/`, `primitives/local_operand.rs`, `vars/position.rs`) | the signed allowlist of a profile | sign, validate, decide one call | the enforcer must read and resolve a call as the primitive does; remotes, manifests and links are looked up twice; the validator judges without a call |
| Detection (`src/detection/`) | none (pure) | scan, redact, analyse pattern sources | decoys that overlap a secret, a scan budget that runs out, merging of spans; bounds derived from the text of a pattern |
| Workspace synchronisation (`src/workspace/`) | cached templates, etags, sentinel | one pass, mark and clear stale | partial and crossed passes, withdrawn templates, age of the cache |
| Remote resolver (`src/secret_resolver/`) | none | resolve a secret at the workspace broker | failures, a dismissed member, a stale cache before it |
| Backup (`src/backup/`, `cli/backup.rs`) | staging directory, etag of the last push, the backups at the service | push, pull, restore, prune | pull changes a directory in two passes; other machines push too |
| Primitives (`src/primitives/`) | none of their own | one request or child process each; pages; read then write | which field of a call decides what is touched; what a child inherits; what the answer claims |
| Captured environment, TUI, framing, command line | none of their own | | left out: input and output |

**Interactions.** All of it goes through files, except that a server's calls to
its own writer thread go through a channel with a one-shot reply, that the refresh of a
token and the remote resolver are requests to other systems, and that primitives run children.  The flocks in use are one
for the local session, one for each workspace's tokens and one for each grant; profile metadata,
variables, templates, configuration and recovery codes have none.  The Pro session has one, which logout does not take.

What makes each part correct:

- *Audit:* the chain of the committed log verifies at every instant, whoever
  crashes; a caller is told the truth about its row; rows that a commitment
  pins never change; what was changed from outside never verifies again; whoever opens
  the database, the ledger says what the columns are; no two rows have one encoding; an
  export says offline what the log says.
- *Session:* the two files belong together whenever nobody is writing; no
  sequence of extensions outlives the longest lifetime; a session that lock
  removed stays removed.
- *Launch:* wherever a move of the password into the keychain stops, the client's file names a source that
  has the password, so that a server launched from it comes up.
- *Broker:* a call runs only under a verified configuration and a signed
  allowlist; a cached approval rests on a human grant for the same text; no
  plaintext is handed out beyond the limit; what was substituted is masked; a
  server heals whenever a usable session exists.
- *Reports:* what they say of configuration, secrets and session is what a server does with them.
- *Allowlist:* what an allowed primitive touches is what its constraints admit; transfers
  stay within the declared roots; a destructive call was accepted by the owner; a
  variable sits only where some value would be refused.
- *Primitives:* what an answer claims has happened; a child has the credentials of one source; a package goes
  to the registry it was pinned to.
- *Grants:* what verify-grant lets through was signed under a password for that very
  workspace and operation, and is within its time; what was revoked stays away; the two key files are one pair.
- *Tokens and logins:* the file never holds a token that has been spent; memory never falls
  back to an older session; every refresh ends; logout sticks; a login ends with the code of its own request or with none.
- *Pro tokens:* the four files are one session that can be renewed, wherever a command stops.
- *Workspace:* the cache is as new as the last whole pass, and secrets stay barred until one.
- *Profiles and detection:* no token survives in the sanitized text, and one that may block a call is always found;
  a pattern's bounds hold for all it matches; a call is admitted under the latest allowlist only; a quarantine stays.
- *Variables and backups:* a reference stands for its value, once, and a path for the place it spells; no value that was
  known goes out; what is marked verified was confirmed by a human on this machine; no command's effect
  is lost; the document a save replaced is kept; a restored variable is unverified; one machine's push does not
  replace another's unless forced.
- *Home:* a recovery code is consumed once; a vault never lacks its codes; settings follow a vault to
  another directory only by a code; settings are those the owner's commands left.

## 2. Modules

```
AuditChain <- AuditWriter                 <- MCAuditWriter
AuditLog   <- (refined by AuditWriter)
AuditWriter, AuditSchema, AuditEncoding   <- AuditService      AuditProofs
AuditService, MCAuditWriter               <- MCAuditService
LocalSession + ServeBoot + OwnerViews     <- MCLocalSession    LocalSessionProofs
Broker + WorkspaceServer                  <- MCBroker          BrokerProofs
ApprovalPolicy <- Broker, OwnerViews
UnlinkableLock <- WorkspaceTokens         (checked as it is)   ServerFilesProofs
UnlinkableLock <- Grants                  <- MCGrants          PolicyProofs
AllowlistRules <- AllowlistGate           <- MCAllowlistGate   PolicyProofs
GithubOps + ToolRuns                      <- MCAllowlistGate   PolicyProofs
Substitution                              <- MCAllowlistGate   PolicyProofs
AllowlistGate + GithubOps + Substitution + ToolRuns <- MCAllowlistGate
VarsStore <- Backup                       <- MCBackup          VarsProofs
Detection, Profiles, PatternShape + OutputFilter    <- MCScreening
OutputFilter                                                   VarsProofs
Detection, Profiles                                            ServerFilesProofs
Home                                      (checked as it is)   HomeProofs
ProTokens + OidcLogin                     <- MCProTokens       ProTokensProofs
```

`A + B` is a *sum*: components that share no variable are checked in one run.  The variable `part` of the
MC module says which of them a behaviour is about; the others keep their initial state.  It saves
runs and hides nothing, as a property about one component holds trivially in the behaviours of another and
each component keeps its own initial states, actions and bounds.  What `<-` joins, on the other hand, acts together.

**AuditChain** holds the rows and what the code computes over them: which fields
a layout's MAC binds, the link to the row before, the rule that layouts do not go
back, the digest that pins legacy rows, and `Verifies`, the verdict of
`verify_chain`.  A MAC is a record of what it binds, so that two rows have one
tag exactly when they agree on the bound fields (HMAC-SHA256 is taken as
collision free).

**AuditWriter** is the writer threads of the processes in `Proc`.  `queue[p]` is the
channel, `lock` the write lock of SQLite, `work` the rows as the transaction in
progress sees them, `db` the committed rows.  Every statement inside a
transaction is a step: `InsertRow` and `TagRow` of `record`, `ResignTarget` and one
`RechainSuccessor` for each later row of an update, `PinLayout` of a commitment.
`BeginImmediate`, `RetryBusy` and `GiveUpBusy` are the three tries at the lock;
`SqlError` fails any statement, `Crash` and `Restart` may come at any point,
`StopThread` drops the commands still queued.  **AuditLog** is what the writers
promise, an append-only list whose entries are finished at most once;
`ImplementsAuditLog` maps the committed rows onto it.

**AuditEncoding** is the bytes a tag authenticates, which AuditChain takes for the columns themselves: `legacy_mac` with its
delimiters, `injective_mac` with its lengths, the domain of rows whose text holds a delimiter
(`legacy_or_noncanonical`), and the rows that no layout may sign any more (`Refused`).  **AuditSchema** is the opening of the
database by several processes: `CreateTables`, `ReadLedger`, the adoption of a database without a ledger
(`BaselineCurrent`, `Baseline`, `Detect`), and each migration as a deferred transaction (`BeginUpgrade`, `LockUpgrade`, `CommitUpgrade`), which
SQLite refuses at its first write when somebody committed since it read (`AuditMigrationAborted`).  `OpenFails` is a death or an error.
AuditChain also has `build_bundle` over the rows a window or filter kept and `verify_bundle` over the bundle alone; MCAuditWriter
judges them on every log that the writers, crashes and a damage of the storage can leave.
**AuditService** lets the processes open the database first (`Serve`, `Reopen`) and then runs AuditWriter on it.

**LocalSession** is the session's files step by step: `load` finds the blob, reads
it, reads the sidecar (without the lock); writers take the flock, refuse
to overwrite another machine's file, rename the blob and then the sidecar; lock removes
them in that order.  `Fail` is an error or a death at any step and leaves the half
that was done; `resolve_ttl` is the lifetimes a user may get; `Rename` changes the hostname that keys the MAC; `Tick` is the clock.

**ServeBoot** is a launch of the server by its client and the commands `enable`, `migrate` and `disable` of the MCP password.
`Launch`, `TrySession`, `TakePassword` and `Open` are the server's three sources of a key; `DeleteItem` and `AddItem` store in the
keychain, `BackupClient`, `TruncateClient` and `WriteClient` rewrite the client's file, which the client itself saves meanwhile (`ClientSaves`).
`excuses` collects what else a server that does not come up may blame.  **OwnerViews** is the five commands that only report, each with
its readings in the order of the code and its own judgement, beside the judgements of the server (`Serves`, `ServedMode`,
`Resolves`); `SessionTurns`, `ConfigTurns`, `EditText`, `TokensTurn` and the like change the files between two readings.

**ApprovalPolicy** has the lattice of approval modes (`ask`, `ask-destructive`,
`silent`) and the environment override that may tighten and never loosen.
**Broker** is one server and one request at a time, which is how `serve_with_vault`
works.  The path of a call is a sequence of steps, one for each reading of something
shared: `Receive` (heal), `Screen` (arguments, snapshot of the known values),
`Prepare` (substitution), `Inspect` (detection), `Quarantine`, `CheckAllowlist`, `Judge`
(approval mode), `Lookup` (cache), `Ask`, `CheckQuota`, `Resolve`, `RecordStarted`, `Consume`, `Run`,
`Respond` (mask).  Between any two of them another command may unlock, lock, change the
configuration, set the variable, edit the allowlist by hand or run
`set-allowlist` (three steps: write the file, read the metadata, save it), the key may expire and the
clock may move.  An allowlist is a text with the fields the gates read; its HMAC is the
text it was computed from.

**WorkspaceServer** is a server in workspace mode, a terminal, and the broker of the workspaces.  A pass over the templates is
`StartPass`, `Listed`, one `Checked` and one `WriteTemplate`, `RejectTemplate` or `SkipTemplate` for each template, and
`WriteEtag`; `FinishPass` clears the sentinel.  `SyncTick` starts the server's passes, `SignIn`, `RefreshAllowlists` and `AddSecret` the
terminal's.  A call tests the sentinel (`BeginCall`, `AllowlistCacheStale`), then asks for the secret (`ResolveSecret`, `GetSecret`,
`IssueToken`).  `Publish`, `Dismiss` and `Expire` are the broker's.

**UnlinkableLock** is a flock on a file that may be unlinked: the name is bound
to an inode or to none, each process holds the inode it opened, the lock is on the inode.
**WorkspaceTokens** puts the refresh of every server, login and logout on it.
`BeginRefresh` reads the clock once; `TakeLockFile` and `WaitForLock` open and lock;
`TakePeers` is the re-read that adopts a peer's session; `AskProvider`
presents the token that is in memory, `Accept` and `Reject` are the provider's
answers, `Persist` and `Adopt` store it, `DeleteFile` and `DeleteLock` are the deletion on
`invalid_grant`.  `Fail`, `Stop` and `Interrupt` end a server's refresh or a
command at any step; `Revoke` is the provider's.  Refresh tokens are numbered in the order of issue; the provider
either replaces the token at each exchange or never does, and the model starts with either.

**Grants** puts bypass, protect, lock and verify-grant on the same lock.  `LoadKey`, `Generate`, `WriteKey`
and `WritePub` are the key pair of a bypass, two files that no lock protects; `Sign` and `Place` make the grant
and rename it into place; `ListGrants`, `FindGrant`, `RemoveGrant` and `UnlinkProtect` or `UnlinkLock` revoke it, after which
lock ends the session (`EndSession`), also when revoking failed (`LockGoesOn`).  A verdict reads the clock, then the grant (`ReadGrant`),
then the session (`ReadSession`).  The roots in `Root` have one base name, hence one file.  Key pairs and grants are
numbered, a signature is the payload it was computed over; `EditGrant` is an edit by hand.  `Fail` ends a
command at any step and may leave a key file truncated.  The ghost variables `crowd` and `disturbed` say whether bypasses overlapped or one
died half way, `before` which grant a revocation found.

**AllowlistRules** has two independent readings of a call.  `Seen` is what the enforcer
(`check_args`) reads for each kind of constraint; `Touched` and `TouchedPaths` are what the primitives
(`git.rs`, `github.rs`, `aws.rs`, ...) then use, translated from their code and not from the
enforcer's.  Both look up remotes (`Remote`), package names (`Manifest`) and the ends of
paths (`canon`) in a *world*.  The order of the enforcer's gates only decides which
refusal is worded, so that its verdict is a conjunction: `Forbidden`, `LocalAllowed`, every
value seen is admitted, and the constraints of `MustBeSeen` have something to look at.  `validate`,
`check_local_roots` and `validate_for_signing` are the validator's, `could_be_destructive` and
`is_destructive` the catalogue's, `PositionsAllowed` that of `vars/position.rs`.  A pattern is the
set of the values it matches, `repos` and `repo` are one list, and the textual rules about patterns (an `@`
before the first slash, a relative root, a root with `..`) are properties of the data.
**AllowlistGate** is one profile over time: `SetAllowlist` signs, `Authorize` decides a call, `Abandon` or
`Run` follows it, and `ChangeWorld` and `DayPasses` come between any of them.  A job keeps the world it was
decided in and the one it ran in.  A call has what its sites name (`HasSite`), since a site is where a reference was found.

**GithubOps** is what `kvendra.github` does for an admitted call: `Invoke` refuses or begins, `Send` is the single request of most operations,
`GetPage` a page of `list_issues`, `GetTopics` and `PutTopics` the two of `add_topics`; others close and open issues and change
topics between any two (`OthersClose`, `OthersOpen`, `OthersTopics`), and an answer may be lost or unreadable.
**Substitution** is the arguments of a call before that: `find_all` over a text, `validate_value` by type, `final_path_is_canonical` in a
directory tree with links, a token from the variable's bucket (`try_take`), and `substitute` itself, while the owner sets variables
(`Set`), links turn (`Relink`) and time passes (`Pass`).  **ToolRuns** is the child processes of the git, npm, PyPI, AWS and shell
primitives: `ResolveSecret`, `Prepare` (validation, and the pin of a scope or registry), `Spawn` with an environment that says for each variable
where it comes from, `Exits`, and what `classify` and the row make of it; `Turn` locks the vault or changes
`package.json` in between.  WithinPolicy is about which calls may run, these three about what running them does.

**VarsStore** is `vars.blob` under `set`, `unset` and `verify`.  A command loads the whole document (`Set`,
`UnsetVar`, `MarkVerified`), rotates the copies one rename at a time (`RotateSecond`, `RotateFirst`, `CopyFirst`) and
renames the new document into place (`Place`); `verify` shows one reading (`Verify`, `Confirm`) and marks another.
`VarsFail` ends a command at any step and may leave the newest copy torn.  **Backup** adds push (`Push` reads the
home, `ReadEtag` its parent, `Upload` and `StoreEtag`), pull and restore (`Extract`, then `LoadRestored` and `Reseal`), prune, the pushes
of other machines and the user who moves a finished restore into place (`Install`).  `ledger` is the
document if every command were a single step.

**Detection** is the scan for secrets of one text.  `Select` and `SelectClosed` are a turn of the loop of `select` before and
after the budget runs out, `SortSpans`, `MergeSpan` and `SpliceSpan` the sort, merge and splice of
`sanitize_output`, whose output is the positions kept and a marker for each span; the sorted spans are a set of
which `First` is the next.  The table of patterns is
abstracted to three, one for each way the loop treats a provider.  **Profiles** is the three files of a profile, each written in two
steps because `std::fs::write` truncates first, under the owner's `Add`, `Rotate`, `SetAllowlist` and
`RevokeProfile` and under the servers that read the text, verify it, fetch the secret, hand it out
(`HandOut`, the escape hatch) or quarantine the profile.  MCScreening puts the two together: a text judged *block* lets the servers quarantine the
profile while everything else goes on.

**PatternShape** is the analyser that derives from the source of a pattern the longest match and the characters that may
occur: a recursive descent (`Alt`, `SeqFrom`, `Atom`, `Quantified`) whose result is compared with the language of the pattern, built beside
it from the same pieces (`Patterns`), when MCScreening starts (`ShapesAssumption`).  **OutputFilter** is what becomes of the answer: `from_doc` chooses and orders the values to
mask, `scrub_str` and `scrub_value` replace them, `build_sanitized_payload` also takes credentials out, `scrub_audit_message` and
`truncate` make the message of the row, `List` prints the rows; `IdleLock` and `FirstVars` change what is known within a call.

**Home** is the sentinel, the codes and the configuration of each home directory.  A command has a list of side
effects, done in their order (`InitEffects`, `RebindEffects`, `RegenerateEffects`); a file that goes through a temporary
one of fixed name is truncated, written and renamed by three steps, and what is renamed is whatever the
temporary file then holds.  `RebindHome`, `ReadCodes` and `LoadForRebind` are the barriers of `config rebind-home`;
`ChangeSetting` stands for each config command that changes one setting.  `Copy`, `EditConfig` and
`MoveAside` are the owner's.  A configuration remembers the home where its settings began (`line`, not in
the file).

**ProTokens** is the Pro session.  `BeginRefresh` decides that tokens are due and looks up the client without the lock, `Lock`, `Skip` and `Reread`
take the flock and look again, `Exchange`, `ExchangeFails` and `Rejected` are the provider's answers, and one step for each file
writes the new tokens in the order of `RenewedFiles` or of `LoginFiles`.  `Logout` and `RemoveRefresh` delete two files without
the lock.  `lost` and `half` say which tokens were lost with an answer, and whether a login died half way.

**OidcLogin** is the browser part of a login: `Discover`, `Request` on the first free port, `Receive` of whatever reaches that
port first (a page of this login, of an earlier one, or a stray request), `CheckState`, `ExchangeCode`.  `Authenticated` and `Denied` are
the provider's, `PageClosed` the user's, and pages are delivered once or again, to whoever has the port then.

The ghost variable `crowd` of VarsStore, Profiles and Home says whether two commands had one file in
hand at once (between reading it and writing it back).  Nothing in the code excludes that, so what such commands
lose is lost; the properties of these modules say that this is the only way to lose it.

## 3. Runs

| Run | Question | Bounds |
|---|---|---|
| `audit_service` | Does everybody who opens the database find it sound? From then on, does the chain verify at every instant, are callers told the truth, are pinned rows frozen, is it an append-only log? Are rows told apart by their tags? | 2 processes, databases of every earlier schema, one with a version's columns added by hand and two where that was done by half; 2 events, a log inherited with no row or with one legacy row of layout 1 or 3; 2 tries at the lock, channel of 2; words of at most 2 bytes; processes and events symmetric |
| `audit_damage` | Can the key holder launder a row changed from outside, and is every call answered even then? Do exports say what the log says? | 2 processes, 1 event, the same inherited logs, one storage fault, 2 tries, channel of 1; an export keeps any subset of the rows; no symmetry, because of the liveness property |
| `session` | Do the files agree, is lifetime bounded, does every command end? Does a launched server come up? Do reports say what a server does? | 2 commands, 2 machine names, 2 sessions written, a lifetime left out or of 0, 1 or 2 with least, default and most 1, clock 0..1. *Launch:* 2 passwords, 2 commands, 1 launch, 1 save by the client. *Reports:* 2 workspaces, 1 change within a report |
| `broker` | Is a call admitted only as signed and configured, does the cache stand for a grant, do quotas hold, is what was substituted masked, is a healed vault whole? Is a workspace barred until a whole pass? | 1 profile in use, 1 other name, 2 operations, 3 allowlists, 3 configurations (one unsigned), 5 kinds of call, 1 change from outside, 2 values of the variable, clock 0..1. *Workspace:* 2 workspaces, 1 server, 1 terminal, 2 templates of which 1 is unusable, 2 passes, 1 renewal, 1 call, 1 change at the broker |
| `workspace_tokens` | No spent token on disk, no older session in memory, every refresh ends | 2 servers, 3 lock files, 3 refresh tokens, JWT life 2, lead 1, clock 0..2 |
| `tokens_logout` | Does logout stick? *(violated)* | as `workspace_tokens` |
| `grants` | Does a verdict rest on what was signed, does what was revoked stay away, do the key files agree? | 2 commands, 2 lock files, 2 workspaces of one base name, 1 operation, 2 grants signed (a third bypass may begin when two have died before they signed), 1 verdict at a time, clock 0..1; commands and workspaces symmetric |
| `policy` | Does an allowed primitive stay within its allowlist? Do the primitives answer the truth and run their tools as told? Do references mean what they say? | 14 allowlists, 5 worlds, about 100 calls, 2 signatures or changes of the world, 2 days. *GitHub:* a page of 2, a default of 2 pages and a cap of 3, 7 issues, 2^32 as 8. *References:* 3 directory trees, 2 variables, a bucket of 2 that gains a token every 2 ticks, clock 0..3, 1 change, 2 calls. *Tools:* 1 call of each tool, plain or with one field odd, 6 secrets, 7 directories, 1 change |
| `vars` | Is what is verified confirmed, what a command did kept, the replaced document kept, what is restored unverified, another machine's backup left alone? | 2 commands at once, 3 in all, 2 variables, 2 values, 2 backups, an empty home or one with a confirmed variable |
| `screening` | Does anything secret survive the scan, is anything else replaced, do a pattern's bounds hold, is a call admitted only under the latest allowlist, does a quarantine stay, does a known value go out? | every text of 6 letters out of 6, budgets 5, 8 and 100; 2 terminals, 2 servers, 2 allowlists, 3 commands, 2 calls. *Patterns:* words of at most 3 characters out of 6 classes, at most 8 characters in place of 256. *Answers:* 5 documents, texts of 2 and 4 characters, values of at least 2 in place of 4, messages of 3 in place of 512 |
| `home` | Is a code consumed once, does a vault have its codes, are settings carried only by a code, and kept? | 2 homes, 2 terminals, 1 code to a set, 1 setting, 3 commands of which 1 may begin while another is at work, 1 copy, 1 edit or removal by hand |
| `pro` | Are the four Pro files one session that can be renewed? Does a login end with its own code or none? | 3 terminals, 2 clients, 3 refresh tokens, 2 ticks, 1 logout. *Browser:* 2 logins, 2 ports, 2 requests, 2 codes |

Why these bounds reach the interesting cases:

- *Audit.*  Two processes are enough for a lost update or a fork of the chain, which takes two
  writers of one tip; two events make an update rewrite a successor; the inherited row makes a
  commitment possible.  Layouts 1 and 3 are the extremes in what a MAC binds.
  Migrations read, then write: two openers are the one that reads and the one that commits in between.  A byte that may be the
  delimiter, a length or anything else is enough for two encodings to coincide, if they could.
- *Session.*  A mixed pair takes two writers and a reader or a writer that dies; the
  clock reaches the end of the longest lifetime, and 0 and 2 are lifetimes refused as too short and too long; the second session written is the one an extension makes.
  A launch with one command before it and one beside it, or two before it, reaches each state the commands leave; what no command of a
  behaviour reads is as in a fresh home.  In the reports one change between two readings is what a disagreement takes.
- *Broker.*  Two texts of one profile that differ in mode and mark decide every gate
  differently, the third is for another profile; one change from outside (`MaxEdits`) is enough for every stale
  reading, because a call reads each file a fixed number of times.  `set-allowlist`
  counts as one change although it writes twice.  `Remote = {TRUE}`: a remote resolver may answer or fail
  at will, which includes everything the local one does.  The initial files are
  those that earlier commands or hand edits leave: an allowlist with its HMAC, with another
  text's, or with none, a signed or unsigned configuration, with or without a session.
  Two passes are one that fails or dies and one beside or after it; one unusable template is refused while the other is written.
  The sentinel is up at the start, as nothing in the program raises it.
- *Tokens.*  The third lock file is the one a newcomer creates while one process holds an
  unlinked file and another waits for it.  Three tokens are a login and two
  exchanges, or two logins and an exchange.  The clock passes the instant of renewal, with `Lead < Ttl`.
- *Grants.*  Two commands are the two that meet: two bypasses over the key files, a bypass or a second revocation under
  an unlinked lock (each has at most one lock file open, so that two files are enough).  Two bypasses give two grants and up to three key pairs: a rotation, an
  overlap, a replaced grant.  A longest life of 1 and a clock of 0..1 let a grant expire between being asked about and being read.

- *Policy.*  An allowlist for each kind of primitive and for each combination of flags the validator
  distinguishes; for each, calls inside and outside, with the decoys (`repo` beside `remote`, `url` beside
  `repo`) and the omissions (no `cwd`, no `dst`).  Two changes are a signature and one change of the world, before or
  after the decision; each world differs from the plain one in one lookup.  Every
  operation named in the allowlists runs in the state graph.  A page of two is full or not, four
  pages exceed the cap of three and the default of two, and seven issues leave the last one short.  In the three trees a link leads to a
  directory, or nowhere, or takes the place of a directory.  A bucket of two is emptied within one text, and refills within the clock.

- *Variables and backups.*  A lost update takes two commands; three in all are a save, an overlap and what
  follows, or a push, a pull and a verify.  Two variables tell a command's own from the others', two values what was shown from
  what is there.  Two backups are an own and a foreign one, in either order.
- *Screening.*  Six letters hold a key of three and one that overlaps or touches it, a segmented token, a
  key block with or without its end, and a decoy before each; the budgets run out at once, in the middle, and never.  Texts are all
  of the length, not chosen.  Three commands are an `add`, a `set-allowlist` and a third against them; two calls are one
  that is blocked and one that is admitted.
- *Home.*  Two homes for moving a vault; three commands are an init or a rebind that dies, one that overlaps it and
  one that tries again.  One code suffices for spending twice.
- *Pro.*  Two logins are one that is given up and one that gets its port, hence its late pages.  Three terminals are a refresh that waits, one that has passed the lock, and a login or logout; three
  tokens a login, its renewal and a second login; two ticks take a token from fresh to expired.

`CHECK_DEADLOCK FALSE` is set where the bounds end the behaviours: when every event has been
recorded and no command is left (audit), when the allowed sessions are written (session), when the changes and days are used up (policy), and when the commands are (vars, screening, home, pro).

**Fairness.**  Weak for the audit writer's thread (it runs as long as
its process does; a refused lock is counted and given up).  Strong for the commands of
LocalSession and for a server's refresh: they block in `flock`, which the
kernel grants to waiters in turn, and their requests have a time limit (10 seconds, 5 to
connect).  Nothing is assumed of the user, of the provider's mood, of the clock, of failures
or of when a server begins a refresh.

**Variants.**  Each property has a variant of one definition that a plausible
bug would produce (a lock taken without waiting, a successor left unsigned, a
counter compared with `<=`, an old refresh token stored again); they stand in the
modules before the definition they vary, marked *variant*, and break the property
under the run's own configuration.

## 4. What the runs found

- `tokens_logout`: a server that is up when the user logs out takes the missing
  file for an expiring one, renews the session from memory and writes the file again.

Three more behaviours that the models reach and that a property allows for:

- `MaskedUnlessChanged`: the values to mask are read before the call, those to substitute later, so that a `vars set` in between sends a
  value to the client unmasked, against the comment at `src/mcp/server.rs:660-665` ("each known value of
  `vars.blob` is re-symbolized").
- `TokenOnDiskUsable`, `SessionOnlyRenewed`: `SessionState::delete` unlinks the lock file, on logout without holding it, so that two servers may be at the
  provider at once, against `src/auth/refresh.rs:57-58` ("guarantees only one process talks to the IdP").
  These two properties hold all the same.
- `OptedInUnlessOpen`: the validator evaluates the destructive predicate of `kvendra.http` on the declared methods, so that a request
  with `accept_broad_scope` and no `methods` is signed without `accept_destructive` and then allows `POST`, against
  `src/primitives/mod.rs:156` and `docs/manual-kvendra-cli/07-allowlist-dsl.md:62`.  The property says that this is the only such gap.

What `policy` leaves out under `Unseen`, because the code does: `cwd_pattern` is skipped
when `cwd` is absent, and the primitive then runs in the broker's own directory
(`docs/manual-kvendra-cli/15-allowlist-enforcer.md:105` says that an absent one is refused); for a `pull`
the enforcer asks git for the push URL of a remote, and git uses the fetch URL; elements
of `argv` that are not strings are dropped for the check and run as empty strings.

Seen while reading, without a run: the HMAC of an allowlist is checked on one reading, and the mode of
approval, the cache key and the limit of uses come from later readings that are not checked, although `approval/policy.rs:3-4` calls
the allowlist there HMAC-signed; a grant may outlive its session, against `cli/lock.rs:28` and `cli/bypass.rs:21`: bypass does
not ask for a session, lock swallows the error of a revocation and a bypass that it overlaps places its grant afterwards,
and the verdict asks only whether *some* session is active; `extend_ttl` reads the session outside the flock and persists it
later, so that an extension that overlaps with `kvendra lock` brings the session back, although
its comment says it fails if no active session exists; `resolve_ttl` measures only `--ttl` against the configured maximum, the configured
default against nothing, and `validate_max_ttl` has no caller outside tests, although `CHANGELOG.md:1054` speaks of a ceiling of 7 days; `set-allowlist` saves the metadata it loaded, and with it the
absence of a quarantine set in between; an `expiration` that cannot be parsed never expires; `load` of the local session may meet
a writer between its two renames and report tampering for one read; `WorkspaceSessionExpired` is answered by the refresh
only, although `docs/workspace-mode.md` announces it for the next `tools/call`; a
server with an outdated session in memory deletes a peer's usable session on `invalid_grant`.

*Variables and backups.*  `verify` shows one reading and marks the next, so that a value set in between is
marked unseen (`late`).  `push --force` sends no parent at all, which the service may or may not take; pull does not
store the etag of what it has fetched, so that the next push is refused; the bundle is built before the etag is read, and does not hold `profiles/`.

*References.*  `Path::components` drops a `.` inside a path, so that a final path may hold `/./` or `//`, although the comment says
that it has no `.` component; a dangling link counts as not there, and its parent decides.  The audit flag holds the whole
resolved field with the caller's own commas, although `src/mcp/server.rs:763-764` says that the column stays unambiguous.  Tokens taken
before a later reference fails stay spent, so that a text with more than ten references to one variable never resolves.

*Answers.*  When the idle lock falls within a call its answer is masked by the snapshot, but the row's message is not masked at
all, against `src/mcp/server.rs:1573-1580`.  Names of fields are not scrubbed of credentials in `structuredContent`, though they are in the
text.  A raw token that contains a local value is altered, against `src/mcp/server.rs:1498-1502`.  Where two values
overlap, the tail of the later one may remain.  `from_error` truncates a message before local values are masked in it.

*Profiles.*  `add` writes the new secret before the new metadata: a call in between, or a death, leaves the new secret under
the old allowlist.  A quarantine that overlaps with `revoke` brings the metadata back; one that overlaps with
`set-allowlist` undoes it, or is undone.  Only `kvendra.unsafe_raw_token` looks at the quarantine.
`rotate` after `revoke` leaves a secret without metadata, `set-allowlist` before `add` an allowlist without.

*Codes and homes.*  A code is consumed in the file of the home it is typed at: in a copy of the vault it is still
unused, against `docs/manual-kvendra-cli/10-recuperacion.md:97` ("Single-use enforced") as far as a reader takes a
vault and its copy for one.  `cli/config_rebind.rs:159-160` says that `regenerate` is not available, and it is.
`regenerate` shows the codes only after its audit row: a failure there leaves a home with codes nobody has
seen (`blind`).  The temporary files have fixed names, so that one command may rename what another has just truncated.
Moving `config.toml` aside lets a command sign the defaults anew at another home, without a code.

*Launch.*  `enable` and `migrate` never compare the typed password with the vault.  The backup of the client's file keeps the
plaintext password, and what the client saves between the migration's reading and its writing is lost.  An old keychain
item is removed before the new one is added.  `cli/config_cmd.rs:4-6` says that the derived key goes to the keychain at unlock;
`cli/unlock.rs:191` writes a constant there.

*Pro tokens and logins.*  `logout` removes `pro.refresh_token` without the lock, so that a refresh under way writes it back, against
`cli/logout.rs:47` ("no credential able to mint new Pro tokens").  The client is read before the lock: a terminal that waits while another logs in with
another client presents the new token with the old client, and on `invalid_grant` removes it, against
`auth/pro_refresh.rs:8` ("refresh uses the same").  A login that dies between its first two files leaves a pair that no provider accepts (`half`).
Any request that reaches the port first ends a login, against `auth/oidc.rs:156` ("exactly one GET /callback"), and the browser is told of
success before the state is compared.

*Workspaces.*  `mark_stale_blocked` has no caller outside tests, although `workspace/allowlist_sync.rs:5-7` says that 24 hours without a
pass block a workspace.  Templates withdrawn at the broker stay in the cache.  An expired JWT is answered by
`WorkspaceMembershipRevoked`, never by the `WorkspaceSessionExpired` of `src/mcp/server.rs:256-258`.  The background pass
keeps the JWT it started with.

*Reports.*  `session info` panics when a logout removes a token between its listing and its reading
(`cli/session_info.rs:143-157`); with several workspaces and none chosen it shows the first, where the server refuses to start
(`src/mcp/server.rs:443-446`); it calls a session active that belongs to another vault.  `secret validate` says *valid* without
looking at the HMAC, and refuses an `audit_level` that `set-allowlist` signs and the server serves.  A server boots with the defaults where `config
approval get` refuses a tampered configuration.

*Primitives.*  `add_topics` replaces all topics when it could not read them, against `primitives/github.rs:404-407` ("append"), and
loses what others add between its two requests.  An issue closed while `list_issues` pages makes it skip another, with
`truncated` false; `max_pages` of 2^32 is cast to 0 and answers an empty success.  Bodies of `update_issue` and releases are not
sanitised, those of `create_issue` are.  A child killed by a signal counts as exit 0 for the shell.  An AWS child keeps an inherited
`AWS_SESSION_TOKEN` when the profile has none.  When the vault locks between approval and resolution, npm and twine run without the
profile's token and find the server's own.  A rejected push is always recorded as `RUNTIME_ERROR`, against `audit/error_code.rs:107-111`.

*Audit.*  A database without a ledger to which some columns were added by hand is entered as complete
(`audit/migrations.rs:97-99`).  The backup before a migration copies the main file of a WAL database only.  Exports made with
`--filter` (`docs/manual-kvendra-cli/08-audit-log.md:146`) or a window whose rows do not follow one another fail `verify-export`.
A `--to` without a time means midnight at its start, an unreadable `--from` thirty days.

`auto_migrate_config_if_needed` has no caller, and nothing reads the template cache but the pass that writes it.

## 5. Theorems

TLAPS checks them for every value of the constants that satisfies the named
assumptions; nothing else is assumed.

- `AuditProofs`, about AuditWriter: `TypeCorrect` and `ChainAlwaysVerifies`, `Spec => [](~faulted => Verifies(db))`, for any
  number of processes, events, retries and rows.  `ChainVerifies` speaks of committed rows only and
  is not inductive: the invariant also says, while no statement failed unnoticed, what the lock
  holder's uncommitted `work` looks like at each statement: it verifies at insert, check, survey and
  commit; at tag everything but the last row's tag is in order (`Unsigned`); at rechain everything
  but the link of the row after `cursor` is (`Rechaining`).  Commit then finds `work` verified, and
  rollback leaves `db` alone.  `PinnedFrozen` and `DamageStays` are about steps: only a commit changes `db`, either by
  appending a row (`Extends`) or by rewriting one entry and the tags after it (`Rewrites`), never a legacy row once one is pinned; and if the
  rewritten log verifies, so did the log before it.
  `CallersToldTrue`: what a caller was told is also due to the commands still in the channel and to what
  the lock holder is about to commit, so that the invariant (`TxnView`, `LayoutsInOrder`, `CallsInv`) speaks of all three.
  `ImplementsLog`: every step of the writers is, through `LogView`, a step of AuditLog or none, for storage that returns what was
  written (`~StorageFaults`; `NoFault` is then an invariant).
  About AuditSchema: `SchemaStaysSound`.  That conflicts alone do not leave the schema unfinished is not inductive, as it does not say who
  finishes it: `SchemaInv` says that unless an accident happened there is a `Carrier`, a process still on its way whose transaction, if it
  has begun one, has seen the schema as it is.  Who aborts by conflict was not the carrier, or a committing process is.
  Assumed: somebody opens the database (`SomebodyOpens`), and a ledger found holds the versions up to some version, as
  `apply_pending` has only ever written it (`DatabasesFound`).
  About AuditEncoding: `EncodingLosesNothing` and, for finitely many texts as the run counts them, `RowsAlwaysToldApart`.  An encoding is read
  from the left: a length says where a text ends (`PutStrSplits`), a mark whether there is one (`PutOptSplits`), and where no column but the last has a
  bar, the next bar does (`BarredSplits`); a legacy layout is told by how many bars follow (`BehindSplits`), and a legacy encoding from one with lengths by its
  second byte (`LegacyIsNotInjective`).  Assumed: numbers, texts and codes are made of natural numbers (`EncodingConstants`), so that NULL is none of them.
  `ExportsAlwaysAgree`, about the exports of AuditChain: `Kept` is computed row by row, and by induction over the rows its events are those selected, each once,
  in the order of their ids (`KeptLists`).  Links name the id before, so that a selection of a sound log that passes is `Steady`, and a steady one
  passes, commitments included, as only a bundle that begins with row 1 has the empty root.  The whole log needs that even a damaged
  row 1 begins the chain (`FirstRow`).  Hypothesis of the theorem: the empty column is no tag (`EmptyIsNoTag`), as 64 hexadecimal digits are not.
- `LocalSessionProofs`: `SessionTypeCorrect` and `SessionFilesAgree`.  The
  invariant ties the steps to the flock (whoever is between the two files holds
  it, so that at most one command is), and says that at `place-sidecar` the blob on disk is the writer's own.
  `NoSessionOutlivesTtl` needs the bound also for what a command has built and not yet written (`TtlInv`); the longest
  lifetime is the configured default where that is above the configured maximum (`LongestTtl`).
  `ServerAlwaysComesUp`, about ServeBoot, for every set of passwords: unless an excuse is on record, the password in the keychain and those
  a command holds are the vault's (`PasswordsTrue`), a client's file that names the keychain finds an item there (`KeychainHolds`), and
  while `migrate` is between its removal of the item and its addition no file names the keychain yet, as
  only a configuration that names another source is migrated (`ToolSound`); hence each source a launch tries has what it names (`ServerSound`).
  `ReportsAreTrue`, about OwnerViews, for every finite set of workspaces: what a report has read so far is what the files hold as long as
  nobody changed them (`ReadInfo`, `ReadApproval`, `ReadShown`), every text with an HMAC of its own was signed (`Made`), and what the report concludes at each
  step is what the server concludes from the same readings.
- `BrokerProofs`.  `BrokerTyped` is the type invariant the others rest on.  `QuotaKept`: a raw request that is about to run has been counted and not
  handed out yet (`QuotaInv`).  `CachedIsGranted`: an entry of the cache is the instant of a grant plus the lifetime (`CacheInv`).
  `OnlySignedAdmitted`: every HMAC there is, on disk, in the hand of `set-allowlist` or in the copy a quarantine
  writes back, is one that `set-allowlist` made for that profile (`Signatures`).  `FilterHolds`: until `vars.blob` is changed the snapshot covers
  what was substituted (`SnapshotCovers`).  `HealsWhole`: unlocking and admission go with a writer (`Healed`).
  `BarHolds` is about WorkspaceServer with any number of syncing processes: unless passes crossed, the cache is at least the
  last whole pass and nobody ahead of it, since a pass at work was alone (`CopyInv`), and the sentinel goes away only with a whole pass (`BarInv`).
  `RatchetKeepsPrompts` is a fact about the lattice of ApprovalPolicy: an override from the environment never removes a question the configuration
  would ask, as long as the downgrade is not opted into.
- `ServerFilesProofs`: `TokensTypeCorrect`, `NoSpentTokenOnDisk` and `SessionsOnlyRenewed`.  The lock does not exclude
  anybody here, so the argument is about tokens: each answer in flight carries a number no
  other answer carries, with rotation the presented token dies at the instant its
  successor is issued, and what a server stores expires later than what it holds because the clock
  that began the refresh was within `Lead < Ttl` of the old expiry.
  `TheLastWordStands`, about Profiles, for any number of terminals, servers and allowlists and with nothing assumed of them.  Unless a crowd was noted,
  one process at most has the metadata in hand (`OneInHand`); what it will write says what was last decided, with its own change (`Adding`,
  `Signing`, `Quarantining`), and what is on disk, if it can be read, says it too (`MetaDecided`).
  `RedactionIsExact`, about Detection, for any texts over the letters of the patterns, budgets and measure of entropy.  The end of a run and of a match are the least
  position at which something holds (`LeastOf`, `RunEndIs`, `MatchEndIs`), so that what the scan finds at a position is the token there (`FoundIs`).  While it scans, each token it
  has passed lies in a span, a match jumped over is one that could not be a token, and a span widened without budget ends where its alphabet does, which no token that begins
  inside crosses (`ScanInv`).  While it splices, what is written is what lies outside the spans before the cursor, in its order, and a marker for each chain of
  overlapping spans that is closed; the open span is what the chain at hand has come to (`SpliceOK`, `Merges`), and the first of a chain is the only one
  that leads it (`OneLeader`), which counts the markers (`LeadersCounted`).  Assumed: texts are made of those letters and budgets are natural numbers (`ScanAssumption`).
- `ProTokensProofs`.  `SessionStaysWhole`: the commands between the locking and the last file hold the lock (`LockHeld`), every token belongs
  to one command, and one about to be stored is accepted or was revoked (`TokensSound`), and at each step of a renewal or a login what is on disk and what
  is yet to be written make one session (`SessionSound`).  Assumed: `None` is no terminal (`NobodyIsNoTerminal`).  `CodesAreOwn`, about OidcLogin: a page that bears a code bears
  the state of the request it was given for, and a login that has compared the state holds its own (`OidcSound`).
- `PolicyProofs`, what a call may do, about Grants: `GrantTypeCorrect`, `VerdictsRestOnGrants`, `RevokedStaysGone` and `KeyFilesAgree`.  A grant that is signed and not
  placed has an id that neither the disk nor any revocation knows (`Fresh`), so that a removal cannot be undone by it.
  Of two bypasses at work both are in the crowd (`CrowdOK`), hence one outside it was alone from its first step, and what it has
  written is still there (`AloneOK`); if the files disagree undisturbed, a bypass at work is the reason (`Explained`).
  About AllowlistGate: `GateTypeCorrect`, `RunsWithinPolicy`, `TransfersWithinRoots`, `DestructiveNeedsOptIn` and `VariablesMatter`, for
  every set of allowlists, calls and worlds.  The invariant says that the call in hand passed `validate`,
  `check_args` and `PositionsAllowed` in the world it was decided in (`Justified`).  The rest is about the rules alone:
  what a primitive touches is among what the enforcer has seen, kind by kind; the
  catalogue's verdict on an admitted call implies the validator's estimate; and for each field a variable may fill there is a value that is
  refused: a directory of the two that the pattern did not take, the root of the disk, a canary, and an element that no
  template has at that place, where a template that did not match the call would still not match (`CwdMatters`, `LocalMatters`, `UrlMatters`,
  `ArgvMatters`).  Assumed: those directories, canaries and paths are values a call may carry, the root of the disk is canonical and lies in no
  other directory, and no list of endpoints, which are literal, names every URL on the hosts that none means (`MoreThanNamed`).  The proof found that the
  property first said too much: the prefix of a template may be empty (`/*`, `enforcer.rs:853`), which `position.rs` counts as a bound although only the empty element is left
  out, and another template may have that one; the property now asks for templates that leave something out (`LeftOut`), and the run has an allowlist that does not.
  About GithubOps and ToolRuns (`PrimitivesSpec`): `PrimitivesAlwaysAnswerTrue`, for any issues, page sizes, topics, configurations and pins.  What
  `list_issues` has read is, while nobody closes or opens an issue, what the pages before the current one hold (`GithubInv`); what
  `merge_topics_unique` makes of a list has every topic of both once, by induction over the list (`MergedWhole`); and a child that was started has
  what was resolved when it was, and the pin as the file was read (`RunsInv`).  Assumed: `GithubConstants` and `RunsConstants`.
  About Substitution: `TextsAreMeant`, for any texts, variables, trees of links, bucket and clock.  The loops of the code (`find_all`, the
  replacements in a text, the walk over the fields) are recursive functions of a position, so that each is unfolded once and the rest is
  induction on the position.  `find_all` reports every match that no earlier one covers (`FindAllFinds`), and what it skips can not begin a reference, as no mark
  lies within one (`MatchIs`, `StandingFound`); so the scan and the definition without a scan replace the same words, and what stands between
  two references stays (`HitPasses`, `AllPass`).  Along the way the invariant carries where each comma came from (`ValueHasNoComma`, for what
  `validate` lets through) and which types were put where (`TextIs`, `Walked`).  A path whose deepest ancestor is its own canonical form has no link
  in that ancestor (`CanonicalIs`).  For the rate, what a bucket holds and what it has handed out since any instant are bounded together, above by a
  full bucket and below by what it was short of (`Steady`): the first bounds what is handed out, the second says that a refusal is due
  (`EmptyGave`), and the tokens of a call that fails half way are accounted for in both (`Balanced`).  Assumed: a directory
  that is one lies behind no link, no call has a field twice, and `Unset` is no bucket (`SubstitutionConstants`).
- `VarsProofs`, about VarsStore and Backup, for any number of terminals, variables, values, commands and pushes.  `ConfirmedHereOnly`: what
  is verified in the file, in a copy, in the document a command will write and in what `verify` has shown was confirmed on this machine or by a
  `verify` that came late (`ConfInv`), and what a pull has put into the staging directory is verified nowhere once it is resealed.  `LostOnlySo`: as long as no two
  commands overlapped, a command between load and rename is alone, and the document it will write is the ledger after its
  effect (`LedgerInv`); the document that the last rename replaced is the newest copy, or the second while a later command rotates (`PreviousKept`); every
  backup of this machine is the child of the one it had last seen (`PushInv`).  Assumed: documents found are of this shape (`OldDocuments`) and
  the marks for no file and no directory are no documents (`NoDocuments`, `BackupConstants`).  The proof found that the property first said too
  much: deaths after a rotation push the replaced document out of the three copies, which needs more commands than the run has; the ghost
  variable `rotations` now counts them, and the property says until when the document is kept.
  About OutputFilter: `OnlyMaskedLeaves`, for any documents of variables, texts and lengths.  `from_doc` is a sorting of the maskable keys,
  which exists as a last key can always be chosen (`LastKey`, `CanBeOrdered`); so every value is known, and what is known before another is no shorter
  (`FromDocKnows`).  `scrub_str` is a function of the position (`ScanRuns`), and by induction from the end of the text backwards what it has made of
  the rest has no value left, copies the text up to the first marker, brings no character of its own (`Sound`), stands for the rest, and each marker stands for the longest
  value that began there (`Stands`).  A value in what was made would begin with copied characters, hence in the text, where the scan would have found
  it (`HereAsThere`).  The rest is the order of the steps: when the values are read, by whom, and what was put into the row in between (`FilterInv`).  Assumed: values and
  texts are made of natural numbers, so that a marker, a negative one, is none of their characters, and a value of no characters is not masked
  (`FilterConstants`).  The proof showed that the cut of a message needs no exception: no whole value stays in it.
- `HomeProofs`, about Home, for any number of homes, terminals, codes, settings and commands, with the owner copying, editing and moving files
  in between.  Two commands that have one file in hand are in the crowd (`Crowded`), so that outside it a command finds the
  file, the temporary file and what it remembers of them as it left them.  `SettingsAreKept`: a configuration that may verify has
  the settings wanted (`ConfigFile`), and the one in a command's hand those that will be wanted once it is renamed (`ConfigJob`).
  `CodesAreHonoured`: while a rebind has a code in hand the codes on disk still hold it unused, and what it will write marks it (`CodesJob`); codes that a
  regenerate has yet to place are nowhere (`NotPlaced`), which is why it may die before placing them and nothing is lost; and a configuration names a home
  other than the one its settings began in only if a code was consumed for that home, or the rebind that carries it has yet to consume
  one (`CarryInv`).  Assumed: the marks for no file, a torn file and nobody are no file, key or home (`HomeConstants`).

Only model-checked: liveness under fairness (`EveryCallAnswered`,
`EveryCommandEnds`, `EveryRefreshEnds`), which is out of the prover's reach; PatternShape, which is computed with
recursive operators (a recursive function over positions can be unfolded and is proved, as `Kept`, `scrub_str` and `find_all` are, a
recursive operator cannot).

## 6. Not modelled

`PROJECT.json` lists every part with its reason.  In short: cryptography is
perfect; key derivation, the bytes of most formats, the lengths of texts and the table of detection patterns are data, and so are regular
expressions outside the analyser.  The captured environment and the trusted terminal, the TUI, JSON-RPC framing and argument
parsing turn input and output into the calls and commands that other parts take as their inputs; they keep nothing that another part
reads.  The file system is taken to
rename atomically and to keep what was renamed.

Inside the modelled parts: the exchange of `kvendra.http` and what primitives do in other systems beyond GitHub's
issues and topics; the pass over secret metadata (`read_metadata`), which only feeds listings; the choice among several
workspaces beyond one named by the environment; an answer without an `id_token`; the audit rows of refused calls, whose result the code
ignores; PDF and CSV exports, and how times in `--from` and `--to` are read; the ACL of the keychain.

## 7. Plan

1. A proof about the analyser (`ShapesSound`), by induction over the structure of patterns rather than over their
   texts: PatternShape is recursive, so that no module with a theorem may reach it, and only MCScreening extends it.
2. The hazards that no property covers yet: a use consumed before the primitive decides
   (`src/mcp/server.rs:1381`), as an abstract quota that only an exposure spends; a popup that is never
   answered (`src/approval/biometric.rs:29`), as liveness of Broker with fairness for the server and none for the human; an
   extension that overlaps with `kvendra lock` (`src/session/local.rs:382`), as a property that lock is the last word.
3. Grants over LocalSession in place of a session that is on or off, with the instant each session began, so that a grant can be
   compared with the session it was issued in.
4. Broker over AllowlistRules in place of its verdict taken as an input, and over Profiles in place of its own allowlist file, if
   the state space allows.
