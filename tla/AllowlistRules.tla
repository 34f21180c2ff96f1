---------------------------- MODULE AllowlistRules ----------------------------
(***************************************************************************)
(* What an allowlist means (allowlist/, primitives/, vars/position.rs):    *)
(* which constraints may be signed, which calls they allow, which fields   *)
(* of a call a local variable may fill, and, read from the primitives and  *)
(* not from the enforcer, what an allowed call then touches.               *)
(*                                                                         *)
(* A pattern (glob, regular expression, literal) is the set of values it   *)
(* matches.  The arguments of a call are a function on the field names.    *)
(* What is looked up outside of the call -- git's remotes, package.json,   *)
(* where a path leads -- is the world, read again at each use.             *)
(***************************************************************************)
EXTENDS Integers, SequencesExt

CONSTANTS
  Value,       \* what a plain field of a call holds
  Absent,      \* a field or a constraint that is left out
  GitUrl,      \* remotes that are URLs and not names
  RepoOf,      \* host/owner/name of the repository a URL or repo field names
  OwnerOf,     \* the owner of a repository
  Malformed,   \* repo fields that are not owner/name
  S3Uri,       \* operands of the form s3://bucket/...
  BucketOf,    \* the bucket of such an operand
  Path,        \* operands and roots that are local paths
  Inside,      \* pairs <<place, directory>>: the place is in the directory
  Top,         \* the filesystem root
  Nowhere,     \* where a path leads that does not resolve
  Dangling,    \* where a symbolic link to nothing leads
  BrokerDir,   \* working directory of the broker
  Canary,      \* URLs on hosts no allowlist means
  Wildcard,    \* the endpoint "*"
  Mutating,    \* POST, PUT, PATCH and DELETE
  Interpreter, \* binaries that turn an argument into code
  GitBinary,   \* git, which does with one of GitConfig among its arguments
  GitConfig,
  Samples,     \* directories that only a trivial cwd_pattern accepts together
  Token,       \* elements of an argument vector
  NonString,   \* an element that is not a JSON string
  Empty        \* the empty string

ASSUME RuleConstants == Absent \notin Mutating

(* Fields and operations of the primitives.  Required are the fields an    *)
(* operation refuses to run without.  pair is owner with repo_name, alias  *)
(* is owner with name.                                                     *)
Field == {"url", "repo", "pair", "alias", "remote", "cwd", "ref", "name", "force",
          "method", "binary", "argv", "env", "package", "project", "distribution_id",
          "function_name", "src", "dst", "dist", "bucket", "message", "title", "number",
          "topics", "tag_name"}

Required ==
  [clone |-> {"url"}, push |-> {"ref"}, pull |-> {"ref"}, commit |-> {"message"},
   tag |-> {"name"}, read_repo |-> {}, update_repo |-> {}, release |-> {"tag_name"},
   read_issue |-> {"number"}, update_issue |-> {"number"}, create_issue |-> {"title"},
   list_issues |-> {}, add_topics |-> {"topics"}, publish |-> {"cwd"},
   deprecate |-> {"package"}, npm_metadata |-> {"package"}, upload |-> {"dist"},
   pypi_metadata |-> {"project"}, s3_sync |-> {"src", "dst"}, s3_cp |-> {"src", "dst"},
   cloudfront_invalidate |-> {"distribution_id"}, lambda_invoke |-> {"function_name"},
   request |-> {"method", "url"}, exec |-> {"binary", "argv"}]

Operation == DOMAIN Required
Git       == {"clone", "push", "pull", "commit", "tag"}
Github    == {"read_repo", "update_repo", "release", "read_issue", "update_issue",
              "create_issue", "list_issues", "add_topics"}
S3        == {"s3_sync", "s3_cp"}

Given(args)   == {f \in Field : args[f] # Absent}
Held(args, f) == {args[f]} \ {Absent}
When(cond, S) == IF cond THEN S ELSE {}

(* The constraints of one operation: what each allowlist matches (Absent   *)
(* when it is not declared), what each denylist names, and the three       *)
(* flags.  repos and repo are one list (D1).                               *)
UrlDims == {"url_pattern_regex", "endpoints"}
Plain   == {"methods", "buckets", "distributions", "functions", "binaries", "packages",
            "projects", "refs", "tag_pattern", "fields_allowed", "org", "repos",
            "cwd_pattern", "env_vars_to_inject"}
Dim     == Plain \cup UrlDims \cup {"args_constraints", "local_roots"}

Declared(c, d) == c.allow[d] # Absent
UrlDeclared(c) == \E d \in UrlDims : Declared(c, d)

Unbounded == [allow |-> [d \in Dim |-> Absent],
              deny  |-> [args |-> {}, methods |-> {}, fields |-> {}, env |-> {}],
              broad |-> FALSE, destructive |-> FALSE, accept |-> FALSE]

------------------------------------------------------------------------------
(* The catalogue of destructive operations.                                *)

Destructive == {"clone", "push", "update_repo", "create_issue", "release", "add_topics",
                "publish", "deprecate", "upload", "s3_sync", "s3_cp", "lambda_invoke", "exec"}
Annotated   == {"commit", "update_issue", "cloudfront_invalidate"}
ByArguments == {"tag", "request"}
ReadOnly    == {"pull", "read_repo", "read_issue", "list_issues", "npm_metadata", "pypi_metadata"}

has_rule(op)        == op \in Destructive \cup Annotated \cup ByArguments
is_read_only(op)    == op \in ReadOnly
is_unclassified(op) == ~has_rule(op) /\ ~is_read_only(op)

is_destructive(op, args) ==
  \/ is_unclassified(op)
  \/ op \in Destructive
  \/ op = "tag" /\ args["force"] = TRUE
  \/ op = "request" /\ args["method"] \in Mutating

(* Variant: an operation nobody classified passes for read-only. *)
could_be_destructive_open(op, c) ==
  \/ op \in Destructive \cup {"tag"}
  \/ op = "request" /\ Declared(c, "methods") /\ c.allow["methods"] \cap Mutating # {}

(* What the validator expects of an operation before any call is made.     *)
could_be_destructive(op, c) ==
  \/ is_unclassified(op)
  \/ op \in Destructive \cup {"tag"}
  \/ op = "request" /\ Declared(c, "methods") /\ c.allow["methods"] \cap Mutating # {}

------------------------------------------------------------------------------
(* Local operands.                                                         *)

LocalFields(op) == IF op \in S3 THEN {"src", "dst"}
                   ELSE IF op = "clone" THEN {"dst"}
                   ELSE IF op = "upload" THEN {"dist"} ELSE {}

has_local_operand(op) == LocalFields(op) # {}

(* An S3 operand is a bucket, a local path, or neither, and refused; clone *)
(* without dst would write to the broker's own directory.                  *)
OperandsKnown(op, args) ==
  /\ op \in S3 => \A f \in LocalFields(op) : args[f] \in S3Uri \cup Path \cup {Absent}
  /\ op = "clone" => args["dst"] # Absent

local_operands(op, args) ==
  (UNION {Held(args, f) : f \in LocalFields(op)}) \ When(op \in S3, S3Uri)

Buckets(args) == {BucketOf[u] : u \in (Held(args, "src") \cup Held(args, "dst")) \cap S3Uri}

(* A root that leads to the filesystem root or is a link to nothing        *)
(* refuses the call.                                                       *)
RootsUsable(roots, broad, w) ==
  \A r \in roots : w.canon[r] # Dangling /\ (w.canon[r] = Top => broad)

is_within_roots(path, roots, w) ==
  /\ path \in Path /\ w.canon[path] \notin {Nowhere, Dangling}
  /\ \E r \in roots : <<w.canon[path], w.canon[r]>> \in Inside

LocalAllowed(c, op, args, w) ==
  /\ OperandsKnown(op, args)
  /\ local_operands(op, args) # {} =>
       /\ Declared(c, "local_roots")
       /\ RootsUsable(c.allow["local_roots"], c.broad, w)
       /\ \A path \in local_operands(op, args) : is_within_roots(path, c.allow["local_roots"], w)

------------------------------------------------------------------------------
(* The repository a call is for, as a set of at most one.                  *)

(* The resolver that the enforcer and the github endpoints share.          *)
GithubTarget(op, args) ==
  LET named == IF args["repo"] # Absent THEN Held(args, "repo")
               ELSE IF args["pair"] # Absent THEN Held(args, "pair")
               ELSE When(op # "release", Held(args, "alias"))
  IN  {RepoOf[r] : r \in named \ Malformed}

(* A remote that is a URL, or a name that git resolves in a directory.     *)
Remote(args, cwd, urls) ==
  IF args["remote"] \in GitUrl THEN {RepoOf[args["remote"]]}
  ELSE UNION {{urls[dir]} \ {Absent} : dir \in cwd}

UrlThenRepo(args) ==
  {RepoOf[u] : u \in IF args["url"] # Absent THEN Held(args, "url") ELSE Held(args, "repo")}
RepoThenUrl(args) ==
  {RepoOf[u] : u \in IF args["repo"] # Absent THEN Held(args, "repo") ELSE Held(args, "url")}

(* Variant: repo and url are believed for every git operation. *)
git_target_repo_decoy(op, args, w) ==
  IF Given(args) \cap {"url", "repo"} # {} THEN UrlThenRepo(args)
  ELSE Remote(args, Held(args, "cwd"), w.push)

(* The enforcer asks git for the push URL, whatever the operation.         *)
git_target_repo(op, args, w) ==
  IF op = "clone" THEN UrlThenRepo(args) ELSE Remote(args, Held(args, "cwd"), w.push)

Target(op, args, w) ==
  IF op \in Github THEN GithubTarget(op, args)
  ELSE IF op \in Git THEN git_target_repo(op, args, w) ELSE RepoThenUrl(args)

(* npm publish carries no name: it is in the manifest of the directory.    *)
Manifest(args, w) == UNION {{w.manifest[dir]} \ {Absent} : dir \in Held(args, "cwd")}

Owners(repos) == {OwnerOf[r] : r \in repos}

------------------------------------------------------------------------------
(* The enforcer.                                                           *)

Strings(argv) == IF NonString \notin ToSet(argv) THEN argv
                 ELSE SelectSeq(argv, LAMBDA t : t # NonString)

(* What it reads from the call and the world, for each kind of constraint. *)
Seen(op, args, w) ==
  [methods |-> Held(args, "method"), distributions |-> Held(args, "distribution_id"),
   functions |-> Held(args, "function_name"), binaries |-> Held(args, "binary"),
   projects |-> Held(args, "project"), refs |-> Held(args, "ref"),
   tag_pattern |-> Held(args, "name"), cwd_pattern |-> Held(args, "cwd"),
   buckets |-> Held(args, "bucket") \cup Buckets(args),
   packages |-> IF op = "publish" THEN Manifest(args, w) ELSE Held(args, "package"),
   repos |-> Target(op, args, w), org |-> Owners(Target(op, args, w)),
   fields_allowed |-> Given(args), env_vars_to_inject |-> UNION Held(args, "env"),
   url |-> Held(args, "url"), argv |-> {Strings(v) : v \in Held(args, "argv")}]

Bound == Plain \cup {"url", "argv"}

(* Constraints that deny a call in which there is nothing to check; the    *)
(* others pass it.                                                         *)
MustBeSeen(op) == {"binaries", "tag_pattern", "org", "repos"} \cup When(op = "publish", {"packages"})

(* A template is a sequence of sets of tokens; the argv has its length.    *)
argv_matches_template(argv, tpl) ==
  Len(argv) = Len(tpl) /\ \A i \in DOMAIN argv : argv[i] \in tpl[i]

(* A list of names, globs or expressions is the set of the values that one *)
(* of them matches, a glob and a name from end to end, a URL by how it     *)
(* begins.                                                                 *)
Matches(patterns, v) == v \in patterns

Admits(c, d, v) ==
  IF d = "url" THEN UrlDeclared(c) => \E u \in UrlDims : Declared(c, u) /\ Matches(c.allow[u], v)
  ELSE IF d = "argv" THEN Declared(c, "args_constraints") =>
                            \E tpl \in c.allow["args_constraints"] : argv_matches_template(v, tpl)
  ELSE Declared(c, d) => Matches(c.allow[d], v)

Forbidden(c, args) ==
  \/ \E argv \in Held(args, "argv") : ToSet(argv) \cap c.deny.args # {}
  \/ args["method"] \in c.deny.methods
  \/ Given(args) \cap c.deny.fields # {}
  \/ \E env \in Held(args, "env") : env \cap c.deny.env # {}

check_args(c, op, args, w) ==
  /\ ~Forbidden(c, args)
  /\ LocalAllowed(c, op, args, w)
  /\ \A d \in Bound : \A v \in Seen(op, args, w)[d] : Admits(c, d, v)
  /\ \A d \in MustBeSeen(op) : Declared(c, d) => Seen(op, args, w)[d] # {}

------------------------------------------------------------------------------
(* What the primitive touches.                                             *)

Effect == Bound \ {"fields_allowed", "env_vars_to_inject"}

(* Where it runs; clone, s3 and upload take paths instead.                 *)
WorkDir(args) == IF args["cwd"] = Absent THEN {BrokerDir} ELSE Held(args, "cwd")
InDir         == {"push", "pull", "commit", "tag", "exec", "publish"}

(* git itself takes the fetch URL for a pull.                              *)
Repository(op, args, w) ==
  IF op \in Github THEN GithubTarget(op, args)
  ELSE IF op = "clone" THEN {RepoOf[u] : u \in Held(args, "url")}
  ELSE IF op = "push" THEN Remote(args, WorkDir(args), w.push)
  ELSE When(op = "pull", Remote(args, WorkDir(args), w.fetch))

(* An element that is no string is run as the empty one.                   *)
Executed(argv) == [i \in DOMAIN argv |-> IF argv[i] = NonString THEN Empty ELSE argv[i]]

Touched(op, args, w) ==
  [methods |-> When(op = "request", Held(args, "method")),
   distributions |-> When(op = "cloudfront_invalidate", Held(args, "distribution_id")),
   functions |-> When(op = "lambda_invoke", Held(args, "function_name")),
   binaries |-> When(op = "exec", Held(args, "binary")),
   projects |-> When(op = "pypi_metadata", Held(args, "project")),
   refs |-> When(op \in {"push", "pull"}, Held(args, "ref")),
   tag_pattern |-> When(op = "tag", Held(args, "name")),
   cwd_pattern |-> When(op \in InDir, WorkDir(args)),
   buckets |-> When(op \in S3, Buckets(args)),
   packages |-> IF op = "publish" THEN Manifest(args, w)
                ELSE When(op \in {"deprecate", "npm_metadata"}, Held(args, "package")),
   repos |-> Repository(op, args, w), org |-> Owners(Repository(op, args, w)),
   url |-> When(op \in {"clone", "request"}, Held(args, "url")),
   argv |-> When(op = "exec", {Executed(v) : v \in Held(args, "argv")})]

TouchedPaths(op, args) ==
  When(op \in S3, (Held(args, "src") \cup Held(args, "dst")) \ S3Uri)
    \cup When(op = "clone", IF args["dst"] = Absent THEN {BrokerDir} ELSE Held(args, "dst"))
    \cup When(op = "upload", Held(args, "dist"))

(* A primitive refuses to run without its fields, or for no repository.    *)
Complete(op, args) ==
  /\ op \in Operation /\ Required[op] \subseteq Given(args)
  /\ op \in Github => GithubTarget(op, args) # {}

------------------------------------------------------------------------------
(* The validator.                                                          *)

HasBroad(c, op) ==
  \/ c.allow["methods"] = {}
  \/ Declared(c, "endpoints") /\ Wildcard \in c.allow["endpoints"]
  \/ op = "request" /\ \/ c.allow["url_pattern_regex"] \in {Absent, {}}
                       \/ c.allow["url_pattern_regex"] \cap Canary # {}
                       \/ ~Declared(c, "methods")

check_constraints(op, c) ==
  /\ ~(op = "upload" /\ Declared(c, "projects"))
  /\ HasBroad(c, op) => c.broad

DestructiveOptIn(op, c) == could_be_destructive(op, c) \/ c.destructive => c.accept

(* What every reading of an allowlist repeats, on all of its operations.   *)
validate(ops) ==
  /\ ops # << >>
  /\ \A op \in DOMAIN ops : check_constraints(op, ops[op]) /\ DestructiveOptIn(op, ops[op])

check_local_roots(op, c, w) ==
  /\ Declared(c, "local_roots") <=> has_local_operand(op)
  /\ has_local_operand(op) =>
       /\ c.allow["local_roots"] # {}
       /\ \A r \in c.allow["local_roots"] : w.canon[r] = Top => c.broad

validate_for_signing(ops, w) ==
  validate(ops) /\ \A op \in DOMAIN ops : check_local_roots(op, ops[op], w)

------------------------------------------------------------------------------
(* Local variables.  A site is a field, with an index when it is in argv.  *)

AnyToken == Token \ {NonString}

(* Variant: one template that pins the element is enough. *)
Pinned_any(tpls, i) == \E tpl \in tpls : i \in DOMAIN tpl /\ tpl[i] # AnyToken

(* An index past a template panics, which ends the call.                   *)
Pinned(tpls, i) ==
  tpls # {} /\ \A tpl \in tpls : i \in DOMAIN tpl /\ tpl[i] # AnyToken

Bounded(c, op, args, site) ==
  LET f == site.field IN
  \/ f = "cwd" /\ Declared(c, "cwd_pattern") /\ ~(Samples \subseteq c.allow["cwd_pattern"])
  \/ f = "url" /\ UrlDeclared(c)
  \/ f \in {"src", "dst", "dist"} /\ args[f] \in S3Uri /\ Declared(c, "buckets")
  \/ f \in LocalFields(op) /\ args[f] \notin S3Uri
       /\ Declared(c, "local_roots") /\ c.allow["local_roots"] # {}
  \/ f = "argv" /\ Declared(c, "args_constraints")
       /\ Pinned({tpl \in c.allow["args_constraints"] :
                    argv_matches_template(Strings(args["argv"]), tpl)}, site.index)

is_interpreter(args) ==
  \/ args["binary"] \in Interpreter
  \/ args["binary"] = GitBinary /\ \E argv \in Held(args, "argv") : ToSet(argv) \cap GitConfig # {}

PositionsAllowed(c, op, args, sites) ==
  /\ sites # {} /\ op = "exec" => ~is_interpreter(args)
  /\ \A site \in sites : Bounded(c, op, args, site)
===============================================================================
