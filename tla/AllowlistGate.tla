---------------------------- MODULE AllowlistGate ----------------------------
(***************************************************************************)
(* The allowlist of one profile over time.  The owner signs it, the broker *)
(* decides one call after another with it, and runs the primitive when the *)
(* human and the vault agree.  Between the decision and the run, as        *)
(* between the signature and the decision, time passes and the world that  *)
(* the rules look things up in changes.  That the allowlist is the signed  *)
(* one is Broker's concern.                                                *)
(***************************************************************************)
EXTENDS AllowlistRules

CONSTANTS
  Allowlist,  \* records [ops, expires]: constraints by operation, last day
  NoList,     \* nothing signed yet
  Never,      \* no last day, or one that cannot be parsed
  Call,       \* records [op, args, sites]
  World,      \* records [push, fetch, manifest, canon]
  MaxDay,     \* bound on the days
  MaxEdits    \* bound on signatures and changes of the world

Site == [field : Field, index : Nat]

(* A site is where a reference was found, so the call has what it names.    *)
HasSite(args, site) ==
  /\ args[site.field] # Absent
  /\ site.field = "argv" => site.index \in DOMAIN args["argv"]

ASSUME GateConstants ==
  /\ NoList \notin Allowlist /\ MaxDay \in Nat /\ MaxEdits \in Nat
  /\ Absent \notin Value /\ Absent \notin Seq(Token)
  /\ \A list \in Allowlist : list.expires \in Nat \cup {Never}
  /\ \A call \in Call : /\ call.sites \subseteq Site /\ DOMAIN call.args = Field
                         /\ call.args["argv"] \in Seq(Token) \cup {Absent}
                         /\ \A site \in call.sites : HasSite(call.args, site)

(* There is more in the world than an allowlist names: a call may ask for   *)
(* each of the two directories that position.rs tries, the root of the disk *)
(* is a path and lies in no other directory, and no list of endpoints, which *)
(* are literal, names every URL on the hosts that none means.               *)
ASSUME MoreThanNamed ==
  /\ Canary # {} /\ Samples \cup Canary \cup Path \subseteq Value /\ Top \in Path \ S3Uri
  /\ \A w \in World : w.canon[Top] = Top
  /\ \A pair \in Inside : pair[1] = Top => pair[2] = Top
  /\ \A list \in Allowlist : \A op \in DOMAIN list.ops :
       LET allow == list.ops[op].allow IN
       /\ allow["endpoints"] # Absent => ~(Canary \subseteq allow["endpoints"])
       /\ allow["args_constraints"] # Absent => allow["args_constraints"] \subseteq Seq(SUBSET Token)

VARIABLES
  today,      \* the day
  edits,      \* signatures and changes so far
  world,      \* what the rules and the primitives look things up in
  allowlist,  \* the signed allowlist
  job         \* the call in hand

gvars == <<today, edits, world, allowlist, job>>

(* A job remembers what it was decided with and, for the properties, the   *)
(* world of the decision and the world of the run.                         *)
NoJob == [step |-> "idle"]
Job(step, call, c, seen, met) ==
  [step |-> step, call |-> call, c |-> c, seen |-> seen, met |-> met]

GateInit ==
  /\ today = 0 /\ edits = 0
  /\ world \in World /\ allowlist = NoList
  /\ job = NoJob

------------------------------------------------------------------------------
is_expired(list) == list.expires # Never /\ list.expires < today

(* secret set-allowlist *)
SetAllowlist(list) ==
  /\ edits < MaxEdits /\ edits' = edits + 1
  /\ validate_for_signing(list.ops, world)
  /\ allowlist' = list
  /\ UNCHANGED <<today, world, job>>

(* Somebody changes a remote, a manifest or a link.                        *)
ChangeWorld(w) ==
  /\ edits < MaxEdits /\ edits' = edits + 1
  /\ world' = w
  /\ UNCHANGED <<today, allowlist, job>>

DayPasses ==
  /\ today < MaxDay /\ today' = today + 1
  /\ UNCHANGED <<edits, world, allowlist, job>>

operation_constraints(list, op) == list.ops[op]

(* validate, check and positions, once the operation is found listed.      *)
enforce_allowlist(list, c, call, w) ==
  /\ validate(list.ops) /\ ~is_expired(list)
  /\ check_args(c, call.op, call.args, w)
  /\ PositionsAllowed(c, call.op, call.args, call.sites)

(* A request is decided, and refused when no step is possible.             *)
Authorize(call) ==
  /\ job.step # "allowed" /\ allowlist # NoList
  /\ call.op \in DOMAIN allowlist.ops
  /\ LET c == operation_constraints(allowlist, call.op) IN
       /\ enforce_allowlist(allowlist, c, call, world)
       /\ job' = Job("allowed", call, c, world, world)
  /\ UNCHANGED <<today, edits, world, allowlist>>

(* The human declines, or there is no secret, or the primitive refuses.    *)
Abandon ==
  /\ job.step = "allowed"
  /\ job' = NoJob
  /\ UNCHANGED <<today, edits, world, allowlist>>

Run ==
  /\ job.step = "allowed" /\ Complete(job.call.op, job.call.args)
  /\ job' = Job("ran", job.call, job.c, job.seen, world)
  /\ UNCHANGED <<today, edits, world, allowlist>>

GateNext ==
  \/ \E list \in Allowlist : SetAllowlist(list)
  \/ \E w \in World : ChangeWorld(w)
  \/ DayPasses
  \/ \E call \in Call : Authorize(call)
  \/ Abandon
  \/ Run

GateSpec == GateInit /\ [][GateNext]_gvars

------------------------------------------------------------------------------
(* Properties.                                                             *)

Decided == job.step # "idle"
Ran     == job.step = "ran"

(* The state is well formed, and a job carries the constraints that an     *)
(* allowlist gives its own operation (the lookup of enforcer.rs).          *)
GateTypeOK ==
  /\ today \in 0..MaxDay /\ edits \in 0..MaxEdits
  /\ world \in World /\ allowlist \in Allowlist \cup {NoList}
  /\ \/ job = NoJob
     \/ /\ job.step \in {"allowed", "ran"} /\ job.call \in Call
        /\ job.seen \in World /\ job.met \in World
        /\ \E list \in Allowlist : /\ job.call.op \in DOMAIN list.ops
                                  /\ job.c = list.ops[job.call.op]

(* What is looked up in the world, at the decision and again at the run.   *)
LookedUp == {"packages", "repos", "org"}

(* Where the enforcer does not see what the primitive touches: a working   *)
(* directory that is left out, the fetch URL of a remote that also has a   *)
(* push URL, elements of argv that are not strings.                        *)
Unseen(op, args, w, d) ==
  \/ d = "cwd_pattern" /\ args["cwd"] = Absent
  \/ d = "argv" /\ \E argv \in Held(args, "argv") : NonString \in ToSet(argv)
  \/ d \in {"repos", "org"} /\ op = "pull" /\ args["remote"] \notin GitUrl
       /\ \E dir \in Held(args, "cwd") : w.fetch[dir] # w.push[dir]

(* A primitive touches only what the constraints of its operation admit:   *)
(* the enforcer's reading of a call agrees with the primitive's in every   *)
(* kind of constraint, the repository behind a remote and the package in a *)
(* manifest included as long as the world has not changed in between.      *)
(* The fields C2, N7 and N10 of enforcer.rs are about.                     *)
EffectsAdmitted ==
  Ran => LET op == job.call.op  args == job.call.args IN
    \A d \in Effect :
      (d \in LookedUp => job.met = job.seen) /\ ~Unseen(op, args, job.met, d)
        => \A v \in Touched(op, args, job.met)[d] : Admits(job.c, d, v)

(* A transfer reads and writes inside a declared root, followed through    *)
(* every link, and that root is the whole disk only when the owner has     *)
(* accepted broad scope, although links and roots may have changed since   *)
(* the signature (D9, is_within_roots).                                    *)
LocalWithinRoots ==
  Ran /\ job.met = job.seen =>
    \A path \in TouchedPaths(job.call.op, job.call.args) :
      /\ job.met.canon[path] \notin {Nowhere, Dangling}
      /\ \E r \in job.c.allow["local_roots"] :
           /\ <<job.met.canon[path], job.met.canon[r]>> \in Inside
           /\ job.met.canon[r] = Top => job.c.broad

(* What has run stayed within the policy: in its effects, and in the parts  *)
(* of the disk that a transfer reads and writes.                            *)
WithinPolicy == EffectsAdmitted /\ LocalWithinRoots

(* A call that is destructive by the catalogue or by the owner's mark is   *)
(* allowed only where the owner has accepted destructive operations: the   *)
(* validator's estimate, made without a call, covers the catalogue's       *)
(* verdict on each call the constraints admit.                             *)
DestructiveOptedIn ==
  Decided /\ (is_destructive(job.call.op, job.call.args) \/ job.c.destructive) => job.c.accept

(* The same, unless it is a request whose methods are not bounded.         *)
OptedInUnlessOpen ==
  ~(Decided /\ job.call.op = "request" /\ ~Declared(job.c, "methods")) => DestructiveOptedIn

(* The calls that a different value at the site makes, a path for a path.  *)
Replaced(op, args, site) ==
  IF site.field = "argv"
    THEN {[args EXCEPT !["argv"] = [@ EXCEPT ![site.index] = t]] : t \in AnyToken}
    ELSE {[args EXCEPT ![site.field] = v] : v \in IF site.field \in LocalFields(op) THEN Path ELSE Value}

(* The literals and prefixes of the templates leave out some element.  One *)
(* prefix may be empty, of which only an empty element is left out, and    *)
(* that may be a literal of another template.                              *)
LeftOut(c, i) ==
  \E t \in AnyToken : \A tpl \in c.allow["args_constraints"] :
    i \in DOMAIN tpl /\ tpl[i] # AnyToken => t \notin tpl[i]

(* Where a bound means something: not under accepted broad scope, nor where *)
(* the templates leave nothing out; and for buckets, url of clone and an    *)
(* argv with elements that are no strings, position.rs asks less.           *)
Bounding(c, op, args, site) ==
  \/ site.field = "cwd"
  \/ site.field \in LocalFields(op) /\ args[site.field] \in Path /\ ~c.broad
  \/ site.field = "url" /\ op = "request" /\ ~c.broad
  \/ site.field = "argv" /\ NonString \notin ToSet(args["argv"]) /\ LeftOut(c, site.index)

(* Where a local variable is substituted, some value would have been       *)
(* refused: the constraint that position.rs names as the bound of the      *)
(* field does bound the final value.                                       *)
VariableMatters ==
  Decided => LET op == job.call.op  args == job.call.args IN
    \A site \in job.call.sites :
      Bounding(job.c, op, args, site) =>
        \E other \in Replaced(op, args, site) : ~check_args(job.c, op, other, job.seen)
===============================================================================
