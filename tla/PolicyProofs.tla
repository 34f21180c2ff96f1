----------------------------- MODULE PolicyProofs ------------------------------
(***************************************************************************)
(* Proofs about what a call may do: AllowlistGate, the rules that admit it, *)
(* Grants, the break-glass grants that relax them, Substitution, the values *)
(* put into it, and the primitives (GithubOps, ToolRuns).                  *)
(*                                                                         *)
(* For every allowlist, call and world an allowed call touches only what   *)
(* its constraints admit, moves files only inside declared roots, and is   *)
(* destructive only where the owner has opted in.  For any number of       *)
(* commands, workspaces and operations a verdict rests on a grant as it    *)
(* was signed, and a grant found by a revocation is gone.  Whatever the    *)
(* other side refuses, loses or changes in between, what a primitive       *)
(* answers is what happened.  And for every text, variable and tree of     *)
(* links, what is put in the place of a reference is what it means.        *)
(***************************************************************************)
EXTENDS Grants, AllowlistGate, ToolRuns, Substitution, SequenceTheorems,
        FiniteSetTheorems, WellFoundedInduction, TLAPS

------------------------------------------------------------------------------
(* The allowlist gate.                                                      *)

(* The enforcer sees what the primitive touches.                             *)

(* Kinds of constraint that are read from the call alone, by the same field *)
(* on both sides.                                                            *)
LEMMA FieldsAgree ==
  ASSUME NEW op, NEW args, NEW w,
         NEW d \in Effect \ {"repos", "org", "argv", "cwd_pattern"}
  PROVE  Touched(op, args, w)[d] \subseteq Seen(op, args, w)[d]
<1>1. CASE d \in {"methods", "distributions", "functions", "binaries", "projects", "refs",
                 "tag_pattern", "url"}
  BY <1>1 DEF Touched, Seen, When
<1>2. CASE d = "buckets"
  BY <1>2 DEF Touched, Seen, When
<1>3. CASE d = "packages"
  BY <1>3 DEF Touched, Seen, When
<1> QED
  BY <1>1, <1>2, <1>3 DEF Effect, Bound, Plain

LEMMA DirAgrees ==
  ASSUME NEW op, NEW args, NEW w, args["cwd"] # Absent
  PROVE  Touched(op, args, w)["cwd_pattern"] \subseteq Seen(op, args, w)["cwd_pattern"]
BY DEF Touched, Seen, When, WorkDir

(* Without elements that are no strings, what is matched is what is run.    *)
LEMMA ArgvAgrees ==
  ASSUME NEW op, NEW args, NEW w, args["argv"] \in Seq(Token) \cup {Absent},
         \A argv \in Held(args, "argv") : NonString \notin ToSet(argv)
  PROVE  Touched(op, args, w)["argv"] \subseteq Seen(op, args, w)["argv"]
<1>1. ASSUME NEW argv \in Held(args, "argv")
      PROVE  Executed(argv) = argv /\ Strings(argv) = argv
  <2>1. argv \in Seq(Token)
    BY <1>1 DEF Held
  <2>2. \A i \in DOMAIN argv : argv[i] # NonString
    BY <1>1 DEF ToSet
  <2>3. argv = [i \in DOMAIN argv |-> argv[i]]
    BY <2>1
  <2> QED
    BY <1>1, <2>2, <2>3 DEF Executed, Strings
<1>2. Touched(op, args, w)["argv"] \subseteq {Executed(v) : v \in Held(args, "argv")}
  BY DEF Touched, When
<1>3. Seen(op, args, w)["argv"] = {Strings(v) : v \in Held(args, "argv")}
  BY DEF Seen
<1> QED
  BY <1>1, <1>2, <1>3

(* The repository: the enforcer knows it, or there is none to see and the   *)
(* call is refused wherever repositories are bounded.                       *)
LEMMA RepositoryAgrees ==
  ASSUME NEW op, NEW args, NEW w, ~Unseen(op, args, w, "repos")
  PROVE  \/ Target(op, args, w) = {}
         \/ Repository(op, args, w) \subseteq Target(op, args, w)
<1>1. CASE op \in Github
  BY <1>1 DEF Target, Repository
<1>2. CASE op = "clone"
  BY <1>2 DEF Target, Repository, git_target_repo, UrlThenRepo, Github, Git, Held
<1>3. CASE op \in {"push", "pull"} /\ args["remote"] \in GitUrl
  BY <1>3 DEF Target, Repository, git_target_repo, Remote, Github, Git, When
<1>4. CASE op \in {"push", "pull"} /\ args["remote"] \notin GitUrl
  <2>1. Target(op, args, w) = UNION {{w.push[dir]} \ {Absent} : dir \in Held(args, "cwd")}
    BY <1>4 DEF Target, git_target_repo, Remote, Github, Git
  <2>2. CASE args["cwd"] = Absent
    BY <2>1, <2>2 DEF Held
  <2>3. CASE args["cwd"] # Absent
    <3>1. WorkDir(args) = {args["cwd"]} /\ Held(args, "cwd") = {args["cwd"]}
      BY <2>3 DEF WorkDir, Held
    <3>2. CASE op = "push"
      BY <1>4, <2>1, <3>1, <3>2 DEF Repository, Remote, Github
    <3>3. CASE op = "pull"
      <4>1. w.fetch[args["cwd"]] = w.push[args["cwd"]]
        BY <1>4, <3>1, <3>3 DEF Unseen
      <4> QED
        BY <1>4, <2>1, <3>1, <3>3, <4>1 DEF Repository, Remote, Github, When
    <3> QED
      BY <1>4, <3>2, <3>3
  <2> QED
    BY <2>2, <2>3
<1>5. CASE op \notin Github \cup {"clone", "push", "pull"}
  BY <1>5 DEF Repository, When
<1> QED
  BY <1>1, <1>2, <1>3, <1>4, <1>5

LEMMA OwnersOfSubset ==
  ASSUME NEW S, NEW T, S \subseteq T
  PROVE  Owners(S) \subseteq Owners(T)
BY DEF Owners

LEMMA OwnersOfNone == Owners({}) = {}
BY DEF Owners

(* What a call is admitted for covers what its primitive touches.           *)
LEMMA TouchedAdmitted ==
  ASSUME NEW c, NEW op, NEW args, NEW w,
         args["argv"] \in Seq(Token) \cup {Absent}, check_args(c, op, args, w),
         NEW d \in Effect, ~Unseen(op, args, w, d),
         NEW v \in Touched(op, args, w)[d]
  PROVE  Admits(c, d, v)
<1>1. d \in Bound
  BY DEF Effect
<1>2. ASSUME v \in Seen(op, args, w)[d]
      PROVE  Admits(c, d, v)
  BY <1>1, <1>2 DEF check_args
<1>3. CASE d \notin {"repos", "org", "argv", "cwd_pattern"}
  BY <1>2, <1>3, FieldsAgree
<1>4. CASE d = "cwd_pattern"
  BY <1>2, <1>4, DirAgrees DEF Unseen
<1>5. CASE d = "argv"
  BY <1>2, <1>5, ArgvAgrees DEF Unseen
<1>6. CASE d \in {"repos", "org"}
  <2>1. ~Unseen(op, args, w, "repos")
    BY <1>6 DEF Unseen
  <2>2. /\ Seen(op, args, w)["repos"] = Target(op, args, w)
        /\ Seen(op, args, w)["org"] = Owners(Target(op, args, w))
        /\ Touched(op, args, w)["repos"] = Repository(op, args, w)
        /\ Touched(op, args, w)["org"] = Owners(Repository(op, args, w))
    BY DEF Seen, Touched
  <2>3. CASE Target(op, args, w) = {}
    <3>1. Seen(op, args, w)[d] = {}
      BY <1>6, <2>2, <2>3, OwnersOfNone
    <3>2. ~Declared(c, d)
      BY <1>6, <3>1 DEF check_args, MustBeSeen
    <3> QED
      BY <1>6, <3>2 DEF Admits
  <2>4. CASE Repository(op, args, w) \subseteq Target(op, args, w)
    BY <1>2, <1>6, <2>2, <2>4, OwnersOfSubset
  <2> QED
    BY <2>1, <2>3, <2>4, RepositoryAgrees
<1> QED
  BY <1>3, <1>4, <1>5, <1>6

(* Only what is looked up depends on the world.                             *)
LEMMA WorldMattersForLookups ==
  ASSUME NEW op, NEW args, NEW w, NEW x, NEW d \in Effect \ LookedUp
  PROVE  /\ Touched(op, args, w)[d] = Touched(op, args, x)[d]
         /\ Unseen(op, args, w, d) <=> Unseen(op, args, x, d)
<1>1. d \in {"methods", "distributions", "functions", "binaries", "projects", "refs",
             "tag_pattern", "cwd_pattern", "buckets", "url", "argv"}
  BY DEF Effect, Bound, Plain, LookedUp
<1>2. Touched(op, args, w)[d] = Touched(op, args, x)[d]
  BY <1>1 DEF Touched
<1>3. Unseen(op, args, w, d) <=> Unseen(op, args, x, d)
  BY <1>1 DEF Unseen
<1> QED
  BY <1>2, <1>3

------------------------------------------------------------------------------
(* Local operands and the opt-in.                                            *)

LEMMA PathsAreOperands ==
  ASSUME NEW op, NEW args, OperandsKnown(op, args)
  PROVE  TouchedPaths(op, args) \subseteq local_operands(op, args)
<1>1. CASE op \in S3
  BY <1>1 DEF TouchedPaths, local_operands, LocalFields, When, S3
<1>2. CASE op = "clone"
  BY <1>2 DEF TouchedPaths, local_operands, LocalFields, When, S3, OperandsKnown
<1>3. CASE op = "upload"
  BY <1>3 DEF TouchedPaths, local_operands, LocalFields, When, S3
<1>4. CASE op \notin S3 \cup {"clone", "upload"}
  BY <1>4 DEF TouchedPaths, When
<1> QED
  BY <1>1, <1>2, <1>3, <1>4

LEMMA PathsInsideRoots ==
  ASSUME NEW c, NEW op, NEW args, NEW w, check_args(c, op, args, w),
         NEW path \in TouchedPaths(op, args)
  PROVE  /\ w.canon[path] \notin {Nowhere, Dangling}
         /\ \E r \in c.allow["local_roots"] :
              /\ <<w.canon[path], w.canon[r]>> \in Inside
              /\ w.canon[r] = Top => c.broad
<1>1. LocalAllowed(c, op, args, w)
  BY DEF check_args
<1>2. path \in local_operands(op, args)
  BY <1>1, PathsAreOperands DEF LocalAllowed
<1> QED
  BY <1>1, <1>2 DEF LocalAllowed, RootsUsable, is_within_roots

(* The estimate of the validator covers every call that is admitted.        *)
LEMMA EstimateCovers ==
  ASSUME NEW c, NEW op, NEW args, NEW w, check_args(c, op, args, w),
         is_destructive(op, args), op = "request" => Declared(c, "methods")
  PROVE  could_be_destructive(op, c)
<1>1. CASE op = "request" /\ args["method"] \in Mutating
  <2>1. args["method"] \in Seen(op, args, w)["methods"]
    BY <1>1, RuleConstants DEF Seen, Held
  <2>2. Admits(c, "methods", args["method"])
    BY <2>1 DEF check_args, Bound, Plain
  <2>3. args["method"] \in c.allow["methods"]
    BY <1>1, <2>2 DEF Admits, Matches
  <2> QED
    BY <1>1, <2>3 DEF could_be_destructive
<1> QED
  BY <1>1 DEF is_destructive, could_be_destructive

------------------------------------------------------------------------------
(* What holds of a decided call at every step.                               *)
Justified ==
  Decided => /\ check_constraints(job.call.op, job.c) /\ DestructiveOptIn(job.call.op, job.c)
             /\ check_args(job.c, job.call.op, job.call.args, job.seen)
             /\ PositionsAllowed(job.c, job.call.op, job.call.args, job.call.sites)

GateInv == GateTypeOK /\ Justified

LEMMA GateInvInit == GateInit => GateInv
BY GateConstants DEF GateInit, GateInv, GateTypeOK, Justified, Decided, NoJob

LEMMA GateInvStep == GateInv /\ [GateNext]_gvars => GateInv'
<1> SUFFICES ASSUME GateInv, [GateNext]_gvars
             PROVE  GateInv'
  OBVIOUS
<1>0. GateTypeOK /\ Justified
  BY DEF GateInv
<1>1. ASSUME UNCHANGED job, today' \in 0..MaxDay, edits' \in 0..MaxEdits, world' \in World,
             allowlist' \in Allowlist \cup {NoList}
      PROVE  GateInv'
  BY <1>0, <1>1 DEF GateInv, GateTypeOK, Justified, Decided
<1>2. ASSUME NEW list \in Allowlist, SetAllowlist(list)
      PROVE  GateInv'
  BY <1>0, <1>1, <1>2, GateConstants DEF SetAllowlist, GateTypeOK
<1>3. ASSUME NEW w \in World, ChangeWorld(w)
      PROVE  GateInv'
  BY <1>0, <1>1, <1>3, GateConstants DEF ChangeWorld, GateTypeOK
<1>4. CASE DayPasses
  BY <1>0, <1>1, <1>4, GateConstants DEF DayPasses, GateTypeOK
<1>5. ASSUME NEW call \in Call, Authorize(call)
      PROVE  GateInv'
  <2> DEFINE c == allowlist.ops[call.op]
  <2>1. /\ allowlist \in Allowlist /\ call.op \in DOMAIN allowlist.ops
        /\ enforce_allowlist(allowlist, c, call, world)
        /\ job' = Job("allowed", call, c, world, world)
        /\ UNCHANGED <<today, edits, world, allowlist>>
    BY <1>0, <1>5 DEF Authorize, operation_constraints, GateTypeOK
  <2>2. /\ check_constraints(call.op, c) /\ DestructiveOptIn(call.op, c)
        /\ check_args(c, call.op, call.args, world)
        /\ PositionsAllowed(c, call.op, call.args, call.sites)
    BY <2>1 DEF enforce_allowlist, validate
  <2>3. GateTypeOK'
    BY <1>0, <2>1 DEF GateTypeOK, Job
  <2>4. Justified'
    BY <2>1, <2>2 DEF Justified, Decided, Job
  <2> QED
    BY <2>3, <2>4 DEF GateInv
<1>6. CASE Abandon
  BY <1>0, <1>6 DEF Abandon, GateInv, GateTypeOK, Justified, Decided, NoJob
<1>7. CASE Run
  <2>1. /\ Decided /\ job # NoJob
        /\ job' = Job("ran", job.call, job.c, job.seen, world)
        /\ UNCHANGED <<today, edits, world, allowlist>>
    BY <1>7 DEF Run, Decided, NoJob
  <2>2. GateTypeOK'
    BY <1>0, <2>1 DEF GateTypeOK, Job
  <2>3. Justified'
    BY <1>0, <2>1 DEF Justified, Decided, Job
  <2> QED
    BY <2>2, <2>3 DEF GateInv
<1>8. CASE UNCHANGED gvars
  BY <1>0, <1>1, <1>8 DEF gvars, GateTypeOK
<1> QED
  BY <1>2, <1>3, <1>4, <1>5, <1>6, <1>7, <1>8 DEF GateNext

LEMMA GateInvAlways == GateSpec => []GateInv
BY GateInvInit, GateInvStep, PTL DEF GateSpec

------------------------------------------------------------------------------
(* The state is always well formed, and a job carries its own constraints.  *)
THEOREM GateTypeCorrect == GateSpec => []GateTypeOK
<1>1. GateInv => GateTypeOK
  BY DEF GateInv
<1> QED
  BY <1>1, GateInvAlways, PTL

(* A primitive touches only what the constraints of its operation admit.    *)
THEOREM EffectsAreAdmitted == GateSpec => []EffectsAdmitted
<1>1. GateInv => EffectsAdmitted
  <2> SUFFICES ASSUME GateInv, Ran, NEW d \in Effect,
                      d \in LookedUp => job.met = job.seen,
                      ~Unseen(job.call.op, job.call.args, job.met, d),
                      NEW v \in Touched(job.call.op, job.call.args, job.met)[d]
               PROVE  Admits(job.c, d, v)
    BY DEF EffectsAdmitted
  <2>1. check_args(job.c, job.call.op, job.call.args, job.seen)
    BY DEF GateInv, Justified, Decided, Ran
  <2>2. job.call.args["argv"] \in Seq(Token) \cup {Absent}
    BY GateConstants DEF GateInv, GateTypeOK, Ran, NoJob
  <2>3. /\ v \in Touched(job.call.op, job.call.args, job.seen)[d]
        /\ ~Unseen(job.call.op, job.call.args, job.seen, d)
    BY WorldMattersForLookups
  <2> QED
    BY <2>1, <2>2, <2>3, TouchedAdmitted
<1> QED
  BY <1>1, GateInvAlways, PTL

(* A transfer stays inside a declared root, and not the whole disk unless   *)
(* broad scope was accepted.                                                *)
THEOREM TransfersWithinRoots == GateSpec => []LocalWithinRoots
<1>1. GateInv => LocalWithinRoots
  BY PathsInsideRoots DEF GateInv, Justified, Decided, LocalWithinRoots, Ran
<1> QED
  BY <1>1, GateInvAlways, PTL

(* What has run stayed within the policy, in its effects and on the disk.   *)
THEOREM RunsWithinPolicy == GateSpec => []WithinPolicy
BY EffectsAreAdmitted, TransfersWithinRoots, PTL DEF WithinPolicy

(* A destructive call is allowed only after the owner's opt-in, unless it   *)
(* is a request with unbounded methods.                                     *)
THEOREM DestructiveNeedsOptIn == GateSpec => []OptedInUnlessOpen
<1>1. ASSUME GateInv, Decided, job.call.op = "request" => Declared(job.c, "methods"),
             is_destructive(job.call.op, job.call.args) \/ job.c.destructive
      PROVE  job.c.accept
  <2>1. /\ DestructiveOptIn(job.call.op, job.c)
        /\ check_args(job.c, job.call.op, job.call.args, job.seen)
    BY <1>1 DEF GateInv, Justified
  <2>2. could_be_destructive(job.call.op, job.c) \/ job.c.destructive
    BY <1>1, <2>1, EstimateCovers
  <2> QED
    BY <2>1, <2>2 DEF DestructiveOptIn
<1>2. GateInv => OptedInUnlessOpen
  BY <1>1 DEF OptedInUnlessOpen, DestructiveOptedIn
<1> QED
  BY <1>2, GateInvAlways, PTL

(* A working directory that a pattern which means something refuses.        *)
LEMMA CwdMatters ==
  ASSUME NEW c, NEW op, NEW args, NEW site, NEW w, DOMAIN args = Field,
         site.field = "cwd", Bounded(c, op, args, site)
  PROVE  \E other \in Replaced(op, args, site) : ~check_args(c, op, other, w)
<1>1. "cwd" \in Field /\ "cwd" \notin LocalFields(op)
  BY DEF Field, LocalFields
<1>2. Declared(c, "cwd_pattern") /\ ~(Samples \subseteq c.allow["cwd_pattern"])
  BY <1>1 DEF Bounded
<1>3. PICK d \in Samples : d \notin c.allow["cwd_pattern"]
  BY <1>2
<1>4. d \in Value /\ d # Absent
  BY GateConstants, MoreThanNamed
<1> DEFINE other == [args EXCEPT !["cwd"] = d]
<1>5. other \in Replaced(op, args, site)
  BY <1>1, <1>4 DEF Replaced
<1>6. d \in Seen(op, other, w)["cwd_pattern"]
  <2>1. other["cwd"] = d
    BY <1>1
  <2> QED
    BY <1>4, <2>1 DEF Seen, Held
<1>7. "cwd_pattern" \in Bound /\ ~Admits(c, "cwd_pattern", d)
  BY <1>2, <1>3 DEF Admits, Matches, Bound, Plain
<1> QED
  BY <1>5, <1>6, <1>7 DEF check_args

(* A local operand that no root but the whole disk holds.                   *)
LEMMA LocalMatters ==
  ASSUME NEW c, NEW op, NEW args, NEW site, NEW w \in World, DOMAIN args = Field,
         site.field \in LocalFields(op), ~c.broad
  PROVE  \E other \in Replaced(op, args, site) : ~check_args(c, op, other, w)
<1>1. site.field \in Field /\ site.field # "argv"
  BY DEF Field, LocalFields
<1>2. Top \in Path /\ Top \notin S3Uri /\ Top # Absent /\ w.canon[Top] = Top
  BY GateConstants, MoreThanNamed
<1> DEFINE other == [args EXCEPT ![site.field] = Top]
<1>3. other \in Replaced(op, args, site)
  BY <1>1, <1>2 DEF Replaced
<1>4. Held(other, site.field) = {Top}
  <2>1. other[site.field] = Top
    BY <1>1
  <2> QED
    BY <1>2, <2>1 DEF Held
<1>5. Top \in local_operands(op, other)
  BY <1>2, <1>4 DEF local_operands, When
<1>6. ASSUME LocalAllowed(c, op, other, w)
      PROVE  FALSE
  <2>1. /\ RootsUsable(c.allow["local_roots"], c.broad, w)
        /\ is_within_roots(Top, c.allow["local_roots"], w)
    BY <1>5, <1>6 DEF LocalAllowed
  <2>2. PICK r \in c.allow["local_roots"] : <<w.canon[Top], w.canon[r]>> \in Inside
    BY <2>1 DEF is_within_roots
  <2>3. w.canon[r] = Top
    BY <1>2, <2>2, MoreThanNamed
  <2> QED
    BY <2>1, <2>3 DEF RootsUsable
<1> QED
  BY <1>3, <1>6 DEF check_args

(* A URL on a host that no allowlist means.                                 *)
LEMMA UrlMatters ==
  ASSUME NEW list \in Allowlist, NEW op \in DOMAIN list.ops, NEW args, NEW site, NEW w,
         DOMAIN args = Field, op = "request", site.field = "url", ~list.ops[op].broad,
         check_constraints(op, list.ops[op]), Bounded(list.ops[op], op, args, site)
  PROVE  \E other \in Replaced(op, args, site) : ~check_args(list.ops[op], op, other, w)
<1> DEFINE c == list.ops[op]
<1>1. "url" \in Field /\ "url" \notin LocalFields(op)
  BY DEF Field, LocalFields, S3
<1>2. UrlDeclared(c)
  BY <1>1 DEF Bounded
<1>3. ~HasBroad(c, op)
  BY DEF check_constraints
<1>4. Declared(c, "url_pattern_regex") /\ c.allow["url_pattern_regex"] \cap Canary = {}
  BY <1>3 DEF HasBroad, Declared
<1>5. PICK url \in Canary : Declared(c, "endpoints") => url \notin c.allow["endpoints"]
  <2>1. CASE Declared(c, "endpoints")
    BY <2>1, MoreThanNamed DEF Declared
  <2>2. CASE ~Declared(c, "endpoints")
    BY <2>2, MoreThanNamed
  <2> QED
    BY <2>1, <2>2
<1>6. url \in Value /\ url # Absent
  BY GateConstants, MoreThanNamed
<1> DEFINE other == [args EXCEPT !["url"] = url]
<1>7. other \in Replaced(op, args, site)
  BY <1>1, <1>6 DEF Replaced
<1>8. url \in Seen(op, other, w)["url"]
  <2>1. other["url"] = url
    BY <1>1
  <2> QED
    BY <1>6, <2>1 DEF Seen, Held
<1>9. "url" \in Bound /\ ~Admits(c, "url", url)
  BY <1>2, <1>4, <1>5 DEF Admits, Matches, Bound, UrlDims
<1> QED
  BY <1>7, <1>8, <1>9 DEF check_args

(* The elements of an argv are not Absent, and all are read where all are    *)
(* strings.                                                                  *)
LEMMA AllRead ==
  ASSUME NEW argv \in Seq(Token), NonString \notin ToSet(argv)
  PROVE  argv # Absent /\ Strings(argv) = argv /\ \A j \in DOMAIN argv : argv[j] \in AnyToken
BY GateConstants DEF Strings, ToSet, AnyToken

(* An element that every template that matches pins down.                    *)
LEMMA ArgvMatters ==
  ASSUME NEW list \in Allowlist, NEW op \in DOMAIN list.ops, NEW args, NEW site, NEW w,
         DOMAIN args = Field, args["argv"] \in Seq(Token), site.field = "argv",
         site.index \in DOMAIN args["argv"], NonString \notin ToSet(args["argv"]),
         LeftOut(list.ops[op], site.index), Bounded(list.ops[op], op, args, site)
  PROVE  \E other \in Replaced(op, args, site) : ~check_args(list.ops[op], op, other, w)
<1> DEFINE c    == list.ops[op]
           tpls == c.allow["args_constraints"]
           i    == site.index
           argv == args["argv"]
<1>1. "argv" \in Field /\ "argv" \notin LocalFields(op)
  BY DEF Field, LocalFields
<1>2. /\ Declared(c, "args_constraints")
      /\ Pinned({tpl \in tpls : argv_matches_template(Strings(argv), tpl)}, i)
  BY <1>1 DEF Bounded
<1>3. tpls \subseteq Seq(SUBSET Token)
  BY <1>2, MoreThanNamed DEF Declared
<1>4. PICK t \in AnyToken : \A tpl \in tpls : i \in DOMAIN tpl /\ tpl[i] # AnyToken => t \notin tpl[i]
  BY DEF LeftOut
<1> DEFINE new   == [argv EXCEPT ![i] = t]
           other == [args EXCEPT !["argv"] = new]
<1>5. other \in Replaced(op, args, site)
  BY <1>4 DEF Replaced
<1>6. Strings(argv) = argv /\ \A j \in DOMAIN argv : argv[j] \in AnyToken
  BY AllRead
<1>7. /\ new \in Seq(Token) /\ DOMAIN new = DOMAIN argv /\ Len(new) = Len(argv) /\ new[i] = t
      /\ \A j \in DOMAIN argv : j # i => new[j] = argv[j]
  BY <1>4 DEF AnyToken
<1>8. NonString \notin ToSet(new)
  BY <1>4, <1>6, <1>7 DEF ToSet, AnyToken
<1>9. new \in Seen(op, other, w)["argv"]
  <2>1. other["argv"] = new
    BY <1>1
  <2>2. new # Absent /\ Strings(new) = new
    BY <1>7, <1>8, AllRead
  <2> QED
    BY <2>1, <2>2 DEF Seen, Held
<1>10. ASSUME NEW tpl \in tpls, argv_matches_template(new, tpl)
       PROVE  FALSE
  <2>1. /\ Len(argv) = Len(tpl) /\ DOMAIN tpl = DOMAIN argv /\ t \in tpl[i]
        /\ \A j \in DOMAIN argv : j # i => argv[j] \in tpl[j]
    BY <1>3, <1>7, <1>10 DEF argv_matches_template
  <2>2. tpl[i] = AnyToken
    BY <1>4, <2>1
  <2>3. argv_matches_template(argv, tpl)
    BY <1>6, <2>1, <2>2 DEF argv_matches_template
  <2> QED
    BY <1>2, <1>6, <2>2, <2>3 DEF Pinned
<1>11. "argv" \in Bound /\ ~Admits(c, "argv", new)
  BY <1>2, <1>10 DEF Admits, Bound
<1> QED
  BY <1>5, <1>9, <1>11 DEF check_args

(* Where a local variable is substituted, the constraint that position.rs   *)
(* names as the bound of the field refuses some other value.                *)
THEOREM VariablesMatter == GateSpec => []VariableMatters
<1>1. ASSUME GateInv, Decided, NEW site \in job.call.sites,
             Bounding(job.c, job.call.op, job.call.args, site)
      PROVE  \E other \in Replaced(job.call.op, job.call.args, site) :
               ~check_args(job.c, job.call.op, other, job.seen)
  <2>1. PICK op, args : op = job.call.op /\ args = job.call.args
    OBVIOUS
  <2>2. PICK list \in Allowlist : op \in DOMAIN list.ops /\ job.c = list.ops[op]
    BY <1>1, <2>1 DEF GateInv, GateTypeOK, Decided, NoJob
  <2>3. /\ job.call \in Call /\ job.seen \in World
        /\ DOMAIN args = Field /\ args["argv"] \in Seq(Token) \cup {Absent} /\ HasSite(args, site)
    BY <1>1, <2>1, GateConstants DEF GateInv, GateTypeOK, Decided, NoJob
  <2>4. check_constraints(op, job.c) /\ Bounded(job.c, op, args, site)
    BY <1>1, <2>1 DEF GateInv, Justified, PositionsAllowed
  <2>5. CASE site.field = "cwd"
    BY <2>1, <2>3, <2>4, <2>5, CwdMatters
  <2>6. CASE site.field \in LocalFields(op) /\ ~job.c.broad
    BY <2>1, <2>3, <2>6, LocalMatters
  <2>7. CASE site.field = "url" /\ op = "request" /\ ~job.c.broad
    BY <2>1, <2>2, <2>3, <2>4, <2>7, UrlMatters
  <2>8. CASE site.field = "argv" /\ NonString \notin ToSet(args["argv"]) /\ LeftOut(job.c, site.index)
    <3>1. args["argv"] \in Seq(Token) /\ site.index \in DOMAIN args["argv"]
      BY <2>3, <2>8 DEF HasSite
    <3> QED
      BY <2>1, <2>2, <2>3, <2>4, <2>8, <3>1, ArgvMatters
  <2> QED
    BY <1>1, <2>1, <2>5, <2>6, <2>7, <2>8 DEF Bounding
<1>2. GateInv => VariableMatters
  BY <1>1 DEF VariableMatters
<1> QED
  BY <1>2, GateInvAlways, PTL

------------------------------------------------------------------------------
(* The grants.                                                              *)

(* The steps before the lock file, those that revoke and those of a verdict. *)
KeySteps    == {"keys", "rotate", "write-key", "write-pub", "sign"}
RevokeSteps == {"list", "find", "remove", "unlink", "end-session"}
VerifySteps == {"read-grant", "read-session", "apply"}

(* A bypass that has signed a grant and not placed it.                       *)
Pending(p) == cmd[p] = "bypass" /\ pc[p] \in {"open-lock", "flock", "place"}

(* What the files, the clock and the commands hold. *)
ValuesOK ==
  /\ now \in 0..MaxTime /\ session \in BOOLEAN /\ keys \in Nat
  /\ grant \in Grant \cup {NoGrant}
  /\ priv \in Nat \cup {Torn} /\ pub \in Nat \cup {Torn}
  /\ granted \in Nat /\ crowd \subseteq Proc /\ disturbed \in BOOLEAN
  /\ pc \in [Proc -> Label]
  /\ cmd \in [Proc -> {"none", "bypass", "protect", "lock", "verify"}]
  /\ want \in [Proc -> Bypass \cup Request \cup {NoGrant}]
  /\ key \in [Proc -> Nat] /\ mine \in [Proc -> Grant \cup {NoGrant}]
  /\ before \in [Proc -> Nat]

(* What a command holds at each of its steps. *)
ArgsOK ==
  \A p \in Proc :
    /\ pc[p] = "idle" => cmd[p] = "none"
    /\ pc[p] \in KeySteps \cup {"place"} => cmd[p] = "bypass"
    /\ pc[p] \in RevokeSteps => cmd[p] \in {"protect", "lock"}
    /\ pc[p] \in {"open-lock", "flock"} => cmd[p] \in {"bypass", "protect", "lock"}
    /\ pc[p] \in KeySteps => want[p] \in Bypass
    /\ pc[p] \in {"write-key", "write-pub", "sign"} => key[p] \in Key
    /\ pc[p] \in VerifySteps => want[p] \in Request
    /\ pc[p] \in {"read-session", "apply"} \/ Pending(p) => mine[p] \in Grant

(* Who has opened and who holds a lock file. *)
LockOK ==
  /\ pc \in [Proc -> Label]
  /\ LockTypeOK
  /\ \A p \in Proc : pc[p] \in Holding <=> p \in flocked
  /\ \A p \in Proc : pc[p] \in Holding \cup {"flock"} <=> opened[p] # NoInode
  /\ HoldersDiffer

------------------------------------------------------------------------------
(* An edit changes the payload and leaves what was signed, and by which key. *)
LEMMA EditedGrant ==
  ASSUME ValuesOK, NEW payload \in Edited(grant), EditGrant(payload)
  PROVE  /\ grant # NoGrant /\ grant' # NoGrant /\ grant' \in Grant
         /\ grant'.over = grant.over /\ grant'.by = grant.by
         /\ UNCHANGED <<now, session, priv, pub, keys, commands, ghosts, lock>>
<1>1. grant \in Grant
  BY DEF EditGrant, ValuesOK
<1>2. payload \in Payload
  <2>1. PICK r \in Root : payload = [grant.payload EXCEPT !.ops = Op, !.expires = MaxTime + 1,
                                                          !.root = r]
    BY DEF Edited
  <2>2. grant.payload \in Payload
    BY <1>1 DEF Grant
  <2>3. MaxTime + 1 \in Nat
    BY GrantConstants
  <2> QED
    BY <2>1, <2>2, <2>3 DEF Payload
<1>3. grant' \in Grant /\ grant'.over = grant.over /\ grant'.by = grant.by
  BY <1>1, <1>2 DEF EditGrant, Grant
<1> QED
  BY <1>1, <1>3, NoGrantIsNone DEF EditGrant

(* What bypass signs is a grant, with an id that no earlier one has, for no  *)
(* longer than the idle timeout.                                             *)
LEMMA SignedGrant ==
  ASSUME ValuesOK, ArgsOK, NEW p \in Proc, Sign(p)
  PROVE  /\ mine' = [mine EXCEPT ![p] = mine'[p]]
         /\ mine'[p] \in Grant /\ mine'[p] # NoGrant
         /\ mine'[p].over.id = granted + 1
         /\ mine'[p].over.expires <= mine'[p].over.issued + IdleCap
         /\ mine'[p].by = key[p]
         /\ pc[p] = "sign" /\ Goto(p, "open-lock") /\ granted' = granted + 1
         /\ want' = [want EXCEPT ![p] = NoGrant] /\ key' = [key EXCEPT ![p] = NoKey]
         /\ UNCHANGED <<now, session, files, keys, cmd, before, crowd, disturbed, lock>>
<1> DEFINE payload == [id |-> granted + 1, root |-> want[p].root, ops |-> want[p].ops,
                       issued |-> now, expires |-> now + want[p].ttl, key |-> key[p]]
<1>1. want[p] \in Bypass /\ key[p] \in Key
  BY DEF Sign, ArgsOK, KeySteps
<1>2. payload \in Payload /\ payload.expires <= payload.issued + IdleCap
  <2>1. granted + 1 \in Nat \ {0} /\ now \in Nat
    BY DEF ValuesOK
  <2>2. want[p].root \in Root /\ want[p].ops \in SUBSET Op /\ want[p].ttl \in 1..IdleCap
    BY <1>1 DEF Bypass
  <2> QED
    BY <1>1, <2>1, <2>2, GrantConstants DEF Payload
<1>3. mine'[p] = [payload |-> payload, by |-> key[p], over |-> payload]
  BY DEF Sign, ValuesOK
<1>4. mine' = [mine EXCEPT ![p] = mine'[p]]
  BY <1>3 DEF Sign
<1>5. mine'[p] \in Grant
  BY <1>1, <1>2, <1>3 DEF Grant
<1> QED
  BY <1>2, <1>3, <1>4, <1>5, NoGrantIsNone DEF Sign

(* What the hook asks. *)
LEMMA VerdictRequest ==
  ASSUME ValuesOK, NEW p \in Proc, NEW root \in Root, NEW op \in Op, NEW pin \in 1..keys,
         BeginVerify(p, root, op, pin)
  PROVE  want'[p] \in Request /\ want' = [want EXCEPT ![p] = want'[p]]
         /\ pc[p] = "idle" /\ Goto(p, "read-grant") /\ cmd' = [cmd EXCEPT ![p] = "verify"]
         /\ UNCHANGED <<now, session, files, keys, key, mine, before, ghosts, lock>>
<1>1. [root |-> root, op |-> op, key |-> pin, at |-> now] \in Request
  BY DEF Request, ValuesOK, Key, NoKey
<1> QED
  BY <1>1 DEF BeginVerify, Begin, ValuesOK, ghosts

(* Every step keeps the values well formed. *)
LEMMA ValuesKept ==
  ASSUME ValuesOK, ArgsOK, [GrantsNext]_allvars
  PROVE  ValuesOK'
<1> USE DEF ValuesOK, Label, files, commands, ghosts, Goto, NoKey
<1>1. ASSUME NEW p \in Proc, Command(p) \/ CommandStep(p) \/ Fail(p) \/ FailRevokeAll(p)
      PROVE  ValuesOK'
  <2>1. CASE \E args \in Bypass, rotate \in BOOLEAN : BeginBypass(p, args, rotate)
    BY <2>1 DEF BeginBypass, Begin, Running
  <2>2. CASE BeginProtect(p) \/ BeginLock(p)
    BY <2>2 DEF BeginProtect, BeginLock, Begin, GrantId, Grant, Payload
  <2>3. CASE \E root \in Root, op \in Op, pin \in 1..keys : BeginVerify(p, root, op, pin)
    BY <2>3, VerdictRequest
  <2>4. CASE LoadKey(p) \/ Generate(p)
    BY <2>4 DEF LoadKey, Generate
  <2>5. CASE WriteKey(p)
    BY <2>5 DEF WriteKey
  <2>6. CASE WritePub(p)
    BY <2>6 DEF WritePub
  <2>7. CASE Sign(p)
    BY <2>7, SignedGrant
  <2>8. CASE TakeLockFile(p) \/ WaitForLock(p) \/ ListGrants(p) \/ FindGrant(p)
    BY <2>8 DEF TakeLockFile, WaitForLock, ListGrants, FindGrant
  <2>9. CASE Place(p)
    BY <2>9 DEF Place, End, ArgsOK, Pending
  <2>10. CASE RemoveGrant(p) \/ ReadSession(p)
    BY <2>10 DEF RemoveGrant, ReadSession
  <2>11. CASE ReadGrant(p)
    BY <2>11 DEF ReadGrant, GrantFound
  <2>12. CASE KeyUnreadable(p) \/ UnlinkProtect(p)
    BY <2>12 DEF KeyUnreadable, UnlinkProtect, End
  <2>13. CASE EndSession(p)
    BY <2>13 DEF EndSession, End
  <2>14. CASE Answer(p)
    BY <2>14 DEF Answer, End
  <2>15. CASE AlreadyGone(p)
    BY <2>15 DEF AlreadyGone, End, LockGoesOn
  <2>16. CASE UnlinkLock(p)
    BY <2>16 DEF UnlinkLock
  <2>17. CASE FailRevokeAll(p)
    BY <2>17 DEF FailRevokeAll, LockGoesOn
  <2>18. CASE Fail(p)
    BY <2>18 DEF Fail, End
  <2> QED
    BY <1>1, <2>1, <2>2, <2>3, <2>4, <2>5, <2>6, <2>7, <2>8, <2>9, <2>10, <2>11, <2>12,
       <2>13, <2>14, <2>15, <2>16, <2>17, <2>18
    DEF Command, CommandStep
<1>2. CASE SessionChanges \/ Tick \/ UNCHANGED allvars
  <2>1. UNCHANGED <<files, keys, commands, ghosts>>
    BY <1>2 DEF SessionChanges, Tick, allvars
  <2>2. now' \in 0..MaxTime
    BY <1>2, GrantConstants DEF SessionChanges, Tick, allvars
  <2>3. session' \in BOOLEAN
    BY <1>2 DEF SessionChanges, Tick, allvars
  <2> QED
    BY <2>1, <2>2, <2>3
<1>3. ASSUME NEW payload \in Edited(grant), EditGrant(payload)
      PROVE  ValuesOK'
  BY <1>3, EditedGrant
<1> QED
  BY <1>1, <1>2, <1>3 DEF GrantsNext

------------------------------------------------------------------------------
(* Every step leaves the commands with what their next steps need.           *)
LEMMA ArgsKept ==
  ASSUME ValuesOK, ArgsOK, [GrantsNext]_allvars
  PROVE  ArgsOK'
<1> USE DEF ValuesOK, ArgsOK, Pending, KeySteps, RevokeSteps, VerifySteps, files,
            commands, ghosts, Goto
<1>1. ASSUME NEW p \in Proc, Command(p) \/ CommandStep(p) \/ Fail(p) \/ FailRevokeAll(p)
      PROVE  ArgsOK'
  <2>1. CASE \E args \in Bypass, rotate \in BOOLEAN : BeginBypass(p, args, rotate)
    BY <2>1 DEF BeginBypass, Begin
  <2>2. CASE BeginProtect(p) \/ BeginLock(p)
    BY <2>2 DEF BeginProtect, BeginLock, Begin
  <2>3. CASE \E root \in Root, op \in Op, pin \in 1..keys : BeginVerify(p, root, op, pin)
    BY <2>3, VerdictRequest
  <2>4. CASE LoadKey(p)
    BY <2>4 DEF LoadKey, HasKeys, NoKey, Key
  <2>5. CASE Generate(p)
    BY <2>5 DEF Generate, NoKey, Key
  <2>6. CASE WriteKey(p) \/ WritePub(p)
    BY <2>6 DEF WriteKey, WritePub
  <2>7. CASE Sign(p)
    BY <2>7, SignedGrant DEF NoKey
  <2>8. CASE TakeLockFile(p)
    BY <2>8 DEF TakeLockFile
  <2>9. CASE WaitForLock(p)
    BY <2>9 DEF WaitForLock
  <2>10. CASE ListGrants(p)
    BY <2>10 DEF ListGrants
  <2>11. CASE FindGrant(p)
    BY <2>11 DEF FindGrant
  <2>12. CASE Place(p)
    BY <2>12 DEF Place, End
  <2>13. CASE RemoveGrant(p)
    BY <2>13 DEF RemoveGrant
  <2>14. CASE ReadSession(p)
    BY <2>14 DEF ReadSession
  <2>15. CASE ReadGrant(p)
    BY <2>15 DEF ReadGrant, GrantFound
  <2>16. CASE KeyUnreadable(p)
    BY <2>16 DEF KeyUnreadable, End
  <2>17. CASE UnlinkProtect(p)
    BY <2>17 DEF UnlinkProtect, End
  <2>18. CASE EndSession(p)
    BY <2>18 DEF EndSession, End
  <2>19. CASE Answer(p)
    BY <2>19 DEF Answer, End
  <2>20. CASE AlreadyGone(p)
    BY <2>20 DEF AlreadyGone, End, LockGoesOn
  <2>21. CASE UnlinkLock(p)
    BY <2>21 DEF UnlinkLock
  <2>22. CASE FailRevokeAll(p)
    BY <2>22 DEF FailRevokeAll, LockGoesOn
  <2>23. CASE Fail(p)
    BY <2>23 DEF Fail, End
  <2> QED
    BY <1>1, <2>1, <2>2, <2>3, <2>4, <2>5, <2>6, <2>7, <2>8, <2>9, <2>10, <2>11, <2>12,
       <2>13, <2>14, <2>15, <2>16, <2>17, <2>18, <2>19, <2>20, <2>21, <2>22, <2>23
    DEF Command, CommandStep
<1>2. CASE SessionChanges \/ Tick \/ UNCHANGED allvars
  BY <1>2 DEF SessionChanges, Tick, allvars
<1>3. ASSUME NEW payload \in Edited(grant), EditGrant(payload)
      PROVE  ArgsOK'
  BY <1>3, EditedGrant
<1> QED
  BY <1>1, <1>2, <1>3 DEF GrantsNext

------------------------------------------------------------------------------
(* The lock.                                                                 *)

(* Steps that move a command without touching the lock. *)
SameSide(l, m) == /\ l \in Holding <=> m \in Holding
                  /\ l = "flock" <=> m = "flock"

LEMMA MoveKeepsLock ==
  ASSUME LockOK, NEW p \in Proc, NEW label \in Label, Goto(p, label),
         SameSide(pc[p], label), UNCHANGED <<opened, flocked>>,
         lockfile' \in Inode \cup {NoInode}
  PROVE  LockOK'
BY DEF LockOK, Goto, SameSide, LockTypeOK, HoldersDiffer

(* A command that closes its lock file, if it has any, goes where none is    *)
(* needed.                                                                   *)
LEMMA CloseKeepsLock ==
  ASSUME LockOK, NEW p \in Proc, NEW label \in {"idle", "end-session"}, Goto(p, label),
         CloseLock(p), lockfile' \in Inode \cup {NoInode}
  PROVE  LockOK'
BY LockConstants DEF LockOK, Goto, CloseLock, LockTypeOK, HoldersDiffer, Holding, Label

LEMMA TakeKeepsLock ==
  ASSUME LockOK, NEW p \in Proc, TakeLockFile(p)
  PROVE  LockOK'
<1>1. lockfile' \in Inode
  BY DEF TakeLockFile, OpenLock, Unused, LockOK, LockTypeOK
<1> QED
  BY <1>1, LockConstants
  DEF TakeLockFile, OpenLock, LockOK, Goto, LockTypeOK, HoldersDiffer, Holding, Label

LEMMA WaitKeepsLock ==
  ASSUME LockOK, NEW p \in Proc, WaitForLock(p)
  PROVE  LockOK'
BY DEF WaitForLock, Flock, LockOK, Goto, LockTypeOK, HoldersDiffer, Holding, Label

(* Every step keeps the lock. *)
LEMMA LockKept ==
  ASSUME ValuesOK, ArgsOK, LockOK, [GrantsNext]_allvars
  PROVE  LockOK'
<1> USE DEF lock
<1>0. lockfile \in Inode \cup {NoInode}
  BY DEF LockOK, LockTypeOK
<1>1. ASSUME NEW p \in Proc, Command(p) \/ CommandStep(p) \/ Fail(p) \/ FailRevokeAll(p)
      PROVE  LockOK'
  <2>1. CASE \E args \in Bypass, rotate \in BOOLEAN : BeginBypass(p, args, rotate)
    BY <2>1, <1>0, MoveKeepsLock DEF BeginBypass, SameSide, Label, Holding, lock, Begin
  <2>2. CASE BeginProtect(p)
    BY <2>2, <1>0, MoveKeepsLock DEF BeginProtect, SameSide, Label, Holding, lock, Begin
  <2>3. CASE BeginLock(p)
    BY <2>3, <1>0, MoveKeepsLock DEF BeginLock, SameSide, Label, Holding, lock, Begin
  <2>4. CASE \E root \in Root, op \in Op, pin \in 1..keys : BeginVerify(p, root, op, pin)
    BY <2>4, <1>0, MoveKeepsLock DEF BeginVerify, SameSide, Label, Holding, lock, Begin
  <2>5. CASE LoadKey(p)
    BY <2>5, <1>0, MoveKeepsLock DEF LoadKey, SameSide, Label, Holding, lock
  <2>6. CASE Generate(p)
    BY <2>6, <1>0, MoveKeepsLock DEF Generate, SameSide, Label, Holding, lock
  <2>7. CASE WriteKey(p)
    BY <2>7, <1>0, MoveKeepsLock DEF WriteKey, SameSide, Label, Holding, lock
  <2>8. CASE WritePub(p)
    BY <2>8, <1>0, MoveKeepsLock DEF WritePub, SameSide, Label, Holding, lock
  <2>9. CASE Sign(p)
    BY <2>9, <1>0, MoveKeepsLock DEF Sign, SameSide, Label, Holding, lock
  <2>10. CASE TakeLockFile(p)
    BY <2>10, TakeKeepsLock DEF TakeLockFile
  <2>11. CASE WaitForLock(p)
    BY <2>11, WaitKeepsLock DEF WaitForLock
  <2>12. CASE ListGrants(p)
    BY <2>12, <1>0, MoveKeepsLock DEF ListGrants, SameSide, Label, Holding, lock
  <2>13. CASE FindGrant(p)
    BY <2>13, <1>0, MoveKeepsLock DEF FindGrant, SameSide, Label, Holding, lock
  <2>14. CASE RemoveGrant(p)
    BY <2>14, <1>0, MoveKeepsLock DEF RemoveGrant, SameSide, Label, Holding, lock
  <2>15. CASE ReadGrant(p)
    BY <2>15, <1>0, MoveKeepsLock DEF ReadGrant, SameSide, Label, Holding, lock
  <2>16. CASE ReadSession(p)
    BY <2>16, <1>0, MoveKeepsLock DEF ReadSession, SameSide, Label, Holding, lock
  <2>17. CASE Place(p)
    BY <2>17, <1>0, CloseKeepsLock DEF Place, End
  <2>18. CASE KeyUnreadable(p)
    BY <2>18, <1>0, CloseKeepsLock DEF KeyUnreadable, End
  <2>19. CASE UnlinkProtect(p)
    BY <2>19, <1>0, CloseKeepsLock DEF UnlinkProtect, End, Unlink
  <2>20. CASE EndSession(p)
    BY <2>20, <1>0, CloseKeepsLock DEF EndSession, End
  <2>21. CASE Answer(p)
    BY <2>21, <1>0, CloseKeepsLock DEF Answer, End
  <2>22. CASE AlreadyGone(p)
    BY <2>22, <1>0, CloseKeepsLock DEF AlreadyGone, End, LockGoesOn
  <2>23. CASE UnlinkLock(p)
    BY <2>23, <1>0, CloseKeepsLock DEF UnlinkLock, Unlink
  <2>24. CASE FailRevokeAll(p)
    BY <2>24, <1>0, CloseKeepsLock DEF FailRevokeAll, LockGoesOn
  <2>25. CASE Fail(p)
    BY <2>25, <1>0, CloseKeepsLock DEF Fail, End
  <2> QED
    BY <1>1, <2>1, <2>2, <2>3, <2>4, <2>5, <2>6, <2>7, <2>8, <2>9, <2>10, <2>11, <2>12,
       <2>13, <2>14, <2>15, <2>16, <2>17, <2>18, <2>19, <2>20, <2>21, <2>22, <2>23,
       <2>24, <2>25
    DEF Command, CommandStep
<1>2. CASE SessionChanges \/ Tick \/ UNCHANGED allvars
  <2>1. pc' = pc /\ UNCHANGED lock
    BY <1>2 DEF SessionChanges, Tick, allvars, commands
  <2> QED
    BY <2>1 DEF LockOK, LockTypeOK, HoldersDiffer
<1>3. ASSUME NEW payload \in Edited(grant), EditGrant(payload)
      PROVE  LockOK'
  <2>1. pc' = pc /\ UNCHANGED lock
    BY <1>3 DEF EditGrant, commands
  <2> QED
    BY <2>1 DEF LockOK, LockTypeOK, HoldersDiffer
<1> QED
  BY <1>1, <1>2, <1>3 DEF GrantsNext

------------------------------------------------------------------------------
(* The invariants behind the properties.                                     *)

(* No grant was signed for longer than the idle timeout. *)
Capped ==
  /\ grant # NoGrant => grant.over.expires <= grant.over.issued + IdleCap
  /\ \A p \in Proc : mine[p] # NoGrant => mine[p].over.expires <= mine[p].over.issued + IdleCap

(* What a verdict in progress has checked so far. *)
Checked ==
  \A p \in Proc :
    /\ pc[p] \in {"read-session", "apply"} => GrantGood(mine[p], want[p])
    /\ pc[p] = "apply" => want[p].op \in mine[p].payload.ops

(* A grant signed and not placed is known to nobody else: it is not on disk, *)
(* no revocation began with it.                                              *)
Fresh ==
  /\ grant # NoGrant => grant.over.id <= granted
  /\ \A p \in Proc : before[p] <= granted
  /\ \A p \in Proc : Pending(p) =>
       /\ mine[p].over.id <= granted
       /\ grant # NoGrant => grant.over.id # mine[p].over.id
       /\ \A q \in Proc : before[q] # mine[p].over.id
       /\ \A q \in Proc : Pending(q) /\ q # p => mine[q].over.id # mine[p].over.id

(* Of two bypasses at work each is in the crowd. *)
CrowdOK ==
  /\ \A p \in crowd : cmd[p] = "bypass"
  /\ \A p, q \in Proc : cmd[p] = "bypass" /\ cmd[q] = "bypass" /\ p # q => p \in crowd

(* What a bypass that has always been alone has done to the key files.       *)
AloneOK ==
  \A p \in Proc \ crowd :
    /\ pc[p] = "write-pub" => priv = key[p]
    /\ pc[p] = "sign" /\ ~disturbed => priv = pub /\ pub = key[p]
    /\ Pending(p) /\ ~disturbed => priv = pub /\ pub = mine[p].by

(* The files agree, or some bypass at work is the reason why they do not.    *)
Settled   == priv = pub /\ (grant # NoGrant => grant.by = pub)
Midway(p) == \/ pc[p] = "write-pub"
             \/ pc[p] = "sign" /\ priv = pub /\ pub = key[p]
             \/ Pending(p) /\ priv = pub /\ pub = mine[p].by
Explained == ~disturbed => Settled \/ \E p \in Proc : Midway(p)

(* Grants stay capped, and verdicts checked. *)
LEMMA CheckedKept ==
  ASSUME ValuesOK, ArgsOK, Capped /\ Checked, [GrantsNext]_allvars
  PROVE  (Capped /\ Checked)'
<1> USE DEF ValuesOK, Capped, Checked, files, commands, ghosts, Goto
<1>1. ASSUME NEW p \in Proc, Command(p) \/ CommandStep(p) \/ Fail(p) \/ FailRevokeAll(p)
      PROVE  (Capped /\ Checked)'
  <2>1. CASE \E args \in Bypass, rotate \in BOOLEAN : BeginBypass(p, args, rotate)
    BY <2>1 DEF BeginBypass, Begin
  <2>2. CASE BeginProtect(p) \/ BeginLock(p)
    BY <2>2 DEF BeginProtect, BeginLock, Begin
  <2>3. CASE \E root \in Root, op \in Op, pin \in 1..keys : BeginVerify(p, root, op, pin)
    BY <2>3, VerdictRequest
  <2>4. CASE LoadKey(p)
    BY <2>4 DEF LoadKey
  <2>5. CASE KeyUnreadable(p) \/ UnlinkProtect(p) \/ EndSession(p) \/ Answer(p)
    BY <2>5 DEF KeyUnreadable, UnlinkProtect, EndSession, Answer, End
  <2>6. CASE Generate(p)
    BY <2>6 DEF Generate
  <2>7. CASE WriteKey(p)
    BY <2>7 DEF WriteKey
  <2>8. CASE WritePub(p)
    BY <2>8 DEF WritePub
  <2>9. CASE Sign(p)
    BY <2>9, SignedGrant
  <2>10. CASE TakeLockFile(p) \/ WaitForLock(p) \/ ListGrants(p) \/ FindGrant(p)
    BY <2>10 DEF TakeLockFile, WaitForLock, ListGrants, FindGrant
  <2>11. CASE Place(p)
    BY <2>11 DEF Place, End
  <2>12. CASE RemoveGrant(p)
    BY <2>12 DEF RemoveGrant
  <2>13. CASE AlreadyGone(p)
    BY <2>13 DEF AlreadyGone, End, LockGoesOn
  <2>14. CASE UnlinkLock(p) \/ FailRevokeAll(p)
    BY <2>14 DEF UnlinkLock, FailRevokeAll, LockGoesOn
  <2>15. CASE ReadGrant(p) \/ ReadSession(p)
    BY <2>15 DEF ReadGrant, ReadSession, GrantFound, Relaxed
  <2>16. CASE Fail(p)
    BY <2>16 DEF Fail, End
  <2> QED
    BY <1>1, <2>1, <2>2, <2>3, <2>4, <2>5, <2>6, <2>7, <2>8, <2>9, <2>10, <2>11, <2>12,
       <2>13, <2>14, <2>15, <2>16
    DEF Command, CommandStep
<1>2. CASE SessionChanges \/ Tick \/ UNCHANGED allvars
  BY <1>2 DEF SessionChanges, Tick, allvars, GrantGood, verify_signature
<1>3. ASSUME NEW payload \in Edited(grant), EditGrant(payload)
      PROVE  (Capped /\ Checked)'
  BY <1>3, EditedGrant DEF GrantGood, verify_signature
<1> QED
  BY <1>1, <1>2, <1>3 DEF GrantsNext

(* Ids are fresh, and what was revoked stays away. *)
LEMMA FreshKept ==
  ASSUME ValuesOK, ArgsOK, Fresh /\ RevokedIsGone, [GrantsNext]_allvars
  PROVE  (Fresh /\ RevokedIsGone)'
<1> USE DEF ValuesOK, Fresh, RevokedIsGone, Pending, files, commands, ghosts, Goto
<1>0. /\ grant # NoGrant => grant.over.id \in Nat \ {0}
      /\ \A p \in Proc : Pending(p) => mine[p].over.id \in Nat \ {0}
  BY DEF ArgsOK, Grant, Payload
<1>1. ASSUME NEW p \in Proc, Command(p) \/ CommandStep(p) \/ Fail(p) \/ FailRevokeAll(p)
      PROVE  (Fresh /\ RevokedIsGone)'
  <2>1. CASE \E args \in Bypass, rotate \in BOOLEAN : BeginBypass(p, args, rotate)
    BY <2>1, <1>0 DEF BeginBypass, Begin
  <2>2. CASE BeginProtect(p) \/ BeginLock(p)
    BY <2>2, <1>0 DEF BeginProtect, BeginLock, Begin, GrantId
  <2>3. CASE \E root \in Root, op \in Op, pin \in 1..keys : BeginVerify(p, root, op, pin)
    BY <2>3, VerdictRequest, <1>0
  <2>4. CASE LoadKey(p)
    BY <2>4, <1>0 DEF LoadKey
  <2>5. CASE KeyUnreadable(p) \/ UnlinkProtect(p) \/ EndSession(p) \/ Answer(p)
    BY <2>5, <1>0 DEF KeyUnreadable, UnlinkProtect, EndSession, Answer, End
  <2>6. CASE Generate(p)
    BY <2>6, <1>0 DEF Generate
  <2>7. CASE WriteKey(p)
    BY <2>7, <1>0 DEF WriteKey
  <2>8. CASE WritePub(p)
    BY <2>8, <1>0 DEF WritePub
  <2>9. CASE Sign(p)
    BY <2>9, SignedGrant, <1>0
  <2>10. CASE TakeLockFile(p) \/ WaitForLock(p) \/ ListGrants(p) \/ FindGrant(p)
    BY <2>10, <1>0
    DEF TakeLockFile, WaitForLock, ListGrants, FindGrant, ArgsOK, RevokeSteps
  <2>11. CASE Place(p)
    BY <2>11, <1>0 DEF Place, End, ArgsOK, RevokeSteps
  <2>12. CASE RemoveGrant(p)
    BY <2>12, <1>0 DEF RemoveGrant
  <2>13. CASE AlreadyGone(p)
    BY <2>13, <1>0 DEF AlreadyGone, End, LockGoesOn, ArgsOK, RevokeSteps
  <2>14. CASE UnlinkLock(p) \/ FailRevokeAll(p)
    BY <2>14, <1>0 DEF UnlinkLock, FailRevokeAll, LockGoesOn, ArgsOK, RevokeSteps
  <2>15. CASE ReadGrant(p) \/ ReadSession(p)
    BY <2>15, <1>0 DEF ReadGrant, ReadSession
  <2>16. CASE Fail(p)
    BY <2>16, <1>0 DEF Fail, End
  <2> QED
    BY <1>1, <2>1, <2>2, <2>3, <2>4, <2>5, <2>6, <2>7, <2>8, <2>9, <2>10, <2>11, <2>12,
       <2>13, <2>14, <2>15, <2>16
    DEF Command, CommandStep
<1>2. CASE SessionChanges \/ Tick \/ UNCHANGED allvars
  BY <1>2 DEF SessionChanges, Tick, allvars
<1>3. ASSUME NEW payload \in Edited(grant), EditGrant(payload)
      PROVE  (Fresh /\ RevokedIsGone)'
  BY <1>3, EditedGrant
<1> QED
  BY <1>1, <1>2, <1>3 DEF GrantsNext

(* The crowd holds every bypass that met another. *)
LEMMA CrowdKept ==
  ASSUME ValuesOK, ArgsOK, CrowdOK, [GrantsNext]_allvars
  PROVE  CrowdOK'
<1> USE DEF ValuesOK, ArgsOK, CrowdOK, Running, RevokeSteps, KeySteps, VerifySteps,
            files, commands, ghosts, Goto
<1>1. ASSUME NEW p \in Proc, Command(p) \/ CommandStep(p) \/ Fail(p) \/ FailRevokeAll(p)
      PROVE  CrowdOK'
  <2>1. CASE \E args \in Bypass, rotate \in BOOLEAN : BeginBypass(p, args, rotate)
    BY <2>1 DEF BeginBypass, Begin
  <2>2. CASE BeginProtect(p) \/ BeginLock(p)
    BY <2>2 DEF BeginProtect, BeginLock, Begin
  <2>3. CASE \E root \in Root, op \in Op, pin \in 1..keys : BeginVerify(p, root, op, pin)
    BY <2>3, VerdictRequest
  <2>4. CASE LoadKey(p)
    BY <2>4 DEF LoadKey
  <2>5. CASE KeyUnreadable(p) \/ UnlinkProtect(p) \/ EndSession(p) \/ Answer(p)
    BY <2>5 DEF KeyUnreadable, UnlinkProtect, EndSession, Answer, End
  <2>6. CASE Generate(p)
    BY <2>6 DEF Generate
  <2>7. CASE WriteKey(p)
    BY <2>7 DEF WriteKey
  <2>8. CASE WritePub(p)
    BY <2>8 DEF WritePub
  <2>9. CASE Sign(p)
    BY <2>9, SignedGrant
  <2>10. CASE TakeLockFile(p) \/ WaitForLock(p) \/ ListGrants(p) \/ FindGrant(p)
    BY <2>10 DEF TakeLockFile, WaitForLock, ListGrants, FindGrant
  <2>11. CASE Place(p)
    BY <2>11 DEF Place, End
  <2>12. CASE RemoveGrant(p)
    BY <2>12 DEF RemoveGrant
  <2>13. CASE AlreadyGone(p)
    BY <2>13 DEF AlreadyGone, End, LockGoesOn
  <2>14. CASE UnlinkLock(p) \/ FailRevokeAll(p)
    BY <2>14 DEF UnlinkLock, FailRevokeAll, LockGoesOn
  <2>15. CASE ReadGrant(p) \/ ReadSession(p)
    BY <2>15 DEF ReadGrant, ReadSession
  <2>16. CASE Fail(p)
    BY <2>16 DEF Fail, End
  <2> QED
    BY <1>1, <2>1, <2>2, <2>3, <2>4, <2>5, <2>6, <2>7, <2>8, <2>9, <2>10, <2>11, <2>12,
       <2>13, <2>14, <2>15, <2>16
    DEF Command, CommandStep
<1>2. CASE SessionChanges \/ Tick \/ UNCHANGED allvars
  BY <1>2 DEF SessionChanges, Tick, allvars
<1>3. ASSUME NEW payload \in Edited(grant), EditGrant(payload)
      PROVE  CrowdOK'
  BY <1>3, EditedGrant
<1> QED
  BY <1>1, <1>2, <1>3 DEF GrantsNext

(* Nobody interferes with a bypass that is alone. *)
LEMMA AloneKept ==
  ASSUME ValuesOK, ArgsOK, CrowdOK, AloneOK, Explained, [GrantsNext]_allvars
  PROVE  AloneOK'
<1> USE DEF ValuesOK, ArgsOK, CrowdOK, AloneOK, Pending, Running, RevokeSteps, KeySteps,
            VerifySteps, files, commands, ghosts, Goto
<1>1. ASSUME NEW p \in Proc, Command(p) \/ CommandStep(p) \/ Fail(p) \/ FailRevokeAll(p)
      PROVE  AloneOK'
  <2>1. CASE \E args \in Bypass, rotate \in BOOLEAN : BeginBypass(p, args, rotate)
    BY <2>1 DEF BeginBypass, Begin
  <2>2. CASE BeginProtect(p) \/ BeginLock(p)
    BY <2>2 DEF BeginProtect, BeginLock, Begin
  <2>3. CASE \E root \in Root, op \in Op, pin \in 1..keys : BeginVerify(p, root, op, pin)
    BY <2>3, VerdictRequest
  <2>4. CASE LoadKey(p)
    BY <2>4 DEF LoadKey, Explained, Settled, Midway
  <2>5. CASE KeyUnreadable(p) \/ UnlinkProtect(p) \/ EndSession(p) \/ Answer(p)
    BY <2>5 DEF KeyUnreadable, UnlinkProtect, EndSession, Answer, End
  <2>6. CASE Generate(p)
    BY <2>6 DEF Generate
  <2>7. CASE WriteKey(p)
    BY <2>7 DEF WriteKey
  <2>8. CASE WritePub(p)
    BY <2>8 DEF WritePub
  <2>9. CASE Sign(p)
    BY <2>9, SignedGrant
  <2>10. CASE TakeLockFile(p) \/ WaitForLock(p) \/ ListGrants(p) \/ FindGrant(p)
    BY <2>10 DEF TakeLockFile, WaitForLock, ListGrants, FindGrant
  <2>11. CASE Place(p)
    BY <2>11 DEF Place, End
  <2>12. CASE RemoveGrant(p)
    BY <2>12 DEF RemoveGrant
  <2>13. CASE AlreadyGone(p)
    BY <2>13 DEF AlreadyGone, End, LockGoesOn
  <2>14. CASE UnlinkLock(p) \/ FailRevokeAll(p)
    BY <2>14 DEF UnlinkLock, FailRevokeAll, LockGoesOn
  <2>15. CASE ReadGrant(p) \/ ReadSession(p)
    BY <2>15 DEF ReadGrant, ReadSession
  <2>16. CASE Fail(p)
    BY <2>16 DEF Fail, End
  <2> QED
    BY <1>1, <2>1, <2>2, <2>3, <2>4, <2>5, <2>6, <2>7, <2>8, <2>9, <2>10, <2>11, <2>12,
       <2>13, <2>14, <2>15, <2>16
    DEF Command, CommandStep
<1>2. CASE SessionChanges \/ Tick \/ UNCHANGED allvars
  BY <1>2 DEF SessionChanges, Tick, allvars
<1>3. ASSUME NEW payload \in Edited(grant), EditGrant(payload)
      PROVE  AloneOK'
  BY <1>3, EditedGrant
<1> QED
  BY <1>1, <1>2, <1>3 DEF GrantsNext

(* Files that do not agree stay explained. *)
LEMMA ExplainedKept ==
  ASSUME ValuesOK, ArgsOK, CrowdOK, AloneOK, Explained, [GrantsNext]_allvars
  PROVE  Explained'
<1> USE DEF ValuesOK, ArgsOK, CrowdOK, Explained, Settled, Midway, Pending, RevokeSteps,
            KeySteps, VerifySteps, files, commands, ghosts, Goto
<1>1. ASSUME NEW p \in Proc, Command(p) \/ CommandStep(p) \/ Fail(p) \/ FailRevokeAll(p)
      PROVE  Explained'
  <2>1. CASE \E args \in Bypass, rotate \in BOOLEAN : BeginBypass(p, args, rotate)
    BY <2>1 DEF BeginBypass, Begin
  <2>2. CASE BeginProtect(p) \/ BeginLock(p)
    BY <2>2 DEF BeginProtect, BeginLock, Begin
  <2>3. CASE \E root \in Root, op \in Op, pin \in 1..keys : BeginVerify(p, root, op, pin)
    BY <2>3, VerdictRequest
  <2>4. CASE LoadKey(p)
    BY <2>4 DEF LoadKey
  <2>5. CASE KeyUnreadable(p) \/ UnlinkProtect(p) \/ EndSession(p) \/ Answer(p)
    BY <2>5 DEF KeyUnreadable, UnlinkProtect, EndSession, Answer, End
  <2>6. CASE Generate(p)
    BY <2>6 DEF Generate
  <2>7. CASE WriteKey(p)
    BY <2>7 DEF WriteKey
  <2>8. CASE WritePub(p)
    BY <2>8 DEF WritePub, AloneOK
  <2>9. CASE Sign(p)
    BY <2>9, SignedGrant
  <2>10. CASE TakeLockFile(p) \/ WaitForLock(p) \/ ListGrants(p) \/ FindGrant(p)
    BY <2>10 DEF TakeLockFile, WaitForLock, ListGrants, FindGrant
  <2>11. CASE Place(p)
    BY <2>11 DEF Place, End, AloneOK
  <2>12. CASE RemoveGrant(p)
    BY <2>12 DEF RemoveGrant
  <2>13. CASE AlreadyGone(p)
    BY <2>13 DEF AlreadyGone, End, LockGoesOn
  <2>14. CASE UnlinkLock(p) \/ FailRevokeAll(p)
    BY <2>14 DEF UnlinkLock, FailRevokeAll, LockGoesOn
  <2>15. CASE ReadGrant(p) \/ ReadSession(p)
    BY <2>15 DEF ReadGrant, ReadSession
  <2>16. CASE Fail(p)
    BY <2>16 DEF Fail, End, LeavesHalf
  <2> QED
    BY <1>1, <2>1, <2>2, <2>3, <2>4, <2>5, <2>6, <2>7, <2>8, <2>9, <2>10, <2>11, <2>12,
       <2>13, <2>14, <2>15, <2>16
    DEF Command, CommandStep
<1>2. CASE SessionChanges \/ Tick \/ UNCHANGED allvars
  BY <1>2 DEF SessionChanges, Tick, allvars
<1>3. ASSUME NEW payload \in Edited(grant), EditGrant(payload)
      PROVE  Explained'
  BY <1>3, EditedGrant
<1> QED
  BY <1>1, <1>2, <1>3 DEF GrantsNext

------------------------------------------------------------------------------
(* The theorems.                                                             *)

GrantsInv ==
  /\ ValuesOK /\ ArgsOK /\ LockOK
  /\ Capped /\ Checked
  /\ Fresh /\ RevokedIsGone
  /\ CrowdOK /\ AloneOK /\ Explained

LEMMA InitGrantsInv == GrantsInit => GrantsInv
<1> SUFFICES ASSUME GrantsInit PROVE GrantsInv
  OBVIOUS
<1> USE DEF GrantsInit, LockInit, NoKey
<1>1. ValuesOK /\ ArgsOK
  <2>1. 0 \in 0..MaxTime
    BY GrantConstants
  <2> QED
    BY <2>1 DEF ValuesOK, ArgsOK, Label, KeySteps, RevokeSteps, VerifySteps, Pending
<1>2. LockOK
  BY DEF LockOK, LockTypeOK, HoldersDiffer, Label, Holding
<1>3. Capped /\ Checked /\ Fresh /\ RevokedIsGone
  BY DEF Capped, Checked, Fresh, RevokedIsGone, Pending
<1>4. CrowdOK /\ AloneOK /\ Explained
  BY DEF CrowdOK, AloneOK, Explained, Settled, Pending
<1> QED
  BY <1>1, <1>2, <1>3, <1>4 DEF GrantsInv

LEMMA GrantsInvKept == GrantsInv /\ [GrantsNext]_allvars => GrantsInv'
BY ValuesKept, ArgsKept, LockKept, CheckedKept, FreshKept, CrowdKept, AloneKept, ExplainedKept
DEF GrantsInv

LEMMA GrantsInvHolds == GrantsSpec => []GrantsInv
BY InitGrantsInv, GrantsInvKept, PTL DEF GrantsSpec

(* Every command keeps values of the right kind, and the lock file it opened *)
(* and holds at the steps that need it, alone among those of one file.       *)
THEOREM GrantTypeCorrect == GrantsSpec => []GrantTypeOK
<1>1. GrantsInv => GrantTypeOK
  BY DEF GrantsInv, ValuesOK, LockOK, GrantTypeOK
<1> QED
  BY <1>1, GrantsInvHolds, PTL

(* A verdict of apply rests on a grant as it was signed, for the workspace,  *)
(* operation and key asked about, within its time.                           *)
THEOREM VerdictsRestOnGrants == GrantsSpec => []AppliesOnlyAsIssued
<1>1. GrantsInv => AppliesOnlyAsIssued
  <2> SUFFICES ASSUME GrantsInv, NEW p \in Proc, pc[p] = "apply"
               PROVE  LET signed == mine[p].over
                      IN  /\ mine[p].payload = signed /\ mine[p].by = want[p].key
                          /\ signed.root = want[p].root /\ want[p].op \in signed.ops
                          /\ want[p].at < signed.expires
                          /\ signed.expires <= signed.issued + IdleCap
    BY DEF AppliesOnlyAsIssued
  <2>1. mine[p] # NoGrant
    BY NoGrantIsNone DEF GrantsInv, ArgsOK
  <2>2. GrantGood(mine[p], want[p]) /\ want[p].op \in mine[p].payload.ops
    BY DEF GrantsInv, Checked
  <2> QED
    BY <2>1, <2>2 DEF GrantsInv, Capped, GrantGood, verify_signature
<1> QED
  BY <1>1, GrantsInvHolds, PTL

(* The grant that protect or lock found is gone for good once they are past  *)
(* the removal, whatever other commands place and unlink.                    *)
THEOREM RevokedStaysGone == GrantsSpec => []RevokedIsGone
<1>1. GrantsInv => RevokedIsGone
  BY DEF GrantsInv
<1> QED
  BY <1>1, GrantsInvHolds, PTL

(* With no bypass at work the key files are one pair that verifies the grant *)
(* on disk, unless a crowd or a death has left them otherwise.               *)
THEOREM KeyFilesAgree == GrantsSpec => []KeysAgree
<1>1. GrantsInv => KeysAgree
  <2> SUFFICES ASSUME GrantsInv, Running("bypass") = {}, ~disturbed
               PROVE  Settled
    BY DEF KeysAgree, Settled
  <2>1. \A p \in Proc : ~Midway(p)
    BY DEF GrantsInv, ArgsOK, KeySteps, Midway, Pending, Running
  <2> QED
    BY <2>1 DEF GrantsInv, Explained
<1> QED
  BY <1>1, GrantsInvHolds, PTL

------------------------------------------------------------------------------
(* The operations of kvendra.github.                                        *)

(* What holds at 0 and is handed on up to n holds up to n.                   *)
LEMMA HandedOn ==
  ASSUME NEW n \in Nat, NEW T \in SUBSET (0..n), 0 \in T,
         \A i \in 0..n : i + 1 \in 0..n /\ i \in T => i + 1 \in T
  PROVE  T = 0..n
<1>1. ASSUME 0..n \ T # {} PROVE FALSE
  <2>1. 0..n \ T \subseteq Nat
    OBVIOUS
  <2>2. PICK k \in 0..n \ T : \A j \in 0..n \ T : ~(<<j, k>> \in OpToRel(<, Nat))
    BY <1>1, <2>1, NatLessThanWellFounded, WFMin
  <2>3. \A j \in 0..n \ T : ~(j < k)
    BY <2>1, <2>2 DEF OpToRel
  <2>4. k # 0 /\ k - 1 \in 0..n /\ k - 1 \in T
    BY <2>3
  <2> QED  BY <2>4
<1> QED  BY <1>1

IsRun(all, n, out) == out = [i \in 0..n |-> IF i = 0 THEN <<>> ELSE Noted(out[i - 1], all[i])]

LEMMA RunExists ==
  ASSUME NEW S, NEW all \in Seq(S)
  PROVE  \E out : IsRun(all, Len(all), out)
<1> DEFINE T == {n \in 0..Len(all) : \E out : IsRun(all, n, out)}
<1>1. 0 \in T
  <2>1. IsRun(all, 0, [i \in 0..0 |-> <<>>])
    BY DEF IsRun
  <2> QED  BY <2>1
<1>2. ASSUME NEW i \in 0..Len(all), i + 1 \in 0..Len(all), i \in T PROVE i + 1 \in T
  <2>1. PICK out : IsRun(all, i, out)
    BY <1>2
  <2> DEFINE next == [k \in 0..(i + 1) |-> IF k = i + 1 THEN Noted(out[i], all[k]) ELSE out[k]]
  <2>2. IsRun(all, i + 1, next)
    <3>1. \A k \in 0..i : out[k] = IF k = 0 THEN <<>> ELSE Noted(out[k - 1], all[k])
      BY <2>1 DEF IsRun
    <3>2. ASSUME NEW k \in 0..(i + 1)
          PROVE  next[k] = IF k = 0 THEN <<>> ELSE Noted(next[k - 1], all[k])
      BY <3>1
    <3> QED  BY <3>2 DEF IsRun
  <2> QED  BY <1>2, <2>2
<1> HIDE DEF T
<1>3. T = 0..Len(all)
  <2>1. T \in SUBSET (0..Len(all)) /\ Len(all) \in Nat
    BY DEF T
  <2> QED  BY <1>1, <1>2, <2>1, HandedOn
<1>4. Len(all) \in 0..Len(all)
  OBVIOUS
<1> QED  BY <1>3, <1>4 DEF T

LEMMA MergeIsRun ==
  ASSUME NEW S, NEW a \in Seq(S), NEW b \in Seq(S)
  PROVE  \E out : IsRun(a \o b, Len(a \o b), out) /\ merge_topics_unique(a, b) = out[Len(a \o b)]
<1> DEFINE all == a \o b
<1>1. all \in Seq(S)
  OBVIOUS
<1>2. \E out : IsRun(all, Len(all), out)
  BY <1>1, RunExists
<1>3. \E out : out = [i \in 0..Len(all) |-> IF i = 0 THEN <<>> ELSE Noted(out[i - 1], all[i])]
  BY <1>2 DEF IsRun
<1> QED  BY <1>3 DEF merge_topics_unique, IsRun
LEMMA RangeMembers == ASSUME NEW f PROVE \A x : x \in Range(f) <=> \E k \in DOMAIN f : f[k] = x
BY DEF Range

(* A topic is noted once, and NonTopic never.                                *)
NotedUpTo(all, i, s) ==
  /\ s \in Seq(Range(all)) /\ Range(s) = {all[k] : k \in 1..i} \ {NonTopic}
  /\ \A k, l \in 1..Len(s) : s[k] = s[l] => k = l

LEMMA NotedStep ==
  ASSUME NEW S, NEW all \in Seq(S), NEW i \in Nat, i + 1 \in 1..Len(all), NEW s, NotedUpTo(all, i, s)
  PROVE  NotedUpTo(all, i + 1, Noted(s, all[i + 1]))
<1> DEFINE t == all[i + 1]
<1>1. /\ s \in Seq(Range(all)) /\ t \in Range(all)
      /\ Range(s) = {all[k] : k \in 1..i} \ {NonTopic}
      /\ \A k, l \in 1..Len(s) : s[k] = s[l] => k = l
  <2>1. t \in Range(all)
    BY RangeMembers
  <2> QED  BY <2>1 DEF NotedUpTo
<1>2. {all[k] : k \in 1..(i + 1)} = {all[k] : k \in 1..i} \cup {t}
  OBVIOUS
<1>3. CASE t = NonTopic \/ t \in Range(s)
  <2>1. Noted(s, t) = s
    BY <1>3 DEF Noted
  <2> QED  BY <1>1, <1>2, <1>3, <2>1 DEF NotedUpTo
<1>4. CASE ~(t = NonTopic \/ t \in Range(s))
  <2> HIDE DEF t
  <2>1. Noted(s, t) = Append(s, t)
    BY <1>4 DEF Noted
  <2> DEFINE r == Append(s, t)
  <2>2. /\ r \in Seq(Range(all)) /\ Len(r) = Len(s) + 1 /\ DOMAIN r = 1..(Len(s) + 1)
        /\ \A k \in 1..Len(s) : r[k] = s[k]
        /\ r[Len(s) + 1] = t /\ Len(s) \in Nat /\ DOMAIN s = 1..Len(s)
    BY <1>1
  <2> HIDE DEF r
  <2>3. Range(r) = Range(s) \cup {t}
    <3>1. \A x : x \in Range(r) <=> \E k \in DOMAIN r : r[k] = x
      BY RangeMembers
    <3>2. \A x : x \in Range(s) <=> \E k \in DOMAIN s : s[k] = x
      BY RangeMembers
    <3>3. ASSUME NEW x PROVE x \in Range(r) => x \in Range(s) \cup {t}
      BY <2>2, <3>1, <3>2
    <3>4. ASSUME NEW x PROVE x \in Range(s) \cup {t} => x \in Range(r)
      <4>1. Len(s) + 1 \in DOMAIN r /\ \A k \in DOMAIN s : k \in DOMAIN r /\ r[k] = s[k]
        BY <2>2
      <4> QED  BY <2>2, <3>1, <3>2, <4>1
    <3> QED  BY <3>3, <3>4
  <2>4. \A k \in 1..Len(s) : s[k] # t
    BY <1>4, <2>2 DEF Range
  <2>5. ASSUME NEW k \in 1..Len(r), NEW l \in 1..Len(r), r[k] = r[l] PROVE k = l
    BY <1>1, <2>2, <2>4, <2>5
  <2>6. Noted(s, t) = r
    BY <2>1 DEF r
  <2>7. Range(r) = ({all[k] : k \in 1..i} \cup {t}) \ {NonTopic}
    BY <1>1, <1>4, <2>3
  <2>8. Range(r) = {all[k] : k \in 1..(i + 1)} \ {NonTopic}
    BY <1>2, <2>7
  <2>9. NotedUpTo(all, i + 1, r)
    BY <2>2, <2>5, <2>8 DEF NotedUpTo
  <2> QED  BY <2>6, <2>9 DEF t
<1> QED  BY <1>3, <1>4

LEMMA MergedWhole ==
  ASSUME NEW S, NEW a \in Seq(S), NEW b \in Seq(S)
  PROVE  LET s == merge_topics_unique(a, b)
         IN  /\ Range(s) = (Range(a) \cup Range(b)) \ {NonTopic}
             /\ Cardinality(Range(s)) = Len(s)
<1> DEFINE all == a \o b
<1>1. /\ all \in Seq(S) /\ Len(all) \in Nat
      /\ {all[k] : k \in 1..Len(all)} = Range(a) \cup Range(b)
  <2>1. /\ all \in Seq(S) /\ Len(all) = Len(a) + Len(b) /\ Len(a) \in Nat /\ Len(b) \in Nat
        /\ DOMAIN a = 1..Len(a) /\ DOMAIN b = 1..Len(b)
        /\ \A i \in 1..Len(a) + Len(b) : all[i] = IF i <= Len(a) THEN a[i] ELSE b[i - Len(a)]
    BY ConcatProperties
  <2> HIDE DEF all
  <2>2. \A k \in 1..Len(all) : all[k] \in Range(a) \cup Range(b)
    <3> SUFFICES ASSUME NEW k \in 1..Len(all) PROVE all[k] \in Range(a) \cup Range(b)
      OBVIOUS
    <3>1. CASE k <= Len(a)
      BY <2>1, <3>1, RangeMembers
    <3>2. CASE k > Len(a)
      <4>1. k - Len(a) \in DOMAIN b /\ all[k] = b[k - Len(a)]
        BY <2>1, <3>2
      <4> QED  BY <4>1, RangeMembers
    <3> QED  BY <2>1, <3>1, <3>2
  <2>3. \A k \in 1..Len(a) : k \in 1..Len(all) /\ all[k] = a[k]
    BY <2>1
  <2>4. \A k \in 1..Len(b) : Len(a) + k \in 1..Len(all) /\ all[Len(a) + k] = b[k]
    BY <2>1
  <2>5. Range(a) \cup Range(b) \subseteq {all[k] : k \in 1..Len(all)}
    <3>1. ASSUME NEW x \in Range(a) PROVE x \in {all[k] : k \in 1..Len(all)}
      BY <2>1, <2>3, RangeMembers
    <3>2. ASSUME NEW x \in Range(b) PROVE x \in {all[k] : k \in 1..Len(all)}
      <4>1. PICK k \in 1..Len(b) : b[k] = x
        BY <2>1, RangeMembers
      <4> QED  BY <2>1, <2>4, <4>1
    <3> QED  BY <3>1, <3>2
  <2> QED  BY <2>1, <2>2, <2>5
<1>2. PICK out : IsRun(all, Len(all), out) /\ merge_topics_unique(a, b) = out[Len(all)]
  BY MergeIsRun
<1> HIDE DEF all
<1>3. \A i \in 0..Len(all) : out[i] = IF i = 0 THEN <<>> ELSE Noted(out[i - 1], all[i])
  BY <1>2 DEF IsRun
<1> DEFINE T == {i \in 0..Len(all) : NotedUpTo(all, i, out[i])}
<1>4. 0 \in T
  <2>1. out[0] = <<>>
    BY <1>1, <1>3
  <2>2. NotedUpTo(all, 0, <<>>)
    BY DEF NotedUpTo, Range
  <2> QED  BY <1>1, <2>1, <2>2
<1>5. ASSUME NEW i \in 0..Len(all), i + 1 \in 0..Len(all), i \in T PROVE i + 1 \in T
  <2>1. i \in Nat /\ i + 1 \in 1..Len(all) /\ NotedUpTo(all, i, out[i])
    BY <1>1, <1>5
  <2>2. out[i + 1] = Noted(out[i], all[i + 1])
    BY <1>1, <1>3, <1>5
  <2>3. NotedUpTo(all, i + 1, Noted(out[i], all[i + 1]))
    BY <1>1, <2>1, NotedStep
  <2> QED  BY <1>5, <2>2, <2>3
<1>6. NotedUpTo(all, Len(all), out[Len(all)])
  <2>1. T \in SUBSET (0..Len(all))
    OBVIOUS
  <2> HIDE DEF T
  <2>2. T = 0..Len(all)
    BY <1>1, <1>4, <1>5, <2>1, HandedOn
  <2>3. Len(all) \in T
    BY <1>1, <2>2
  <2> QED  BY <2>3 DEF T
<1> DEFINE s == merge_topics_unique(a, b)
<1>7. s = out[Len(all)]
  BY <1>2
<1> HIDE DEF s
<1>8. Range(s) = (Range(a) \cup Range(b)) \ {NonTopic}
  BY <1>1, <1>6, <1>7 DEF NotedUpTo
<1>9. Cardinality(Range(s)) = Len(s)
  <2>1. s \in Seq(Range(all)) /\ \A k, l \in 1..Len(s) : s[k] = s[l] => k = l
    BY <1>6, <1>7 DEF NotedUpTo
  <2>2. Len(s) \in Nat /\ DOMAIN s = 1..Len(s) /\ s = [k \in 1..Len(s) |-> s[k]]
    BY <2>1
  <2>3. s \in Bijection(1..Len(s), Range(s))
    BY <2>1, <2>2 DEF Bijection, Injection, Surjection, IsInjective, Range
  <2>4. ExistsBijection(1..Len(s), Range(s))
    BY <2>3 DEF ExistsBijection
  <2> QED  BY <2>2, <2>4, FS_CountingElements
<1> QED  BY <1>8, <1>9 DEF s

(* How many issues the pages before page n hold, when they are full.         *)
Ahead(n) == (n - 1) * PER_PAGE
Listed == Nat \cup Issue

LEMMA PageOfIs ==
  ASSUME issues \in Seq(Listed), NEW n \in Nat \ {0}, Ahead(n) <= Len(issues)
  PROVE  /\ Ahead(n) \in Nat /\ Ahead(n + 1) = Ahead(n) + PER_PAGE
         /\ PageOf(n) \in Seq(Listed)
         /\ Len(PageOf(n)) \in 0..PER_PAGE /\ Ahead(n) + Len(PageOf(n)) <= Len(issues)
         /\ Len(PageOf(n)) < PER_PAGE => Ahead(n) + Len(PageOf(n)) = Len(issues)
         /\ \A k \in 1..Len(PageOf(n)) : PageOf(n)[k] = issues[Ahead(n) + k]
<1>1. PER_PAGE \in Nat \ {0}
  BY GithubConstants
<1>2. Ahead(n) \in Nat /\ Ahead(n + 1) = Ahead(n) + PER_PAGE /\ n * PER_PAGE = Ahead(n) + PER_PAGE
  BY <1>1 DEF Ahead
<1> DEFINE u == Ahead(n)
           top == IF u + PER_PAGE < Len(issues) THEN u + PER_PAGE ELSE Len(issues)
<1>3. PageOf(n) = SubSeq(issues, u + 1, top)
  BY <1>2 DEF PageOf, Ahead
<1>4. u \in Nat /\ u <= Len(issues) /\ Len(issues) \in Nat
  BY <1>2
<1> HIDE DEF u
<1>5. top \in Nat /\ top <= Len(issues) /\ u <= top
  BY <1>1, <1>4
<1>6. \A i \in (u + 1)..top : issues[i] \in Listed
  BY <1>4, <1>5
<1>7. /\ SubSeq(issues, u + 1, top) \in Seq(Listed)
      /\ Len(SubSeq(issues, u + 1, top)) = IF u + 1 <= top THEN top - (u + 1) + 1 ELSE 0
      /\ \A k \in 1..top - (u + 1) + 1 : SubSeq(issues, u + 1, top)[k] = issues[u + 1 + k - 1]
  BY <1>4, <1>5, <1>6, SubSeqProperties
<1>8. Len(PageOf(n)) = top - u
  BY <1>3, <1>4, <1>5, <1>7
<1>9. \A k \in 1..Len(PageOf(n)) : PageOf(n)[k] = issues[u + k]
  BY <1>3, <1>4, <1>5, <1>7, <1>8
<1>10. /\ Len(PageOf(n)) \in 0..PER_PAGE /\ u + Len(PageOf(n)) <= Len(issues)
       /\ Len(PageOf(n)) < PER_PAGE => u + Len(PageOf(n)) = Len(issues)
  BY <1>1, <1>4, <1>8
<1>11. PageOf(n) \in Seq(Listed)
  BY <1>3, <1>7
<1> HIDE DEF top
<1> QED  BY <1>2, <1>9, <1>10, <1>11 DEF u

(* While pages are read: what stands before the page to come has been read,  *)
(* unless it was opened meanwhile; and when nothing was, in that order.      *)
ListSound ==
  /\ page.number \in Nat \ {0}
  /\ ~garbled /\ others.closed = {} =>
       /\ issues \in Seq(Listed) /\ read \in Seq(Listed)
       /\ Ahead(page.number) <= Len(issues)
       /\ \A i \in 1..Ahead(page.number) : issues[i] \in others.opened \cup Range(read)
       /\ others.opened = {} =>
            /\ Len(read) = Ahead(page.number)
            /\ \A i \in 1..Len(read) : read[i] = issues[i]

(* Before the topics are written: the list to be written has all it must.    *)
MergeSound ==
  /\ Range(ordered.args.topics) \ {NonTopic} \subseteq Range(read)
  /\ ~garbled => Range(had) \subseteq Range(read)
  /\ Cardinality(Range(read)) = Len(read)

GithubInv ==
  /\ ghstage \in {"idle", "page", "get", "put", "send", "done"}
  /\ others \in [closed : SUBSET Issue, opened : SUBSET Issue, topics : BOOLEAN]
  /\ page = [number |-> page.number, last |-> page.last]
  /\ ghstage # "done" => posted = <<>>
  /\ ghstage = "idle" => /\ issues \in Seq(Listed) /\ topics \in Seq(Topic)
                         /\ others = Quiet /\ read = <<>> /\ ~garbled
  /\ ghstage = "page" => ordered.name = "list_issues" /\ ListSound
  /\ ghstage = "get" => /\ ordered.name = "add_topics" /\ topics \in Seq(Topic)
                        /\ ordered.args.topics \in Seq(Topic \cup {NonTopic})
  /\ ghstage = "put" => ordered.name = "add_topics" /\ MergeSound
  /\ ghstage = "send" => ordered.name \in DOMAIN Fields
  /\ AnswersTrue

LEMMA BodyClean ==
  ASSUME NEW o, o.name = "create_issue"
  PROVE  Secret \notin Range(Body(o))
<1> DEFINE given == [x \in Fields[o.name] \cap DOMAIN o.args |-> o.args[x]]
<1>1. Body(o) = sanitize_value(given)
  BY DEF Body
<1> HIDE DEF given
<1>2. \A x \in DOMAIN sanitize_value(given) : sanitize_value(given)[x] # Secret
  BY GithubConstants DEF sanitize_value
<1> QED  BY <1>1, <1>2, RangeMembers

LEMMA FieldsAre == /\ DOMAIN Fields = {"update_repo", "release", "update_issue", "create_issue", "read_repo", "read_issue"}
                   /\ DOMAIN Needed = DOMAIN Fields \cup {"list_issues", "add_topics"}
                   /\ Needed["add_topics"] = {"topics"}
BY DEF Fields, Needed

LEMMA GithubInvHolds == GithubInit => GithubInv
<1> SUFFICES ASSUME GithubInit PROVE GithubInv
  OBVIOUS
<1>1. issues \in Seq(Listed)
  <2>1. PICK n \in 0..Cardinality(Issue) : issues = [i \in 1..n |-> i]
    BY DEF GithubInit
  <2>2. n \in Nat /\ \A i \in 1..n : i \in Listed
    BY DEF Listed
  <2> QED  BY <2>1, <2>2
<1>2. topics \in Seq(Topic)
  <2>1. <<>> \in Seq(Topic) /\ \A t \in Topic : <<t>> \in Seq(Topic)
    OBVIOUS
  <2>2. topics = <<>> \/ \E t \in Topic : topics = <<t>>
    BY DEF GithubInit
  <2> QED  BY <2>1, <2>2
<1>3. others \in [closed : SUBSET Issue, opened : SUBSET Issue, topics : BOOLEAN]
  BY DEF GithubInit, Quiet
<1>4. page = [number |-> page.number, last |-> page.last]
  BY DEF GithubInit, NoPage
<1>5. ghstage = "idle" /\ posted = <<>> /\ others = Quiet /\ read = <<>> /\ ~garbled
  BY DEF GithubInit
<1> QED  BY <1>1, <1>2, <1>3, <1>4, <1>5 DEF GithubInv, AnswersTrue

LEMMA InvokeKeeps ==
  ASSUME GithubInv, NEW o \in GithubCalls, Invoke(o)
  PROVE  GithubInv'
<1>0. /\ ordered' = o /\ ghstage = "idle" /\ posted' = <<>> /\ others' = Quiet /\ read' = <<>> /\ ~garbled'
      /\ issues' \in Seq(Listed) /\ topics' \in Seq(Topic)
      /\ others' \in [closed : SUBSET Issue, opened : SUBSET Issue, topics : BOOLEAN]
  BY DEF Invoke, GithubInv
<1>1. CASE o.name \notin DOMAIN Needed \/ ~(Needed[o.name] \subseteq DOMAIN o.args)
  <2>1. /\ ghstage' = "done" /\ answer' = [kind |-> "invalid_args", success |-> FALSE, truncated |-> FALSE]
        /\ page' = page
    BY <1>1 DEF Invoke, Ends
  <2>2. AnswersTrue'
    <3>1. Secret \notin Range(posted')
      BY <1>0, RangeMembers
    <3> QED  BY <1>0, <2>1, <3>1 DEF AnswersTrue, ListedWhole, TopicsAppended, ClaimedIsDone
  <2> QED  BY <1>0, <2>1, <2>2 DEF GithubInv
<1>2. CASE /\ ~(o.name \notin DOMAIN Needed \/ ~(Needed[o.name] \subseteq DOMAIN o.args))
           /\ o.name = "list_issues"
  <2> DEFINE last == PagesAsked(o.args)
  <2>1. /\ page' = [number |-> 1, last |-> last]
        /\ IF last = 0 THEN Ends("answered", TRUE, FALSE) ELSE ghstage' = "page" /\ UNCHANGED answer
    BY <1>2 DEF Invoke
  <2> HIDE DEF last
  <2>2. page'.number = 1 /\ page'.last = last
    BY <2>1
  <2>3. CASE last = 0
    <3>1. /\ ghstage' = "done" /\ answer' = [kind |-> "answered", success |-> TRUE, truncated |-> FALSE]
      BY <2>1, <2>3 DEF Ends
    <3>2. ~(page'.last > 0)
      BY <2>2, <2>3
    <3>3. o.name \notin DOMAIN Fields
      BY <1>2, FieldsAre
    <3>4. AnswersTrue'
      BY <1>0, <1>2, <3>1, <3>2, <3>3 DEF AnswersTrue, ListedWhole, TopicsAppended, ClaimedIsDone
    <3> QED  BY <1>0, <2>1, <2>2, <3>1, <3>4 DEF GithubInv
  <2>4. CASE last # 0
    <3>1. ghstage' = "page"
      BY <2>1, <2>4
    <3>2. Ahead(page'.number) = 0
      BY <2>2, GithubConstants DEF Ahead
    <3>3. ListSound'
      <4>1. Len(issues') \in Nat /\ Len(read') = 0 /\ read' \in Seq(Listed)
        BY <1>0
      <4> QED  BY <1>0, <2>2, <3>2, <4>1 DEF ListSound
    <3> QED  BY <1>0, <1>2, <2>1, <2>2, <3>1, <3>3 DEF GithubInv, AnswersTrue
  <2> QED  BY <2>3, <2>4
<1>3. CASE /\ ~(o.name \notin DOMAIN Needed \/ ~(Needed[o.name] \subseteq DOMAIN o.args))
           /\ o.name = "add_topics"
  <2>1. ghstage' = "get" /\ page' = page
    BY <1>3 DEF Invoke
  <2>2. o.args.topics \in Seq(Topic \cup {NonTopic})
    <3>1. "topics" \in DOMAIN o.args
      BY <1>3, FieldsAre
    <3>2. o \in {[name |-> "add_topics", args |-> a] :
                   a \in {[topics |-> <<s, t>>] : s \in Topic \cup {NonTopic}, t \in Topic} \cup {<<>>}}
      BY <1>3, FieldsAre DEF GithubCalls
    <3>3. o.args \in {[topics |-> <<s, t>>] : s \in Topic \cup {NonTopic}, t \in Topic} \cup {<<>>}
      BY <3>2
    <3>4. o.args # <<>>
      BY <3>1
    <3>7. o.args \in {[topics |-> <<s, t>>] : s \in Topic \cup {NonTopic}, t \in Topic}
      BY <3>3, <3>4
    <3>5. PICK s \in Topic \cup {NonTopic}, t \in Topic : o.args = [topics |-> <<s, t>>]
      BY <3>7
    <3>6. o.args.topics = <<s, t>>
      BY <3>5
    <3> QED  BY <3>6
  <2> QED  BY <1>0, <1>3, <2>1, <2>2 DEF GithubInv, AnswersTrue
<1>4. CASE /\ ~(o.name \notin DOMAIN Needed \/ ~(Needed[o.name] \subseteq DOMAIN o.args))
           /\ o.name \notin {"list_issues", "add_topics"}
  <2>1. ghstage' = "send" /\ page' = page
    BY <1>4 DEF Invoke
  <2>2. o.name \in DOMAIN Fields
    BY <1>4, FieldsAre
  <2> QED  BY <1>0, <2>1, <2>2 DEF GithubInv, AnswersTrue
<1> QED  BY <1>1, <1>2, <1>3, <1>4

LEMMA EndKeeps ==
  ASSUME GithubInv, Lost \/ Refused \/ Send \/ PutTopics
  PROVE  GithubInv'
<1>0. /\ ghstage \in {"page", "get", "put", "send"} /\ ghstage' = "done" /\ posted = <<>>
      /\ UNCHANGED <<ordered, others, page, read, had, garbled>>
  BY DEF Lost, Refused, Send, PutTopics, Ends, GithubInv
<1>1. AnswersTrue' => GithubInv'
  BY <1>0 DEF GithubInv
<1>2. CASE Lost \/ Refused
  <2>1. /\ ~answer'.success /\ answer'.kind \in {"error", "answered"}
        /\ answer'.kind # "error" => posted' = <<>>
        /\ posted' \in {<<>>, Body(ordered)}
    BY <1>0, <1>2 DEF Lost, Refused, Ends
  <2>2. ordered'.name = "create_issue" => Secret \notin Range(posted')
    <3>1. Secret \notin Range(<<>>)
      BY RangeMembers
    <3> QED  BY <1>0, <2>1, <3>1, BodyClean
  <2>3. AnswersTrue'
    BY <2>1, <2>2 DEF AnswersTrue, ListedWhole, TopicsAppended, ClaimedIsDone
  <2> QED  BY <1>1, <2>3
<1>3. CASE Send
  <2>1. /\ ordered.name \in DOMAIN Fields /\ answer'.kind = "answered" /\ answer'.success
        /\ posted' = IF ordered.name \in Reads THEN <<>> ELSE Body(ordered)
    BY <1>0, <1>3 DEF Send, Ends, GithubInv
  <2>2. ordered.name \notin {"list_issues", "add_topics"}
    BY <2>1, FieldsAre
  <2>3. ordered.name = "create_issue" => Secret \notin Range(posted')
    BY <2>1, BodyClean DEF Reads
  <2>4. ClaimedIsDone'
    <3>1. ordered.name \notin Reads => posted' = Body(ordered)'
      BY <1>0, <2>1 DEF Body
    <3> QED  BY <1>0, <2>1, <2>3, <3>1 DEF ClaimedIsDone
  <2>5. AnswersTrue'
    BY <1>0, <2>2, <2>4 DEF AnswersTrue, ListedWhole, TopicsAppended
  <2> QED  BY <1>1, <2>5
<1>4. CASE PutTopics
  <2>1. /\ ordered.name = "add_topics" /\ MergeSound /\ topics' = read
        /\ answer'.kind = "answered" /\ UNCHANGED posted
    BY <1>0, <1>4 DEF PutTopics, Ends, GithubInv
  <2>2. ordered.name \notin DOMAIN Fields
    BY <2>1, FieldsAre
  <2>3. TopicsAppended'
    BY <1>0, <2>1 DEF TopicsAppended, MergeSound
  <2>4. AnswersTrue'
    BY <1>0, <2>1, <2>2, <2>3 DEF AnswersTrue, ListedWhole, ClaimedIsDone
  <2> QED  BY <1>1, <2>4
<1> QED  BY <1>2, <1>3, <1>4

LEMMA TopicsKeep ==
  ASSUME GithubInv, NEW readable \in BOOLEAN, GetTopics(readable)
  PROVE  GithubInv'
<1> DEFINE existing == IF readable THEN topics ELSE <<>>
<1>1. /\ ghstage = "get" /\ ghstage' = "put" /\ garbled' = ~readable /\ had' = topics
      /\ read' = merge_topics_unique(existing, ordered.args.topics)
      /\ UNCHANGED <<ordered, topics, posted, page, others>>
  BY DEF GetTopics
<1>2. ordered.name = "add_topics" /\ topics \in Seq(Topic) /\ ordered.args.topics \in Seq(Topic \cup {NonTopic})
  BY <1>1 DEF GithubInv
<1>3. existing \in Seq(Topic \cup {NonTopic}) /\ (readable => existing = topics)
  <2>1. <<>> \in Seq(Topic \cup {NonTopic}) /\ topics \in Seq(Topic \cup {NonTopic})
    BY <1>2
  <2> QED  BY <2>1
<1> HIDE DEF existing
<1>4. /\ Range(read') = (Range(existing) \cup Range(ordered.args.topics)) \ {NonTopic}
      /\ Cardinality(Range(read')) = Len(read')
  BY <1>1, <1>2, <1>3, MergedWhole
<1>5. NonTopic \notin Range(topics)
  <2>1. \A k \in DOMAIN topics : topics[k] \in Topic
    BY <1>2
  <2> QED  BY <2>1, RangeMembers, GithubConstants
<1>6. MergeSound'
  BY <1>1, <1>3, <1>4, <1>5 DEF MergeSound
<1> QED  BY <1>1, <1>2, <1>6 DEF GithubInv, AnswersTrue

(* What has been read, with the page that comes after it.                    *)
LEMMA PageAdds ==
  ASSUME GithubInv, ghstage = "page", ~garbled, others.closed = {},
         NEW r, r = read \o PageOf(page.number)
  PROVE  LET n == Ahead(page.number) + Len(PageOf(page.number))
         IN  /\ r \in Seq(Listed) /\ n \in Nat /\ n <= Len(issues)
             /\ \A i \in 1..n : issues[i] \in others.opened \cup Range(r)
             /\ others.opened = {} => Len(r) = n /\ \A i \in 1..n : r[i] = issues[i]
<1> DEFINE u == Ahead(page.number)
           got == PageOf(page.number)
           n == u + Len(got)
<1>1. /\ page.number \in Nat \ {0} /\ issues \in Seq(Listed) /\ read \in Seq(Listed) /\ u <= Len(issues)
      /\ \A i \in 1..u : issues[i] \in others.opened \cup Range(read)
      /\ others.opened = {} => Len(read) = u /\ \A i \in 1..Len(read) : read[i] = issues[i]
  BY DEF GithubInv, ListSound
<1>2. /\ u \in Nat /\ got \in Seq(Listed) /\ PER_PAGE \in Nat \ {0}
      /\ Len(got) \in 0..PER_PAGE /\ u + Len(got) <= Len(issues)
      /\ \A k \in 1..Len(got) : got[k] = issues[u + k]
  BY <1>1, PageOfIs, GithubConstants
<1>3. /\ r \in Seq(Listed) /\ Len(r) = Len(read) + Len(got)
      /\ \A i \in 1..Len(read) + Len(got) : r[i] = IF i <= Len(read) THEN read[i] ELSE got[i - Len(read)]
  <2>1. r = read \o got /\ read \in Seq(Listed) /\ got \in Seq(Listed)
    BY <1>1, <1>2
  <2> HIDE DEF got, u
  <2> QED  BY <2>1, ConcatProperties
<1> HIDE DEF u, got
<1>4. /\ Len(read) \in Nat /\ Len(got) \in Nat /\ Len(issues) \in Nat /\ u \in Nat
      /\ u + Len(got) <= Len(issues)
      /\ DOMAIN r = 1..Len(r) /\ DOMAIN read = 1..Len(read)
  BY <1>1, <1>2, <1>3
<1>5. n \in Nat /\ n <= Len(issues)
  BY <1>4
<1>6. ASSUME NEW i \in 1..n PROVE issues[i] \in others.opened \cup Range(r)
  <2>1. CASE i <= u
    <3>1. issues[i] \in others.opened \cup Range(read)
      BY <1>1, <1>2, <1>5, <2>1
    <3>2. ASSUME issues[i] \in Range(read) PROVE issues[i] \in Range(r)
      <4>1. PICK k \in DOMAIN read : read[k] = issues[i]
        BY <3>2, RangeMembers
      <4>2. k \in DOMAIN r /\ r[k] = issues[i]
        BY <1>3, <1>4, <4>1
      <4> QED  BY <4>2, RangeMembers
    <3> QED  BY <3>1, <3>2
  <2>2. CASE i > u
    <3>1. i - u \in 1..Len(got) /\ issues[i] = got[i - u]
      BY <1>2, <1>4, <2>2
    <3>2. /\ Len(read) + (i - u) \in DOMAIN r
          /\ r[Len(read) + (i - u)] = issues[i]
      <4>1. Len(read) + (i - u) \in 1..Len(read) + Len(got)
        BY <1>4, <1>5, <2>2, <3>1
      <4>2. i - u >= 1 /\ (Len(read) + (i - u)) - Len(read) = i - u
        BY <1>4, <1>5, <2>2
      <4>3. PICK k : k = Len(read) + (i - u)
        OBVIOUS
      <4>4. k \in 1..Len(read) + Len(got) /\ ~(k <= Len(read)) /\ k - Len(read) = i - u
        BY <1>4, <1>5, <2>2, <4>1, <4>2, <4>3
      <4>5. r[k] = got[i - u]
        BY <1>3, <4>4
      <4> QED  BY <1>3, <1>4, <3>1, <4>3, <4>4, <4>5
    <3> QED  BY <3>2, RangeMembers
  <2> QED  BY <1>2, <1>5, <2>1, <2>2
<1>7. ASSUME others.opened = {} PROVE Len(r) = n /\ \A i \in 1..n : r[i] = issues[i]
  <2>1. Len(read) = u /\ \A i \in 1..u : read[i] = issues[i]
    BY <1>1, <1>7
  <2>2. Len(r) = n
    BY <1>3, <2>1
  <2>3. ASSUME NEW i \in 1..n PROVE r[i] = issues[i]
    <3>1. CASE i <= u
      BY <1>2, <1>3, <1>4, <1>5, <2>1, <3>1
    <3>2. CASE i > u
      <4>1. i - u \in 1..Len(got) /\ got[i - u] = issues[u + (i - u)]
        BY <1>2, <1>4, <3>2
      <4>2. i \in 1..Len(read) + Len(got) /\ ~(i <= Len(read)) /\ u + (i - u) = i
        BY <1>4, <2>1, <3>2
      <4> QED  BY <1>3, <2>1, <4>1, <4>2
    <3>3. i <= u \/ i > u
      BY <1>4, <1>5
    <3> QED  BY <3>1, <3>2, <3>3
  <2> QED  BY <2>2, <2>3
<1> QED  BY <1>3, <1>5, <1>6, <1>7 DEF u, got

LEMMA PagesKeep ==
  ASSUME GithubInv, NEW readable \in BOOLEAN, GetPage(readable)
  PROVE  GithubInv'
<1> DEFINE n == page.number
<1>0. /\ ghstage = "page" /\ ordered.name = "list_issues" /\ n \in Nat \ {0} /\ posted = <<>>
      /\ garbled' = (garbled \/ ~readable)
      /\ UNCHANGED <<ordered, issues, topics, posted, others, had>>
  BY DEF GetPage, GithubInv, ListSound
<1>1. ordered.name \notin DOMAIN Fields /\ ordered.name # "add_topics" /\ ordered.name # "create_issue"
  BY <1>0, FieldsAre
<1> DEFINE got == IF readable THEN PageOf(n) ELSE <<>>
<1>2. /\ read' = read \o got
      /\ IF Len(got) < PER_PAGE \/ n = page.last
         THEN Ends("answered", TRUE, TruncatedAt(Len(got))) /\ UNCHANGED page
         ELSE page' = [page EXCEPT !.number = @ + 1] /\ UNCHANGED <<ghstage, answer>>
  BY DEF GetPage
<1>3. readable => got = PageOf(n)
  OBVIOUS
<1> HIDE DEF got
<1>4. ASSUME ~garbled', others.closed = {}
      PROVE  /\ readable /\ got = PageOf(n) /\ Ahead(n) \in Nat /\ Ahead(n + 1) = Ahead(n) + PER_PAGE
             /\ PER_PAGE \in Nat \ {0} /\ issues \in Seq(Listed) /\ Len(issues) \in Nat
             /\ Len(got) \in 0..PER_PAGE /\ (Len(got) < PER_PAGE => Ahead(n) + Len(got) = Len(issues))
             /\ Ahead(n) <= Len(issues) /\ read' \in Seq(Listed) /\ Ahead(n) + Len(got) <= Len(issues)
             /\ \A i \in 1..Ahead(n) + Len(got) : issues[i] \in others.opened \cup Range(read')
             /\ others.opened = {} => /\ Len(read') = Ahead(n) + Len(got)
                                      /\ \A i \in 1..Ahead(n) + Len(got) : read'[i] = issues[i]
  <2>1. readable /\ ~garbled /\ got = PageOf(n)
    BY <1>0, <1>3, <1>4
  <2>2. issues \in Seq(Listed) /\ Ahead(n) <= Len(issues)
    BY <1>0, <1>4, <2>1 DEF GithubInv, ListSound
  <2>3. /\ Ahead(n) \in Nat /\ Ahead(n + 1) = Ahead(n) + PER_PAGE
        /\ Len(got) \in 0..PER_PAGE /\ (Len(got) < PER_PAGE => Ahead(n) + Len(got) = Len(issues))
    BY <1>0, <2>1, <2>2, PageOfIs
  <2>4. PICK r : r = read'
    OBVIOUS
  <2>5. r = read \o PageOf(n)
    BY <1>2, <2>1, <2>4
  <2>6. /\ r \in Seq(Listed) /\ Ahead(n) + Len(got) <= Len(issues)
        /\ \A i \in 1..Ahead(n) + Len(got) : issues[i] \in others.opened \cup Range(r)
        /\ others.opened = {} => /\ Len(r) = Ahead(n) + Len(got)
                                 /\ \A i \in 1..Ahead(n) + Len(got) : r[i] = issues[i]
    BY <1>0, <1>4, <2>1, <2>5, PageAdds
  <2>7. PER_PAGE \in Nat \ {0} /\ Len(issues) \in Nat
    BY <2>2, GithubConstants
  <2> QED  BY <2>1, <2>2, <2>3, <2>4, <2>6, <2>7
<1>5. CASE Len(got) < PER_PAGE \/ n = page.last
  <2>1. /\ ghstage' = "done" /\ page' = page /\ answer'.kind = "answered"
        /\ (n = page.last /\ Len(got) = PER_PAGE => answer'.truncated)
    <3>1. /\ ghstage' = "done" /\ page' = page
          /\ answer' = [kind |-> "answered", success |-> TRUE, truncated |-> TruncatedAt(Len(got))]
      BY <1>2, <1>5 DEF Ends
    <3>2. n = page.last /\ Len(got) = PER_PAGE => TruncatedAt(Len(got))
      BY DEF TruncatedAt
    <3> QED  BY <3>1, <3>2
  <2>2. ASSUME ~answer'.truncated, ~garbled', others.closed = {}
        PROVE  /\ Range(issues) \ others.opened \subseteq Range(read')
               /\ others.opened = {} => read' = issues
    <3>1. Ahead(n) + Len(got) = Len(issues)
      BY <1>4, <1>5, <2>1, <2>2
    <3>2. issues \in Seq(Listed) /\ read' \in Seq(Listed)
      BY <1>4, <2>2
    <3>3. /\ \A i \in 1..Len(issues) : issues[i] \in others.opened \cup Range(read')
          /\ others.opened = {} => Len(read') = Len(issues) /\ \A i \in 1..Len(issues) : read'[i] = issues[i]
      BY <1>4, <2>2, <3>1
    <3>4. \A x : x \in Range(issues) => x \in others.opened \cup Range(read')
      BY <3>2, <3>3, RangeMembers
    <3>5. others.opened = {} => read' = issues
      BY <3>2, <3>3
    <3> QED  BY <3>4, <3>5
  <2>3. ListedWhole'
    BY <1>0, <2>1, <2>2 DEF ListedWhole
  <2>4. AnswersTrue'
    BY <1>0, <1>1, <2>1, <2>3 DEF AnswersTrue, TopicsAppended, ClaimedIsDone
  <2> QED  BY <1>0, <2>1, <2>4 DEF GithubInv
<1>6. CASE ~(Len(got) < PER_PAGE \/ n = page.last)
  <2>1. /\ ghstage' = "page" /\ page' = [page EXCEPT !.number = @ + 1]
    BY <1>0, <1>2, <1>6
  <2>2. page'.number = n + 1 /\ page' = [number |-> page'.number, last |-> page'.last]
    BY <2>1 DEF GithubInv
  <2>3. ListSound'
    <3>1. ASSUME ~garbled', others.closed = {}
          PROVE  /\ Len(got) = PER_PAGE /\ Ahead(n + 1) = Ahead(n) + Len(got)
      BY <1>4, <1>6, <3>1
    <3>2. Ahead(page'.number) = Ahead(n + 1)
      BY <2>2
    <3>3. (Ahead(page.number))' = Ahead(page'.number)
      BY DEF Ahead
    <3>4. ASSUME ~garbled', others.closed = {}
          PROVE  /\ issues \in Seq(Listed) /\ read' \in Seq(Listed)
                 /\ Ahead(n + 1) <= Len(issues)
                 /\ \A i \in 1..Ahead(n + 1) : issues[i] \in others.opened \cup Range(read')
                 /\ others.opened = {} =>
                      /\ Len(read') = Ahead(n + 1)
                      /\ \A i \in 1..Len(read') : read'[i] = issues[i]
      BY <1>4, <3>1, <3>4
    <3>5. page'.number \in Nat \ {0}
      BY <1>0, <2>2
    <3> QED  BY <1>0, <2>2, <3>2, <3>4, <3>5 DEF ListSound
  <2> QED  BY <1>0, <2>1, <2>2, <2>3 DEF GithubInv, AnswersTrue
<1> QED  BY <1>5, <1>6

LEMMA OthersKeep ==
  ASSUME GithubInv,
         \/ \E n \in Issue : OthersClose(n) \/ OthersOpen(n)
         \/ \E t \in Topic : OthersTopics(t)
  PROVE  GithubInv'
<1>1. ASSUME NEW n \in Issue, OthersClose(n) PROVE GithubInv'
  <2>1. /\ ghstage = "page" /\ n \in others'.closed
        /\ others' \in [closed : SUBSET Issue, opened : SUBSET Issue, topics : BOOLEAN]
        /\ UNCHANGED <<ghstage, ordered, topics, posted, page, read, answer, had, garbled>>
    BY <1>1 DEF OthersClose, Begun, GithubInv
  <2>2. ListSound'
    BY <2>1 DEF GithubInv, ListSound
  <2> QED  BY <2>1, <2>2 DEF GithubInv, AnswersTrue
<1>2. ASSUME NEW n \in Issue, OthersOpen(n) PROVE GithubInv'
  <2>1. /\ ghstage = "page" /\ issues' = <<n>> \o issues /\ n \in others'.opened
        /\ others'.closed = others.closed /\ others.opened \subseteq others'.opened
        /\ others' \in [closed : SUBSET Issue, opened : SUBSET Issue, topics : BOOLEAN]
        /\ UNCHANGED <<ghstage, ordered, topics, posted, page, read, answer, had, garbled>>
    BY <1>2 DEF OthersOpen, Begun, GithubInv
  <2>2. ASSUME ~garbled, others.closed = {}
        PROVE  /\ issues' \in Seq(Listed) /\ Ahead(page.number) <= Len(issues')
               /\ \A i \in 1..Ahead(page.number) : issues'[i] \in others'.opened \cup Range(read)
    <3>1. /\ issues \in Seq(Listed) /\ <<n>> \in Seq(Listed) /\ Ahead(page.number) <= Len(issues)
          /\ \A i \in 1..Ahead(page.number) : issues[i] \in others.opened \cup Range(read)
          /\ page.number \in Nat \ {0}
      BY <2>1, <2>2 DEF GithubInv, ListSound, Listed
    <3>2. Ahead(page.number) \in Nat
      BY <3>1, PageOfIs
    <3>3. PICK s : s = <<n>> \o issues
      OBVIOUS
    <3>4. /\ s \in Seq(Listed) /\ Len(s) = Len(issues) + 1 /\ s[1] = n
          /\ \A i \in 2..Len(issues) + 1 : s[i] = issues[i - 1]
      BY <3>1, <3>3
    <3>5. \A i \in 1..Ahead(page.number) : s[i] \in others'.opened \cup Range(read)
      <4> SUFFICES ASSUME NEW i \in 1..Ahead(page.number)
                   PROVE  s[i] \in others'.opened \cup Range(read)
        OBVIOUS
      <4>1. CASE i = 1
        BY <2>1, <3>4, <4>1
      <4>2. CASE i # 1
        <5>1. s[i] = issues[i - 1] /\ i - 1 \in 1..Ahead(page.number)
          BY <3>1, <3>2, <3>4, <4>2
        <5> QED  BY <2>1, <3>1, <5>1
      <4> QED  BY <4>1, <4>2
    <3> QED  BY <2>1, <3>1, <3>2, <3>3, <3>4, <3>5
  <2>3. ListSound'
    BY <2>1, <2>2 DEF GithubInv, ListSound
  <2> QED  BY <2>1, <2>3 DEF GithubInv, AnswersTrue
<1>3. ASSUME NEW t \in Topic, OthersTopics(t) PROVE GithubInv'
  <2>1. /\ ghstage = "put"
        /\ others' \in [closed : SUBSET Issue, opened : SUBSET Issue, topics : BOOLEAN]
        /\ UNCHANGED <<ghstage, ordered, issues, posted, page, read, answer, had, garbled>>
    BY <1>3 DEF OthersTopics, GithubInv
  <2> QED  BY <2>1 DEF GithubInv, MergeSound, AnswersTrue
<1> QED  BY <1>1, <1>2, <1>3

LEMMA GithubStep == GithubInv /\ [GithubNext]_hvars => GithubInv'
<1> SUFFICES ASSUME GithubInv, [GithubNext]_hvars PROVE GithubInv'
  OBVIOUS
<1>1. CASE UNCHANGED hvars
  BY <1>1 DEF hvars, GithubInv, ListSound, MergeSound, AnswersTrue, ListedWhole, TopicsAppended, ClaimedIsDone
<1>2. CASE GithubNext
  BY <1>2, InvokeKeeps, EndKeeps, PagesKeep, TopicsKeep, OthersKeep DEF GithubNext
<1> QED  BY <1>1, <1>2

------------------------------------------------------------------------------
(* The runs of tools.                                                       *)

(* No password of the server's own environment is left in a child's, and    *)
(* what is there as the profile's is a credential of the tool or a region.  *)
EnvSound(op, env, secret) ==
  /\ DOMAIN env \cap SENSITIVE_ENV_VARS = {}
  /\ \A v \in DOMAIN env : env[v] = "profile" => v \in CredentialsOf(op) \cup Regions
  /\ \A v \in DOMAIN env \cap CredentialsOf(op) : env[v] # "profile" =>
       \/ secret = Missing /\ op \notin AwsOps
       \/ v = "AWS_SESSION_TOKEN" /\ "token" \notin secret.has

LEMMA ChildEnvSound ==
  ASSUME NEW call, NEW secret, Wrong(call, secret) = "none"
  PROVE  EnvSound(call.op, ChildEnv(call, secret), secret)
<1>0. /\ hardened_command = [v \in DOMAIN hardened_command |-> "server"]
      /\ DOMAIN hardened_command \cap SENSITIVE_ENV_VARS = {}
  BY DEF hardened_command
<1>2. \A who, vs : From(who, vs) = [v \in vs |-> who]
  BY DEF From
<1>3. DOMAIN << >> = {}
  OBVIOUS
<1>4. CASE call.op \in AwsOps
  <2>1. parse_creds(secret)
    BY <1>4 DEF Wrong
  <2>2. ChildEnv(call, secret) = aws_command(secret, call.region)
    BY <1>4 DEF ChildEnv, AwsOps, NpmOps
  <2> DEFINE keyed   == WithVars(hardened_command, From("profile", Keys))
             token  == IF "token" \in secret.has THEN From("profile", {"AWS_SESSION_TOKEN"}) ELSE << >>
             region == RegionOf(secret, call.region)
  <2>3. ChildEnv(call, secret) = WithVars(WithVars(keyed, token), region)
    BY <2>2 DEF aws_command
  <2>4. /\ DOMAIN keyed = DOMAIN hardened_command \cup Keys
        /\ \A v \in Keys : keyed[v] = "profile"
        /\ \A v \in DOMAIN hardened_command \ Keys : keyed[v] = "server"
    BY <1>0 DEF WithVars, From
  <2>5. /\ DOMAIN token = IF "token" \in secret.has THEN {"AWS_SESSION_TOKEN"} ELSE {}
        /\ \A v \in DOMAIN token : token[v] = "profile"
    BY <1>2, <1>3
  <2>6. DOMAIN region \subseteq Regions
    BY <1>2, <1>3 DEF RegionOf
  <2> HIDE DEF keyed, token, region
  <2> DEFINE env == WithVars(WithVars(keyed, token), region)
  <2>7. /\ DOMAIN env = DOMAIN keyed \cup DOMAIN token \cup DOMAIN region
        /\ \A v \in DOMAIN env : env[v] = IF v \in DOMAIN region THEN region[v]
                                          ELSE IF v \in DOMAIN token THEN token[v] ELSE keyed[v]
    BY DEF WithVars
  <2> HIDE DEF env
  <2>8. CredentialsOf(call.op) = Keys \cup {"AWS_SESSION_TOKEN"}
    BY <1>4 DEF CredentialsOf
  <2>9. DOMAIN env \cap SENSITIVE_ENV_VARS = {}
    BY <1>0, <2>4, <2>5, <2>6, <2>7 DEF Keys, Regions, SENSITIVE_ENV_VARS
  <2>10. \A v \in DOMAIN env : env[v] = "profile" => v \in CredentialsOf(call.op) \cup Regions
    BY <2>4, <2>5, <2>6, <2>7, <2>8
  <2>11. \A v \in DOMAIN env \cap CredentialsOf(call.op) : env[v] # "profile" =>
           v = "AWS_SESSION_TOKEN" /\ "token" \notin secret.has
    BY <2>4, <2>5, <2>6, <2>7, <2>8 DEF Keys, Regions
  <2>12. ChildEnv(call, secret) = env
    BY <2>3 DEF env
  <2> QED  BY <2>9, <2>10, <2>11, <2>12 DEF EnvSound
<1>5. CASE call.op \in NpmOps \cup {"upload"}
  <2> DEFINE own  == IF call.op \in NpmOps THEN "NPM_TOKEN" ELSE "TWINE_PASSWORD"
             base == IF call.op \in NpmOps THEN hardened_command
                     ELSE WithVars(hardened_command, From("primitive", {"TWINE_USERNAME"}))
             set  == IF secret # Missing THEN From("profile", {own}) ELSE << >>
  <2>1. ChildEnv(call, secret) = WithVars(base, set)
    BY <1>5 DEF ChildEnv, NpmOps, AwsOps
  <2>2. CredentialsOf(call.op) = {own} /\ call.op \notin AwsOps
    BY <1>5 DEF CredentialsOf, NpmOps, AwsOps
  <2>3. /\ DOMAIN base \subseteq DOMAIN hardened_command \cup {"TWINE_USERNAME"}
        /\ \A v \in DOMAIN base : base[v] # "profile"
    BY <1>0 DEF WithVars, From
  <2>4. /\ DOMAIN set = IF secret # Missing THEN {own} ELSE {}
        /\ \A v \in DOMAIN set : set[v] = "profile"
    BY <1>2, <1>3
  <2>5. own \notin SENSITIVE_ENV_VARS
    BY DEF SENSITIVE_ENV_VARS
  <2> HIDE DEF own, base, set
  <2> DEFINE env == WithVars(base, set)
  <2>6. /\ DOMAIN env = DOMAIN base \cup DOMAIN set
        /\ \A v \in DOMAIN env : env[v] = IF v \in DOMAIN set THEN set[v] ELSE base[v]
    BY DEF WithVars
  <2> HIDE DEF env
  <2>7. DOMAIN env \cap SENSITIVE_ENV_VARS = {}
    BY <1>0, <2>3, <2>4, <2>5, <2>6 DEF SENSITIVE_ENV_VARS
  <2>8. ChildEnv(call, secret) = env
    BY <2>1 DEF env
  <2> QED  BY <2>2, <2>3, <2>4, <2>6, <2>7, <2>8 DEF EnvSound
<1>6. CASE call.op \notin AwsOps \cup NpmOps \cup {"upload"}
  <2>1. ChildEnv(call, secret) = hardened_command
    BY <1>6 DEF ChildEnv
  <2>2. CredentialsOf(call.op) = {}
    BY <1>6 DEF CredentialsOf
  <2>3. \A v \in DOMAIN hardened_command : hardened_command[v] # "profile"
    BY <1>0
  <2> QED  BY <1>0, <2>1, <2>2, <2>3 DEF EnvSound
<1> QED  BY <1>4, <1>5, <1>6

(* What a call has at each of its steps: the environment it was given, the  *)
(* registry pinned for the package as it was read, and a row and an answer   *)
(* that agree once it has ended.                                            *)
ChildShape == child = [at |-> child.at, call |-> child.call, secret |-> child.secret, read |-> child.read,
                       env |-> child.env, pins |-> child.pins, found |-> child.found, how |-> child.how]
PinsSound(pkg, pins) ==
  /\ "default" \in pins
  /\ pkg # NotJson =>
       /\ pkg.publishTo # Missing => pkg.publishTo = "npmjs"
       /\ pkg.scope # Missing => pkg.scope \in pins
RunsInv ==
  /\ ChildShape
  /\ child.at \in {"idle", "resolved", "prepared", "running", "ended"}
  /\ child.at \in {"prepared", "running"} =>
       /\ EnvSound(child.call.op, child.env, child.secret)
       /\ child.call.op = "publish" => PinsSound(child.read, child.pins)
  /\ child.at # "ended" => child.how = Missing /\ reply = NoReply
  /\ EndsAsAnswered

LEMMA RunsInvHolds == RunsInit => RunsInv
BY DEF RunsInit, RunsInv, ChildShape, NoChild, EndsAsAnswered

LEMMA RunsStep == RunsInv /\ [RunsNext]_rvars => RunsInv'
<1> SUFFICES ASSUME RunsInv, [RunsNext]_rvars PROVE RunsInv'
  OBVIOUS
<1>1. ASSUME NEW call \in ToolCalls, ResolveSecret(call) PROVE RunsInv'
  <2>1. /\ child'.at = "resolved" /\ child'.how = Missing /\ ChildShape' /\ reply' = NoReply
    BY <1>1 DEF ResolveSecret, ChildShape, NoChild
  <2> QED  BY <2>1 DEF RunsInv, EndsAsAnswered
<1>2. ASSUME Refusing \/ CannotStart PROVE RunsInv'
  <2>1. /\ child'.at = "ended" /\ child'.how = Missing /\ ChildShape'
    BY <1>2 DEF Refusing, CannotStart, RunsInv, ChildShape
  <2>2. reply' = NoReply /\ record'.status = "error"
    BY <1>2 DEF Refusing, CannotStart, Fails
  <2> QED  BY <2>1, <2>2, RunsConstants DEF RunsInv, EndsAsAnswered, NoReply
<1>3. ASSUME Prepare PROVE RunsInv'
  <2>1. /\ child.at = "resolved" /\ Wrong(child.call, child.secret) = "none"
        /\ child'.at = "prepared" /\ child'.call = child.call /\ child'.secret = child.secret
        /\ child'.env = ChildEnv(child.call, child.secret) /\ child'.read = folder
        /\ child'.how = Missing /\ reply' = NoReply /\ ChildShape'
    BY <1>3 DEF Prepare, RunsInv, ChildShape
  <2>2. child.call.op = "publish" => child'.pins = publish_argv \cup scope_pin(folder)
    BY <1>3 DEF Prepare, RunsInv, ChildShape, NpmOps
  <2>3. EnvSound(child'.call.op, child'.env, child'.secret)
    BY <2>1, ChildEnvSound
  <2>4. child.call.op = "publish" => PinsSound(folder, publish_argv \cup scope_pin(folder))
    <3>1. child.call.op = "publish" /\ folder # NotJson /\ folder.publishTo # Missing
            => folder.publishTo = "npmjs"
      BY <2>1 DEF Wrong, registry_is_npmjs, AwsOps
    <3> QED  BY <3>1 DEF PinsSound, publish_argv, scope_pin
  <2> QED  BY <2>1, <2>2, <2>3, <2>4 DEF RunsInv, EndsAsAnswered
<1>4. ASSUME Spawn PROVE RunsInv'
  <2>1. /\ child.at = "prepared" /\ child'.at = "running" /\ child'.call = child.call
        /\ child'.secret = child.secret /\ child'.env = child.env /\ child'.read = child.read
        /\ child'.pins = child.pins /\ child'.how = child.how /\ reply' = reply /\ ChildShape'
    BY <1>4 DEF Spawn, RunsInv, ChildShape
  <2> QED  BY <2>1 DEF RunsInv, EndsAsAnswered
<1>5. ASSUME NEW how \in {"zero", "other", "killed"}, Exits(how) PROVE RunsInv'
  <2>1. /\ child'.at = "ended" /\ child'.how = how /\ child'.call = child.call /\ ChildShape'
    BY <1>5 DEF Exits, RunsInv, ChildShape
  <2>2. how # Missing
    BY RunsConstants
  <2>3. CASE child.call.op \in GitOps /\ how # "zero"
    <3>1. reply' = NoReply /\ record'.status = "error"
      BY <1>5, <2>3 DEF Exits, Fails
    <3> QED  BY <2>1, <2>2, <2>3, <3>1 DEF RunsInv, EndsAsAnswered, NoReply
  <2>4. CASE ~(child.call.op \in GitOps /\ how # "zero")
    <3>1. /\ record'.status = "ok"
          /\ reply' = [result |-> TRUE, exit |-> IF how = "killed" THEN "zero" ELSE how,
                       success |-> IF child.call.op \in GitOps \cup {"exec"} THEN "none"
                                   ELSE IF how = "zero" THEN "yes" ELSE "no"]
      BY <1>5, <2>4 DEF Exits
    <3> QED  BY <2>1, <2>2, <2>4, <3>1 DEF RunsInv, EndsAsAnswered
  <2> QED  BY <2>3, <2>4
<1>6. ASSUME UNCHANGED <<child, record, reply>> PROVE RunsInv'
  BY <1>6 DEF RunsInv, ChildShape, EndsAsAnswered
<1> QED  BY <1>1, <1>2, <1>3, <1>4, <1>5, <1>6 DEF RunsNext, Turn, rvars

LEMMA RunsInvTells == RunsInv => RunsAsTold
<1> SUFFICES ASSUME RunsInv PROVE RunsAsTold
  OBVIOUS
<1>1. OneSource
  BY DEF RunsInv, EnvSound, OneSource
<1>2. PublishedAsPinned
  BY DEF RunsInv, PinsSound, PublishedAsPinned, PublishesTo
<1>3. EndsAsAnswered
  BY DEF RunsInv
<1> QED  BY <1>1, <1>2, <1>3 DEF RunsAsTold

PrimitivesInv == GithubInv /\ RunsInv

(* What the primitives answer is what has happened: at GitHub, whatever the *)
(* size of its pages and however many issues others open and close, and in  *)
(* the child, whatever the secrets, the folders and the variables of the    *)
(* server (github.rs, git.rs, npm.rs, pypi.rs, aws.rs, shell.rs).           *)
THEOREM PrimitivesAlwaysAnswerTrue == PrimitivesSpec => []PrimitivesAnswerTrue
<1>1. PrimitivesInit => PrimitivesInv
  BY GithubInvHolds, RunsInvHolds DEF PrimitivesInit, PrimitivesInv
<1>2. PrimitivesInv /\ [PrimitivesNext]_<<hvars, rvars>> => PrimitivesInv'
  BY GithubStep, RunsStep DEF PrimitivesNext, PrimitivesInv
<1>3. PrimitivesInv => PrimitivesAnswerTrue
  BY RunsInvTells DEF PrimitivesInv, GithubInv, PrimitivesAnswerTrue
<1> QED  BY <1>1, <1>2, <1>3, PTL DEF PrimitivesSpec

------------------------------------------------------------------------------
(* References to variables.                                                 *)

------------------------------------------------------------------------------
(* References to variables.                                                  *)

(* What is handed out in a span of time.                                     *)
InAllRun(f, a, b, sum) ==
  sum = [t \in a - 1..b |-> IF t < a THEN 0 ELSE sum[t - 1] + f[t]]

LEMMA InAllRuns ==
  ASSUME NEW f, NEW a \in Nat, NEW n \in Nat
  PROVE  \E sum : InAllRun(f, a, (a - 1) + n, sum) /\ InAll(f, a, (a - 1) + n) = sum[(a - 1) + n]
<1> DEFINE T == {k \in 0..n : \E sum : InAllRun(f, a, (a - 1) + k, sum)}
<1>1. 0 \in T
  <2>1. InAllRun(f, a, (a - 1) + 0, [t \in a - 1..(a - 1) + 0 |-> 0])
    BY DEF InAllRun
  <2> QED  BY <2>1
<1>2. ASSUME NEW k \in 0..n, k + 1 \in 0..n, k \in T PROVE k + 1 \in T
  <2>1. PICK sum : InAllRun(f, a, (a - 1) + k, sum)
    BY <1>2
  <2>2. PICK m : m = (a - 1) + k
    OBVIOUS
  <2>3. m \in Int /\ a - 1 <= m /\ (a - 1) + (k + 1) = m + 1
    BY <2>2
  <2> DEFINE more == [t \in a - 1..m + 1 |-> IF t = m + 1 THEN sum[m] + f[m + 1] ELSE sum[t]]
  <2>4. \A t \in a - 1..m : sum[t] = IF t < a THEN 0 ELSE sum[t - 1] + f[t]
    BY <2>1, <2>2 DEF InAllRun
  <2>5. ASSUME NEW t \in a - 1..m + 1 PROVE more[t] = IF t < a THEN 0 ELSE more[t - 1] + f[t]
    <3>1. CASE t = m + 1
      <4>1. ~(t < a) /\ t - 1 = m /\ m \in a - 1..m + 1 /\ m + 1 \in a - 1..m + 1 /\ m # m + 1
        BY <2>3, <3>1
      <4>2. more[m] = sum[m] /\ more[m + 1] = sum[m] + f[m + 1]
        BY <4>1
      <4> HIDE DEF more
      <4> QED  BY <3>1, <4>1, <4>2
    <3>2. CASE t # m + 1
      <4>1. t \in a - 1..m /\ more[t] = sum[t] /\ (~(t < a) => more[t - 1] = sum[t - 1])
        BY <2>3, <3>2
      <4> HIDE DEF more
      <4> QED  BY <2>4, <4>1
    <3> QED  BY <3>1, <3>2
  <2>6. InAllRun(f, a, m + 1, more)
    BY <2>5 DEF InAllRun
  <2> QED  BY <1>2, <2>3, <2>6
<1>3. T = 0..n
  <2>1. T \in SUBSET (0..n)
    OBVIOUS
  <2> HIDE DEF T
  <2> QED  BY <1>1, <1>2, <2>1, HandedOn
<1>4. \E sum : InAllRun(f, a, (a - 1) + n, sum)
  <2>1. n \in T
    <3> HIDE DEF T
    <3> QED  BY <1>3
  <2> QED  BY <2>1
<1>5. PICK b : b = (a - 1) + n
  OBVIOUS
<1>6. \E sum : sum = [t \in a - 1..b |-> IF t < a THEN 0 ELSE sum[t - 1] + f[t]]
  BY <1>4, <1>5 DEF InAllRun
<1>7. \E sum : InAllRun(f, a, b, sum) /\ InAll(f, a, b) = sum[b]
  BY <1>6 DEF InAll, InAllRun
<1> QED  BY <1>5, <1>7

(* The sum is a number, ends with its last count and depends on no other.    *)
Counts(f, b) == \A t \in 0..b : f[t] \in Nat
Agree(f, g, a, b) == \A t \in a..b : f[t] = g[t]

LEMMA InAllNone == ASSUME NEW f, NEW a \in Nat PROVE InAll(f, a, a - 1) = 0
<1>1. PICK sum : InAllRun(f, a, (a - 1) + 0, sum) /\ InAll(f, a, (a - 1) + 0) = sum[(a - 1) + 0]
  BY InAllRuns
<1>2. (a - 1) + 0 = a - 1 /\ a - 1 \in a - 1..a - 1 /\ a - 1 < a
  OBVIOUS
<1>3. sum[a - 1] = 0
  BY <1>1, <1>2 DEF InAllRun
<1> QED  BY <1>1, <1>2, <1>3

LEMMA InAllAgree ==
  ASSUME NEW f, NEW g, NEW a \in Nat, NEW b \in Int, a - 1 <= b, Counts(f, b), Agree(f, g, a, b)
  PROVE  InAll(f, a, b) \in Nat /\ InAll(f, a, b) = InAll(g, a, b)
<1>a. PICK n \in Nat : n = b - (a - 1)
  OBVIOUS
<1>b. b = (a - 1) + n
  BY <1>a
<1>1. PICK F : InAllRun(f, a, (a - 1) + n, F) /\ InAll(f, a, (a - 1) + n) = F[(a - 1) + n]
  BY InAllRuns
<1>2. PICK G : InAllRun(g, a, (a - 1) + n, G) /\ InAll(g, a, (a - 1) + n) = G[(a - 1) + n]
  BY InAllRuns
<1>3. /\ \A t \in a - 1..(a - 1) + n : F[t] = IF t < a THEN 0 ELSE F[t - 1] + f[t]
      /\ \A t \in a - 1..(a - 1) + n : G[t] = IF t < a THEN 0 ELSE G[t - 1] + g[t]
  BY <1>1, <1>2 DEF InAllRun
<1> DEFINE T == {k \in 0..n : F[(a - 1) + k] \in Nat /\ F[(a - 1) + k] = G[(a - 1) + k]}
<1>4. 0 \in T
  <2>1. (a - 1) + 0 \in a - 1..(a - 1) + n /\ (a - 1) + 0 < a
    OBVIOUS
  <2> QED  BY <1>3, <2>1
<1>5. ASSUME NEW k \in 0..n, k + 1 \in 0..n, k \in T PROVE k + 1 \in T
  <2>1. PICK m : m = (a - 1) + k
    OBVIOUS
  <2>2. m + 1 = (a - 1) + (k + 1) /\ (m + 1) - 1 = m /\ ~(m + 1 < a) /\ m + 1 \in a..(a - 1) + n
        /\ m + 1 \in 0..(a - 1) + n /\ m + 1 \in a - 1..(a - 1) + n
    BY <1>5, <2>1
  <2>3. F[m] \in Nat /\ F[m] = G[m] /\ f[m + 1] \in Nat /\ f[m + 1] = g[m + 1]
    BY <1>5, <2>1, <2>2, <1>b DEF Counts, Agree
  <2>4. F[m + 1] = F[m] + f[m + 1] /\ G[m + 1] = G[m] + g[m + 1]
    BY <1>3, <2>2
  <2> QED  BY <1>5, <2>2, <2>3, <2>4
<1>6. T = 0..n
  <2>1. T \in SUBSET (0..n)
    OBVIOUS
  <2> HIDE DEF T
  <2> QED  BY <1>4, <1>5, <2>1, HandedOn
<1>7. n \in T
  <2> HIDE DEF T
  <2> QED  BY <1>6
<1> QED  BY <1>1, <1>2, <1>7, <1>b

LEMMA InAllOf ==
  ASSUME NEW f, NEW a \in Nat, NEW b \in Int, a - 1 <= b, Counts(f, b)
  PROVE  /\ InAll(f, a, b) \in Nat
         /\ \A g : (\A t \in a..b : f[t] = g[t]) => InAll(g, a, b) = InAll(f, a, b)
         /\ a <= b => InAll(f, a, b) = InAll(f, a, b - 1) + f[b]
<1>1. PICK n \in Nat : n = b - (a - 1)
  OBVIOUS
<1>2. b = (a - 1) + n
  BY <1>1
<1>3. InAll(f, a, b) \in Nat
  BY InAllAgree DEF Agree
<1>4. ASSUME NEW g, \A t \in a..b : f[t] = g[t] PROVE InAll(g, a, b) = InAll(f, a, b)
  <2>1. Agree(f, g, a, b)
    BY <1>4 DEF Agree
  <2> QED  BY <2>1, InAllAgree
<1>5. ASSUME a <= b PROVE InAll(f, a, b) = InAll(f, a, b - 1) + f[b]
  <2>1. PICK F : InAllRun(f, a, b, F) /\ InAll(f, a, b) = F[b]
    BY <1>2, InAllRuns
  <2>2. n - 1 \in Nat /\ b - 1 = (a - 1) + (n - 1)
    BY <1>1, <1>5
  <2> DEFINE l == n - 1
  <2>a. \E G : InAllRun(f, a, (a - 1) + l, G) /\ InAll(f, a, (a - 1) + l) = G[(a - 1) + l]
    <3>1. l \in Nat
      BY <2>2
    <3> HIDE DEF l
    <3> QED  BY <3>1, InAllRuns
  <2>3. PICK G : InAllRun(f, a, b - 1, G) /\ InAll(f, a, b - 1) = G[b - 1]
    BY <2>2, <2>a
  <2> DEFINE T == {k \in 0..n - 1 : F[(a - 1) + k] = G[(a - 1) + k]}
  <2>4. /\ \A t \in a - 1..b : F[t] = IF t < a THEN 0 ELSE F[t - 1] + f[t]
        /\ \A t \in a - 1..b - 1 : G[t] = IF t < a THEN 0 ELSE G[t - 1] + f[t]
    BY <2>1, <2>3 DEF InAllRun
  <2>5. 0 \in T
    <3>1. (a - 1) + 0 \in a - 1..b - 1 /\ (a - 1) + 0 \in a - 1..b /\ (a - 1) + 0 < a /\ 0 \in 0..n - 1
      BY <1>2, <2>2
    <3> QED  BY <2>4, <3>1
  <2>6. ASSUME NEW k \in 0..n - 1, k + 1 \in 0..n - 1, k \in T PROVE k + 1 \in T
    <3>1. PICK m : m = (a - 1) + k
      OBVIOUS
    <3>2. m + 1 = (a - 1) + (k + 1) /\ (m + 1) - 1 = m /\ ~(m + 1 < a) /\ m + 1 \in a - 1..b - 1
          /\ m + 1 \in a - 1..b
      BY <1>2, <2>6, <3>1
    <3>3. F[m] = G[m]
      BY <2>6, <3>1
    <3>4. F[m + 1] = F[m] + f[m + 1] /\ G[m + 1] = G[m] + f[m + 1]
      BY <2>4, <3>2
    <3> QED  BY <2>6, <3>2, <3>3, <3>4
  <2>7. T = 0..n - 1
    <3>1. T \in SUBSET (0..n - 1)
      OBVIOUS
    <3> HIDE DEF T
    <3> QED  BY <2>2, <2>5, <2>6, <3>1, HandedOn
  <2>8. n - 1 \in T
    <3> HIDE DEF T
    <3> QED  BY <2>2, <2>7
  <2>9. F[b - 1] = G[b - 1]
    BY <2>2, <2>8
  <2>10. b \in a - 1..b /\ ~(b < a)
    BY <1>5
  <2>11. F[b] = F[b - 1] + f[b]
    BY <2>4, <2>10
  <2> QED  BY <2>1, <2>3, <2>9, <2>11
<1> QED  BY <1>3, <1>4, <1>5

(* The least of some numbers.                                                *)
LEMMA LeastOf ==
  ASSUME NEW S \in SUBSET Nat, S # {}
  PROVE  Min(S) \in S /\ \A j \in S : Min(S) <= j
<1>1. PICK k \in S : \A j \in S : ~(<<j, k>> \in OpToRel(<, Nat))
  BY NatLessThanWellFounded, WFMin
<1>2. \A j \in S : ~(j < k)
  BY <1>1 DEF OpToRel
<1>3. \A j \in S : k <= j
  BY <1>2
<1> QED  BY <1>3 DEF Min

(* Wording.                                                                    *)
Joined(u, v) == u \o v

LEMMA JoinedIs ==
  ASSUME NEW W, NEW u \in Seq(W), NEW v \in Seq(W)
  PROVE  /\ Joined(u, v) \in Seq(W) /\ Len(u) \in Nat /\ Len(v) \in Nat
         /\ Len(Joined(u, v)) = Len(u) + Len(v)
         /\ \A i \in 1..Len(u) + Len(v) : Joined(u, v)[i] = IF i <= Len(u) THEN u[i] ELSE v[i - Len(u)]
BY ConcatProperties, LenProperties DEF Joined

LEMMA JoinedOn ==
  ASSUME NEW W, NEW u \in Seq(W), NEW v \in Seq(W), NEW w \in Seq(W)
  PROVE  Joined(Joined(u, v), w) = Joined(u, Joined(v, w))
BY ConcatAssociative DEF Joined

LEMMA JoinedNone ==
  ASSUME NEW W, NEW u \in Seq(W)
  PROVE  Joined(u, <<>>) = u /\ Joined(<<>>, u) = u /\ <<>> \in Seq(W)
BY ConcatEmptySeq, EmptySeq DEF Joined

LEMMA JoinedContains ==
  ASSUME NEW W, NEW u \in Seq(W), NEW v \in Seq(W), NEW c
  PROVE  Contains(Joined(u, v), c) => Contains(u, c) \/ Contains(v, c)
<1>1. PICK w : w = Joined(u, v)
  OBVIOUS
<1>2. Len(w) = Len(u) + Len(v) /\ Len(u) \in Nat /\ Len(v) \in Nat
      /\ \A i \in 1..Len(u) + Len(v) : w[i] = IF i <= Len(u) THEN u[i] ELSE v[i - Len(u)]
  BY <1>1, JoinedIs
<1>3. ASSUME NEW i \in 1..Len(w), w[i] = c PROVE Contains(u, c) \/ Contains(v, c)
  <2>1. CASE i <= Len(u)
    BY <1>2, <1>3, <2>1 DEF Contains
  <2>2. CASE ~(i <= Len(u))
    <3>1. i - Len(u) \in 1..Len(v) /\ v[i - Len(u)] = c
      BY <1>2, <1>3, <2>2
    <3> QED  BY <3>1 DEF Contains
  <2> QED  BY <2>1, <2>2
<1> QED  BY <1>1, <1>3 DEF Contains

LEMMA PartContains ==
  ASSUME NEW W, NEW s \in Seq(W), NEW a \in 1..Len(s) + 1, NEW b \in 0..Len(s), NEW c
  PROVE  SubSeq(s, a, b) \in Seq(W) /\ (Contains(SubSeq(s, a, b), c) => Contains(s, c))
<1>1. Len(s) \in Nat /\ \A i \in 1..Len(s) : s[i] \in W
  BY LenProperties, ElementOfSeq
<1>2. a \in Int /\ b \in Int /\ \A i \in a..b : i \in 1..Len(s) /\ s[i] \in W
  BY <1>1
<1>3. PICK u : u = SubSeq(s, a, b)
  OBVIOUS
<1>4. u \in Seq(W) /\ Len(u) = (IF a <= b THEN b - a + 1 ELSE 0) /\ \A i \in 1..b - a + 1 : u[i] = s[a + i - 1]
  BY <1>2, <1>3, SubSeqProperties
<1>5. ASSUME NEW i \in 1..Len(u), u[i] = c PROVE Contains(s, c)
  <2>1. i \in 1..b - a + 1
    BY <1>4, <1>5, <1>2
  <2>2. a + i - 1 \in 1..Len(s)
    BY <1>1, <2>1
  <2> QED  BY <1>4, <1>5, <2>1, <2>2 DEF Contains
<1> QED  BY <1>3, <1>4, <1>5 DEF Contains

(* The place at which the match m was found.                                 *)
FoundAt(m) == IF m.escaped THEN m.start - 1 ELSE m.start

(* A match is as long as its words, between its marks no mark begins.        *)
Matched(s, i, m) ==
  /\ m.end # 0 /\ m.escaped \in BOOLEAN /\ m.start \in Nat /\ FoundAt(m) = i
  /\ m.escaped <=> s[i] = "\\"
  /\ m.end \in m.start + 3..Len(s)
  /\ s[m.start] = "{{" /\ s[m.end] = "}}"
  /\ \A j \in m.start + 1..m.end : s[j] \notin {"{{", "\\"}

LEMMA MatchIs ==
  ASSUME NEW W, NEW s \in Seq(W), NEW i \in 1..Len(s), MatchAt(s, i).end # 0
  PROVE  Matched(s, i, MatchAt(s, i))
<1>1. Len(s) \in Nat
  BY LenProperties
<1> DEFINE b == IF s[i] = "\\" THEN i + 1 ELSE i
           e == {n \in b + 3..Len(s) : s[n] = "}}" /\ \A m \in b + 2..n - 1 : s[m] \in KeyChar}
<1>2. b \in Nat \ {0} /\ (b # i <=> s[i] = "\\") /\ (b = i \/ b = i + 1)
  OBVIOUS
<1>3. /\ b + 3 <= Len(s) /\ s[b] = "{{" /\ s[b + 1] \in {"lvr:", "cfg:"} /\ e # {}
      /\ MatchAt(s, i) = [start |-> b, end |-> Min(e), ns |-> s[b + 1], escaped |-> b # i,
                          key |-> SubSeq(s, b + 2, Min(e) - 1)]
  <2>1. ~(/\ b + 3 <= Len(s) /\ s[b] = "{{" /\ s[b + 1] \in {"lvr:", "cfg:"}
          /\ s[b + 2] \in KeyChar \ {".", "..", "-"} /\ e # {}) => MatchAt(s, i) = [end |-> 0]
    BY DEF MatchAt
  <2>2. (/\ b + 3 <= Len(s) /\ s[b] = "{{" /\ s[b + 1] \in {"lvr:", "cfg:"}
         /\ s[b + 2] \in KeyChar \ {".", "..", "-"} /\ e # {})
        => MatchAt(s, i) = [start |-> b, end |-> Min(e), ns |-> s[b + 1], escaped |-> b # i,
                            key |-> SubSeq(s, b + 2, Min(e) - 1)]
    BY DEF MatchAt
  <2> HIDE DEF b, e
  <2>3. [end |-> 0].end = 0
    OBVIOUS
  <2> QED  BY <2>1, <2>2, <2>3
<1>a. e \subseteq b + 3..Len(s)
  OBVIOUS
<1> HIDE DEF b
<1>4. PICK last : last = Min(e)
  OBVIOUS
<1>5. last \in e
  <2> HIDE DEF e
  <2>1. e \in SUBSET Nat
    BY <1>1, <1>2, <1>a
  <2> QED  BY <1>3, <1>4, <2>1, LeastOf
<1>6. last \in b + 3..Len(s) /\ s[last] = "}}" /\ \A j \in b + 2..last - 1 : s[j] \in KeyChar
  BY <1>5
<1>b. last \in Int /\ last # 0 /\ b + 3 <= last /\ last <= Len(s)
  <2>1. last \in b + 3..Len(s)
    BY <1>6
  <2> QED  BY ONLY <1>1, <1>2, <2>1
<1>7. PICK m : m = MatchAt(s, i)
  OBVIOUS
<1> HIDE DEF e
<1>8. m.start = b /\ m.end = last /\ m.ns = s[b + 1] /\ m.escaped = (b # i)
  <2>1. m = [start |-> b, end |-> last, ns |-> s[b + 1], escaped |-> b # i, key |-> SubSeq(s, b + 2, last - 1)]
    BY <1>3, <1>4, <1>7
  <2>2. PICK f, k : f = (b # i) /\ k = SubSeq(s, b + 2, last - 1)
    OBVIOUS
  <2>3. m = [start |-> b, end |-> last, ns |-> s[b + 1], escaped |-> f, key |-> k]
    BY <2>1, <2>2, Zenon
  <2>4. m.start = b /\ m.end = last /\ m.ns = s[b + 1] /\ m.escaped = f
    BY ONLY <2>3
  <2> QED  BY <2>2, <2>4, Zenon
<1>9. m.escaped \in BOOLEAN /\ (m.escaped <=> s[i] = "\\")
  <2>1. CASE b = i
    BY <1>2, <1>8, <2>1
  <2>2. CASE b # i
    BY <1>2, <1>8, <2>2
  <2> QED  BY <2>1, <2>2
<1>10. FoundAt(m) = i
  <2>1. CASE b = i
    <3>1. ~m.escaped
      BY <1>2, <1>9, <2>1
    <3> QED  BY <1>8, <2>1, <3>1 DEF FoundAt
  <2>2. CASE b # i
    <3>1. m.escaped /\ m.start = i + 1
      BY <1>2, <1>8, <1>9, <2>2
    <3>2. FoundAt(m) = m.start - 1
      BY <3>1 DEF FoundAt
    <3> QED  BY <3>1, <3>2
  <2> QED  BY <2>1, <2>2
<1>11. ASSUME NEW j \in b + 1..last PROVE s[j] \notin {"{{", "\\"}
  <2>1. "{{" \notin KeyChar /\ "\\" \notin KeyChar
    BY DEF KeyChar, Letter, Digit
  <2>2. j = b + 1 \/ j \in b + 2..last - 1 \/ j = last
    <3>1. last \in Int /\ b \in Int /\ j \in Int /\ b + 1 <= j /\ j <= last
      BY <1>2, <1>11, <1>b
    <3> QED  BY <3>1
  <2>3. CASE j = b + 1
    BY <1>3, <2>3
  <2>4. CASE j \in b + 2..last - 1
    BY <1>6, <2>1, <2>4
  <2>5. CASE j = last
    BY <1>6, <2>5
  <2> QED  BY <2>2, <2>3, <2>4, <2>5
<1>13. \A j \in m.start + 1..m.end : s[j] \notin {"{{", "\\"}
  BY <1>8, <1>11
<1>14. m.end # 0 /\ m.start \in Nat /\ m.end \in m.start + 3..Len(s) /\ s[m.start] = "{{" /\ s[m.end] = "}}"
  BY <1>2, <1>3, <1>6, <1>8, <1>b
<1> QED  BY <1>7, <1>9, <1>10, <1>13, <1>14 DEF Matched

LEMMA MatchSpan ==
  ASSUME NEW s, Len(s) \in Nat, NEW i \in 1..Len(s), NEW m, Matched(s, i, m)
  PROVE  /\ m.start \in Nat /\ FoundAt(m) = i /\ i <= m.start /\ m.start <= i + 1 /\ m.end \in m.start + 3..Len(s)
         /\ m.end \in Nat /\ m.start + 3 <= m.end /\ s[m.start] = "{{" /\ s[m.end] = "}}"
<1>1. m.start \in Nat /\ FoundAt(m) = i /\ m.end \in m.start + 3..Len(s) /\ s[m.start] = "{{" /\ s[m.end] = "}}"
  BY DEF Matched
<1>2. m.start - 1 = i \/ m.start = i
  BY <1>1 DEF FoundAt
<1>3. PICK b, e : b = m.start /\ e = m.end
  OBVIOUS
<1>4. b \in Nat /\ e \in b + 3..Len(s) /\ (b - 1 = i \/ b = i)
  BY <1>1, <1>2, <1>3
<1>5. i <= b /\ b <= i + 1 /\ e \in Nat /\ b + 3 <= e
  BY ONLY <1>4, i \in 1..Len(s), Len(s) \in Nat
<1> QED  BY <1>1, <1>3, <1>5

(* A "\" before a reference is part of its match.                            *)
LEMMA MatchTakesEscape ==
  ASSUME NEW W, NEW s \in Seq(W), NEW i \in 2..Len(s), s[i - 1] = "\\", s[i] # "\\", MatchAt(s, i).end # 0
  PROVE  MatchAt(s, i - 1).end # 0
<1> DEFINE e == {n \in i + 3..Len(s) : s[n] = "}}" /\ \A m \in i + 2..n - 1 : s[m] \in KeyChar}
<1>1. MatchAt(s, i) = IF /\ i + 3 <= Len(s) /\ s[i] = "{{" /\ s[i + 1] \in {"lvr:", "cfg:"}
                         /\ s[i + 2] \in KeyChar \ {".", "..", "-"} /\ e # {}
                      THEN [start |-> i, end |-> Min(e), ns |-> s[i + 1], escaped |-> i # i,
                            key |-> SubSeq(s, i + 2, Min(e) - 1)]
                      ELSE [end |-> 0]
  BY DEF MatchAt
<1>2. (i - 1) + 1 = i
  OBVIOUS
<1>3. MatchAt(s, i - 1) = IF /\ i + 3 <= Len(s) /\ s[i] = "{{" /\ s[i + 1] \in {"lvr:", "cfg:"}
                             /\ s[i + 2] \in KeyChar \ {".", "..", "-"} /\ e # {}
                          THEN [start |-> i, end |-> Min(e), ns |-> s[i + 1], escaped |-> i # i - 1,
                                key |-> SubSeq(s, i + 2, Min(e) - 1)]
                          ELSE [end |-> 0]
  BY <1>2 DEF MatchAt
<1> HIDE DEF e
<1>4. [end |-> 0].end = 0
  OBVIOUS
<1>5. /\ i + 3 <= Len(s) /\ s[i] = "{{" /\ s[i + 1] \in {"lvr:", "cfg:"}
      /\ s[i + 2] \in KeyChar \ {".", "..", "-"} /\ e # {}
  BY <1>1, <1>4
<1>6. MatchAt(s, i) = [start |-> i, end |-> Min(e), ns |-> s[i + 1], escaped |-> i # i,
                       key |-> SubSeq(s, i + 2, Min(e) - 1)]
  BY <1>1, <1>5
<1>7. MatchAt(s, i - 1) = [start |-> i, end |-> Min(e), ns |-> s[i + 1], escaped |-> i # i - 1,
                           key |-> SubSeq(s, i + 2, Min(e) - 1)]
  BY <1>3, <1>5
<1>8. MatchAt(s, i).end = Min(e)
  BY <1>6
<1>9. MatchAt(s, i - 1).end = Min(e)
  BY <1>7
<1> QED  BY <1>8, <1>9

(* The scan, as find_all makes it.                                           *)
HitsFrom(s, i, scan) ==
  IF i > Len(s) THEN <<>>
  ELSE IF MatchAt(s, i).end = 0 THEN scan[i + 1]
       ELSE <<MatchAt(s, i)>> \o scan[MatchAt(s, i).end + 1]
HitRun(s, k, scan) == scan = [i \in k..(Len(s) + 1) |-> HitsFrom(s, i, scan)]

LEMMA HitRuns ==
  ASSUME NEW W, NEW s \in Seq(W)
  PROVE  \E scan : HitRun(s, 1, scan) /\ find_all(s) = scan[1]
<1>0. Len(s) \in Nat
  BY LenProperties
<1> DEFINE T == {k \in 0..Len(s) : \E scan : HitRun(s, Len(s) + 1 - k, scan)}
<1>1. 0 \in T
  <2> DEFINE scan == [i \in (Len(s) + 1)..(Len(s) + 1) |-> <<>>]
  <2>1. \A i \in (Len(s) + 1)..(Len(s) + 1) : HitsFrom(s, i, scan) = <<>>
    BY <1>0 DEF HitsFrom
  <2>2. HitRun(s, Len(s) + 1, scan)
    BY <2>1 DEF HitRun
  <2> QED  BY <1>0, <2>2
<1>2. ASSUME NEW k \in 0..Len(s), k + 1 \in 0..Len(s), k \in T PROVE k + 1 \in T
  <2>1. PICK scan : HitRun(s, Len(s) + 1 - k, scan)
    BY <1>2
  <2>2. PICK j : j = Len(s) - k
    OBVIOUS
  <2>3. j \in 1..Len(s) /\ j + 1 = Len(s) + 1 - k /\ j = Len(s) + 1 - (k + 1)
    BY <1>0, <1>2, <2>2
  <2> DEFINE more == [i \in j..(Len(s) + 1) |-> IF i = j THEN HitsFrom(s, j, scan) ELSE scan[i]]
  <2>4. ASSUME NEW i \in j..(Len(s) + 1) PROVE more[i] = HitsFrom(s, i, more)
    <3>1. \A l \in (i + 1)..(Len(s) + 1) : more[l] = scan[l]
      BY <1>0, <2>3
    <3>2. more[i] = HitsFrom(s, i, scan)
      <4>1. CASE i = j
        BY <1>0, <2>3, <4>1
      <4>2. CASE i # j
        <5>1. i \in (j + 1)..(Len(s) + 1)
          BY <1>0, <2>3, <4>2
        <5>2. scan[i] = HitsFrom(s, i, scan)
          BY <2>1, <2>3, <5>1 DEF HitRun
        <5> QED  BY <4>2, <5>2
      <4> QED  BY <4>1, <4>2
    <3> HIDE DEF more
    <3>3. CASE i > Len(s)
      BY <3>2, <3>3 DEF HitsFrom
    <3>4. CASE ~(i > Len(s))
      <4>1. i \in 1..Len(s) /\ i + 1 \in (i + 1)..(Len(s) + 1)
        BY <1>0, <2>3, <3>4
      <4>2. MatchAt(s, i).end # 0 => MatchAt(s, i).end + 1 \in (i + 1)..(Len(s) + 1)
        <5> SUFFICES ASSUME MatchAt(s, i).end # 0 PROVE MatchAt(s, i).end + 1 \in (i + 1)..(Len(s) + 1)
          OBVIOUS
        <5>1. PICK m : m = MatchAt(s, i)
          OBVIOUS
        <5>2. Matched(s, i, m)
          BY <4>1, <5>1, MatchIs
        <5>3. m.start \in Nat /\ i <= m.start /\ m.end \in m.start + 3..Len(s)
          BY <1>0, <4>1, <5>2, MatchSpan
        <5>4. m.end + 1 \in (i + 1)..(Len(s) + 1)
          BY <1>0, <4>1, <5>3
        <5> QED  BY <5>1, <5>4
      <4> QED  BY <3>1, <3>2, <3>4, <4>1, <4>2 DEF HitsFrom
    <3> QED  BY <3>3, <3>4
  <2>5. HitRun(s, j, more)
    BY <2>4 DEF HitRun
  <2> QED  BY <1>2, <2>3, <2>5
<1>3. T = 0..Len(s)
  <2>1. T \in SUBSET (0..Len(s))
    OBVIOUS
  <2> HIDE DEF T
  <2> QED  BY <1>0, <1>1, <1>2, <2>1, HandedOn
<1>4. \E scan : HitRun(s, 1, scan)
  <2>1. Len(s) \in T /\ Len(s) + 1 - Len(s) = 1
    BY <1>0, <1>3
  <2> QED  BY <2>1
<1>5. \E scan : scan = [i \in 1..Len(s) + 1 |->
                          IF i > Len(s) THEN <<>>
                          ELSE LET m == MatchAt(s, i)
                               IN  IF m.end = 0 THEN scan[i + 1] ELSE <<m>> \o scan[m.end + 1]]
  BY <1>4 DEF HitRun, HitsFrom
<1> QED  BY <1>5 DEF find_all, HitRun, HitsFrom

(* A scan from place i finds matches one behind the other, and every match   *)
(* begins in one that it found.                                              *)
Behind(hits, n, a) == \A l \in 1..Len(hits) : l < n => hits[l].end < a
Hit(s, i, hits, n) ==
  /\ FoundAt(hits[n]) \in i..Len(s) /\ MatchAt(s, FoundAt(hits[n])) = hits[n] /\ hits[n].end # 0
  /\ Behind(hits, n, FoundAt(hits[n]))
Covered(hits, j) == \E n \in 1..Len(hits) : j \in FoundAt(hits[n])..hits[n].end
Found(s, i, hits) ==
  /\ hits \in Seq({MatchAt(s, j) : j \in 1..Len(s)})
  /\ \A n \in 1..Len(hits) : Hit(s, i, hits, n)
  /\ \A j \in i..Len(s) : MatchAt(s, j).end = 0 \/ Covered(hits, j)

LEMMA FoundNone ==
  ASSUME NEW W, NEW s \in Seq(W), NEW i \in 1..Len(s), MatchAt(s, i).end = 0,
         NEW hits, Found(s, i + 1, hits)
  PROVE  Found(s, i, hits)
<1>1. Len(s) \in Nat
  BY LenProperties
<1>2. \A n \in 1..Len(hits) : Hit(s, i, hits, n)
  <2> SUFFICES ASSUME NEW n \in 1..Len(hits) PROVE Hit(s, i, hits, n)
    OBVIOUS
  <2>1. Hit(s, i + 1, hits, n)
    BY DEF Found
  <2>2. FoundAt(hits[n]) \in i..Len(s)
    <3>1. FoundAt(hits[n]) \in i + 1..Len(s)
      BY <2>1 DEF Hit
    <3> QED  BY <1>1, <3>1
  <2> QED  BY <2>1, <2>2 DEF Hit
<1>3. ASSUME NEW j \in i..Len(s) PROVE MatchAt(s, j).end = 0 \/ Covered(hits, j)
  <2>1. j = i \/ j \in i + 1..Len(s)
    BY <1>1
  <2> QED  BY <2>1 DEF Found
<1> QED  BY <1>2, <1>3 DEF Found

LEMMA FoundOne ==
  ASSUME NEW W, NEW s \in Seq(W), NEW i \in 1..Len(s), NEW m, m = MatchAt(s, i), m.end # 0,
         NEW rest, Found(s, m.end + 1, rest)
  PROVE  Found(s, i, <<m>> \o rest)
<1> DEFINE M == {MatchAt(s, j) : j \in 1..Len(s)}
<1>1. Len(s) \in Nat
  BY LenProperties
<1>2. Matched(s, i, m)
  BY MatchIs
<1>3. m.start \in Nat /\ FoundAt(m) = i /\ i <= m.start /\ m.end \in m.start + 3..Len(s)
  BY <1>1, <1>2, MatchSpan
<1>4. PICK hits : hits = <<m>> \o rest
  OBVIOUS
<1>5. m \in M /\ rest \in Seq(M)
  BY DEF Found
<1> HIDE DEF M
<1>6. <<m>> \in Seq(M) /\ Len(<<m>>) = 1 /\ <<m>>[1] = m
  BY <1>5
<1>7. /\ hits \in Seq(M) /\ Len(rest) \in Nat /\ Len(hits) = Len(rest) + 1 /\ hits[1] = m
      /\ \A n \in 1..Len(rest) : hits[n + 1] = rest[n]
  <2>1. PICK one : one = <<m>>
    OBVIOUS
  <2>2. one \in Seq(M) /\ Len(one) = 1 /\ one[1] = m
    BY <1>6, <2>1
  <2>3. /\ hits \in Seq(M) /\ Len(hits) = Len(one) + Len(rest)
        /\ \A n \in 1..Len(one) + Len(rest) : hits[n] = IF n <= Len(one) THEN one[n] ELSE rest[n - Len(one)]
    BY <1>4, <1>5, <2>1, <2>2, ConcatProperties
  <2>4. Len(rest) \in Nat
    BY <1>5, LenProperties
  <2>5. ASSUME NEW n \in 1..Len(rest) PROVE hits[n + 1] = rest[n]
    <3>1. n + 1 \in 1..Len(one) + Len(rest) /\ ~(n + 1 <= Len(one)) /\ (n + 1) - Len(one) = n
      BY <2>2, <2>4
    <3> QED  BY <2>3, <3>1
  <2>6. hits[1] = m
    BY <2>2, <2>3, <2>4
  <2> QED  BY <2>2, <2>3, <2>4, <2>5, <2>6
<1>8. ASSUME NEW n \in 1..Len(hits) PROVE Hit(s, i, hits, n)
  <2>1. CASE n = 1
    <3>1. Behind(hits, 1, i)
      BY DEF Behind
    <3> QED  BY <1>1, <1>3, <1>7, <2>1, <3>1 DEF Hit
  <2>2. CASE n # 1
    <3>1. PICK k \in 1..Len(rest) : n = k + 1
      <4>1. n - 1 \in 1..Len(rest) /\ n = (n - 1) + 1
        BY <1>7, <1>8, <2>2
      <4> QED  BY <4>1
    <3>2. Hit(s, m.end + 1, rest, k) /\ hits[n] = rest[k]
      BY <1>7, <3>1 DEF Found
    <3>3. PICK a : a = FoundAt(hits[n])
      OBVIOUS
    <3>4. a \in m.end + 1..Len(s) /\ MatchAt(s, a) = hits[n] /\ hits[n].end # 0
      BY <3>2, <3>3 DEF Hit
    <3>5. ASSUME NEW l \in 1..Len(hits), l < n PROVE hits[l].end < a
      <4>1. CASE l = 1
        BY <1>1, <1>3, <1>7, <3>4, <4>1
      <4>2. CASE l # 1
        <5>1. l - 1 \in 1..Len(rest) /\ l = (l - 1) + 1 /\ l - 1 < k
          BY <1>7, <3>1, <3>5, <4>2
        <5>2. hits[l] = rest[l - 1]
          BY <1>7, <5>1
        <5>3. rest[l - 1].end < a
          BY <3>2, <3>3, <5>1 DEF Hit, Behind
        <5> QED  BY <5>2, <5>3
      <4> QED  BY <4>1, <4>2
    <3>6. a \in i..Len(s)
      BY <1>1, <1>3, <3>4
    <3> QED  BY <3>3, <3>4, <3>5, <3>6 DEF Hit, Behind
  <2> QED  BY <2>1, <2>2
<1>9. ASSUME NEW j \in i..Len(s) PROVE MatchAt(s, j).end = 0 \/ Covered(hits, j)
  <2>1. CASE j <= m.end
    <3>1. 1 \in 1..Len(hits) /\ j \in FoundAt(hits[1])..hits[1].end
      BY <1>1, <1>3, <1>7, <2>1
    <3> QED  BY <3>1 DEF Covered
  <2>2. CASE ~(j <= m.end)
    <3>1. j \in m.end + 1..Len(s)
      BY <1>1, <1>3, <2>2
    <3>2. MatchAt(s, j).end = 0 \/ Covered(rest, j)
      BY <3>1 DEF Found
    <3>3. ASSUME Covered(rest, j) PROVE Covered(hits, j)
      <4>1. PICK k \in 1..Len(rest) : j \in FoundAt(rest[k])..rest[k].end
        BY <3>3 DEF Covered
      <4>2. k + 1 \in 1..Len(hits) /\ hits[k + 1] = rest[k]
        BY <1>7
      <4> QED  BY <4>1, <4>2 DEF Covered
    <3> QED  BY <3>2, <3>3
  <2> QED  BY <2>1, <2>2
<1>10. hits \in Seq({MatchAt(s, j) : j \in 1..Len(s)})
  BY <1>7 DEF M
<1> QED  BY <1>4, <1>8, <1>9, <1>10 DEF Found

LEMMA FindAllFinds ==
  ASSUME NEW W, NEW s \in Seq(W)
  PROVE  Found(s, 1, find_all(s))
<1>0. Len(s) \in Nat
  BY LenProperties
<1>1. PICK scan : HitRun(s, 1, scan) /\ find_all(s) = scan[1]
  BY HitRuns
<1>2. \A i \in 1..(Len(s) + 1) : scan[i] = HitsFrom(s, i, scan)
  BY <1>1 DEF HitRun
<1> DEFINE T == {k \in 0..Len(s) : \A i \in (Len(s) + 1 - k)..(Len(s) + 1) : Found(s, i, scan[i])}
<1>3. 0 \in T
  <2>1. Found(s, Len(s) + 1, scan[Len(s) + 1])
    <3>1. scan[Len(s) + 1] = <<>>
      <4>1. Len(s) + 1 \in 1..(Len(s) + 1) /\ Len(s) + 1 > Len(s)
        BY <1>0
      <4>2. scan[Len(s) + 1] = HitsFrom(s, Len(s) + 1, scan)
        BY <1>2, <4>1
      <4> QED  BY <4>1, <4>2 DEF HitsFrom
    <3>2. PICK none : none = <<>>
      OBVIOUS
    <3>3. none \in Seq({MatchAt(s, j) : j \in 1..Len(s)}) /\ Len(none) = 0
      BY <3>2
    <3>4. 1..Len(none) = {} /\ (Len(s) + 1)..Len(s) = {}
      BY <1>0, <3>3
    <3> QED  BY <3>1, <3>2, <3>3, <3>4 DEF Found
  <2>2. \A i \in (Len(s) + 1 - 0)..(Len(s) + 1) : i = Len(s) + 1
    BY <1>0
  <2>3. \A i \in (Len(s) + 1 - 0)..(Len(s) + 1) : Found(s, i, scan[i])
    BY <2>1, <2>2
  <2> QED  BY <1>0, <2>3
<1>4. ASSUME NEW k \in 0..Len(s), k + 1 \in 0..Len(s), k \in T PROVE k + 1 \in T
  <2>1. PICK j : j = Len(s) - k
    OBVIOUS
  <2>2. j \in 1..Len(s) /\ j + 1 = Len(s) + 1 - k /\ j = Len(s) + 1 - (k + 1)
    BY <1>0, <1>4, <2>1
  <2>3. \A i \in (j + 1)..(Len(s) + 1) : Found(s, i, scan[i])
    BY <1>4, <2>2
  <2>4. Found(s, j, scan[j])
    <3>1. scan[j] = HitsFrom(s, j, scan) /\ ~(j > Len(s))
      BY <1>0, <1>2, <2>2
    <3>2. CASE MatchAt(s, j).end = 0
      <4>1. scan[j] = scan[j + 1] /\ j + 1 \in (j + 1)..(Len(s) + 1)
        BY <1>0, <2>2, <3>1, <3>2 DEF HitsFrom
      <4>2. Found(s, j + 1, scan[j])
        BY <2>3, <4>1
      <4> QED  BY <2>2, <3>2, <4>2, FoundNone
    <3>3. CASE MatchAt(s, j).end # 0
      <4>1. PICK m : m = MatchAt(s, j)
        OBVIOUS
      <4>2. scan[j] = <<m>> \o scan[m.end + 1]
        BY <3>1, <3>3, <4>1 DEF HitsFrom
      <4>3. Matched(s, j, m)
        BY <2>2, <3>3, <4>1, MatchIs
      <4>4. m.start \in Nat /\ j <= m.start /\ m.end \in m.start + 3..Len(s)
        BY <1>0, <2>2, <4>3, MatchSpan
      <4>5. m.end + 1 \in (j + 1)..(Len(s) + 1)
        BY <1>0, <2>2, <4>4
      <4>6. PICK rest : rest = scan[m.end + 1]
        OBVIOUS
      <4>7. Found(s, m.end + 1, rest)
        BY <2>3, <4>5, <4>6
      <4>8. Found(s, j, <<m>> \o rest)
        BY <2>2, <3>3, <4>1, <4>7, FoundOne
      <4> QED  BY <4>2, <4>6, <4>8
    <3> QED  BY <3>2, <3>3
  <2>5. \A i \in j..(Len(s) + 1) : Found(s, i, scan[i])
    <3> SUFFICES ASSUME NEW i \in j..(Len(s) + 1) PROVE Found(s, i, scan[i])
      OBVIOUS
    <3>1. i = j \/ i \in (j + 1)..(Len(s) + 1)
      BY <1>0, <2>2
    <3> QED  BY <2>3, <2>4, <3>1
  <2> QED  BY <1>4, <2>2, <2>5
<1>5. T = 0..Len(s)
  <2>1. T \in SUBSET (0..Len(s))
    OBVIOUS
  <2> HIDE DEF T
  <2> QED  BY <1>0, <1>3, <1>4, <2>1, HandedOn
<1>6. Len(s) \in T
  <2> HIDE DEF T
  <2> QED  BY <1>0, <1>5
<1>7. 1 \in (Len(s) + 1 - Len(s))..(Len(s) + 1)
  BY <1>0
<1> QED  BY <1>1, <1>6, <1>7

(* What was found is what stands for a value.                                *)
LEMMA HitIs ==
  ASSUME NEW W, NEW s \in Seq(W), NEW hits, Found(s, 1, hits), NEW n \in 1..Len(hits)
  PROVE  /\ FoundAt(hits[n]) \in 1..Len(s) /\ MatchAt(s, FoundAt(hits[n])) = hits[n]
         /\ Matched(s, FoundAt(hits[n]), hits[n]) /\ Behind(hits, n, FoundAt(hits[n]))
<1>1. Hit(s, 1, hits, n)
  BY DEF Found
<1>2. FoundAt(hits[n]) \in 1..Len(s) /\ MatchAt(s, FoundAt(hits[n])) = hits[n] /\ hits[n].end # 0
      /\ Behind(hits, n, FoundAt(hits[n]))
  BY <1>1 DEF Hit
<1>3. Matched(s, FoundAt(hits[n]), MatchAt(s, FoundAt(hits[n])))
  BY <1>2, MatchIs
<1> QED  BY <1>2, <1>3

LEMMA HitStands ==
  ASSUME NEW W, NEW s \in Seq(W), NEW hits, Found(s, 1, hits), NEW n \in 1..Len(hits), Stands(hits[n])
  PROVE  /\ hits[n].start \in Standing(s) /\ MatchAt(s, hits[n].start) = hits[n]
         /\ hits[n].start \in 1..Len(s) /\ FoundAt(hits[n]) = hits[n].start
<1>0. Len(s) \in Nat /\ DOMAIN s = 1..Len(s) /\ Len(hits) \in Nat
  BY LenProperties DEF Found
<1>1. PICK m : m = hits[n]
  OBVIOUS
<1>2. ~m.escaped /\ FoundAt(m) = m.start
  BY <1>1 DEF Stands, FoundAt
<1>3. PICK i : i = m.start
  OBVIOUS
<1>4. i \in 1..Len(s) /\ MatchAt(s, i) = m /\ Matched(s, i, m) /\ Behind(hits, n, i)
  BY <1>1, <1>2, <1>3, HitIs
<1>5. m.end # 0 /\ s[i] = "{{" /\ m.end \in i + 3..Len(s)
  BY <1>3, <1>4 DEF Matched
<1>6. ASSUME i > 1, s[i - 1] = "\\" PROVE FALSE
  <2>1. i \in 2..Len(s) /\ i - 1 \in 1..Len(s)
    BY <1>0, <1>4, <1>6
  <2>2. s[i] # "\\" /\ MatchAt(s, i).end # 0
    BY <1>4, <1>5
  <2>3. MatchAt(s, i - 1).end # 0
    BY <1>6, <2>1, <2>2, MatchTakesEscape
  <2>4. PICK l \in 1..Len(hits) : i - 1 \in FoundAt(hits[l])..hits[l].end
    BY <2>1, <2>3 DEF Found, Covered
  <2>5. PICK h, a : h = hits[l] /\ a = FoundAt(h)
    OBVIOUS
  <2>6. Matched(s, a, h) /\ a \in 1..Len(s) /\ Behind(hits, l, a)
    BY <2>5, HitIs
  <2>7. h.end \in Nat /\ s[h.end] = "}}" /\ i - 1 >= a /\ i - 1 <= h.end /\ a \in Int /\ i \in Int /\ 1 < i
    <3>1. h.end \in Nat /\ s[h.end] = "}}"
      BY <1>0, <2>6, MatchSpan
    <3>2. PICK e : e = h.end
      OBVIOUS
    <3>3. i - 1 \in a..e /\ e \in Nat /\ a \in 1..Len(s) /\ i \in 2..Len(s)
      BY <2>1, <2>4, <2>5, <2>6, <3>1, <3>2
    <3>4. i - 1 >= a /\ i - 1 <= e /\ a \in Int /\ i \in Int /\ 1 < i
      BY ONLY <3>3
    <3> QED  BY <3>1, <3>2, <3>4
  <2>8. ~(l < n)
    <3> SUFFICES ASSUME l < n PROVE FALSE
      OBVIOUS
    <3>1. h.end < i
      BY <1>4, <2>5 DEF Behind
    <3>2. h.end = i - 1
      <4>1. PICK e : e = h.end
        OBVIOUS
      <4>2. e \in Nat /\ i \in Int /\ i - 1 <= e /\ e < i
        BY <2>7, <3>1, <4>1
      <4>3. e = i - 1
        BY ONLY <4>2
      <4> QED  BY <4>1, <4>3
    <3> QED  BY <1>6, <2>7, <3>2
  <2>9. l # n
    <3>1. PICK o : o = i - 1
      OBVIOUS
    <3>2. o \in Int /\ i \in Int /\ o < i /\ o >= a /\ a \in Int
      <4>1. i \in Int /\ a \in Int /\ i - 1 >= a
        BY <2>7
      <4> QED  BY ONLY <3>1, <4>1
    <3>3. a # i
      BY ONLY <3>2
    <3> QED  BY <1>1, <1>2, <1>3, <2>5, <3>3
  <2>10. ~(l > n)
    <3> SUFFICES ASSUME l > n PROVE FALSE
      OBVIOUS
    <3>1. m.end < a
      BY <1>1, <2>6 DEF Behind
    <3>2. PICK e : e = m.end
      OBVIOUS
    <3>3. e \in Nat /\ i + 3 <= e
      BY <1>0, <1>3, <1>4, <3>2, MatchSpan
    <3>4. e < a
      BY <3>1, <3>2
    <3>5. i \in Int /\ a \in Int /\ i - 1 >= a
      BY <2>7
    <3> QED  BY ONLY <3>3, <3>4, <3>5
  <2>11. l \in Int /\ n \in Int
    BY <1>0
  <2> QED  BY <2>8, <2>9, <2>10, <2>11
<1>7. i \in Standing(s)
  BY <1>0, <1>1, <1>4, <1>5, <1>6 DEF Standing
<1> QED  BY <1>1, <1>2, <1>3, <1>4, <1>7

LEMMA StandingIs ==
  ASSUME NEW W, NEW s \in Seq(W), NEW i \in Standing(s)
  PROVE  i \in 1..Len(s) /\ Matched(s, i, MatchAt(s, i)) /\ MatchAt(s, i).start = i /\ s[i] = "{{"
<1>1. i \in 1..Len(s) /\ MatchAt(s, i).end # 0 /\ Stands(MatchAt(s, i))
  BY DEF Standing
<1>2. PICK m : m = MatchAt(s, i)
  OBVIOUS
<1>3. Matched(s, i, m)
  BY <1>1, <1>2, MatchIs
<1>4. m.start = i
  BY <1>1, <1>2, <1>3 DEF Matched, FoundAt, Stands
<1> QED  BY <1>1, <1>2, <1>3, <1>4 DEF Matched

LEMMA StandingFound ==
  ASSUME NEW W, NEW s \in Seq(W), NEW hits, Found(s, 1, hits), NEW i \in Standing(s)
  PROVE  \E n \in 1..Len(hits) : Stands(hits[n]) /\ hits[n].start = i /\ MatchAt(s, i) = hits[n]
<1>0. Len(s) \in Nat /\ DOMAIN s = 1..Len(s)
  BY LenProperties
<1>1. i \in 1..Len(s) /\ MatchAt(s, i).end # 0 /\ Stands(MatchAt(s, i)) /\ s[i] = "{{"
      /\ (i > 1 => s[i - 1] # "\\")
  <2>1. s[i] = "{{"
    BY StandingIs
  <2>2. i \in DOMAIN s /\ MatchAt(s, i).end # 0 /\ Stands(MatchAt(s, i)) /\ (i > 1 => s[i - 1] # "\\")
    BY DEF Standing
  <2> QED  BY <1>0, <2>1, <2>2
<1>2. PICK n \in 1..Len(hits) : i \in FoundAt(hits[n])..hits[n].end
  BY <1>0, <1>1 DEF Found, Covered
<1>3. PICK m, a : m = hits[n] /\ a = FoundAt(hits[n])
  OBVIOUS
<1>4. a \in 1..Len(s) /\ MatchAt(s, a) = m /\ Matched(s, a, m) /\ a = FoundAt(m)
  BY <1>3, HitIs
<1>5. m.start \in Nat /\ a <= m.start /\ m.start <= a + 1 /\ m.end \in Nat /\ i \in Int /\ a \in Int /\ a <= i /\ i <= m.end
  <2>1. a \in Nat /\ i \in Int /\ i \in a..m.end
    <3>1. a \in Nat
      BY <1>0, <1>4
    <3>2. i \in Int
      <4>1. i \in 1..Len(s)
        BY StandingIs
      <4> QED  BY <4>1
    <3>3. i \in a..m.end
      BY <1>2, <1>3
    <3> QED  BY <3>1, <3>2, <3>3
  <2>2. m.start \in Nat /\ a <= m.start /\ m.start <= a + 1 /\ m.end \in Nat
    BY <1>0, <1>4, <2>1, MatchSpan
  <2> QED  BY <2>1, <2>2
<1>6. \A j \in m.start + 1..m.end : s[j] \notin {"{{", "\\"}
  BY <1>4 DEF Matched
<1>7. i <= m.start
  <2>1. ~(i \in m.start + 1..m.end)
    BY <1>1, <1>6
  <2> QED  BY ONLY <1>5, <2>1
<1>8. ~m.escaped
  <2>1. ASSUME m.escaped PROVE FALSE
    <3>1. s[a] = "\\"
      BY <1>4, <2>1 DEF Matched
    <3>2. m.start = a + 1
      BY <1>4, <1>5, <2>1 DEF FoundAt
    <3>3. i # a
      BY <1>1, <3>1
    <3>4. i = a + 1
      BY ONLY <1>5, <1>7, <3>2, <3>3
    <3>5. i > 1 /\ i - 1 = a
      BY <1>4, <3>4
    <3> QED  BY <1>1, <3>1, <3>5
  <2> QED  BY <2>1
<1>9. m.start = a
  BY <1>4, <1>8 DEF FoundAt
<1>10. i = a
  BY ONLY <1>5, <1>7, <1>9
<1> QED  BY <1>1, <1>3, <1>4, <1>9, <1>10

LEMMA MeaningOfHit ==
  ASSUME NEW W, NEW s \in Seq(W), NEW hits, Found(s, 1, hits), NEW n \in 1..Len(hits), Stands(hits[n])
  PROVE  /\ Meaning(s, hits[n].start) = doc[hits[n].key].value
         /\ \A j \in hits[n].start + 1..hits[n].end : Meaning(s, j) = <<>>
<1>0. Len(s) \in Nat
  BY LenProperties
<1>1. PICK m, b : m = hits[n] /\ b = m.start
  OBVIOUS
<1>2. b \in Standing(s) /\ MatchAt(s, b) = m /\ b \in 1..Len(s) /\ FoundAt(m) = b
  BY <1>1, HitStands
<1>3. Matched(s, b, m)
  BY <1>1, <1>2, HitIs
<1>4. ASSUME NEW j \in b + 1..m.end PROVE Meaning(s, j) = <<>>
  <2>1. s[j] # "{{"
    BY <1>1, <1>3 DEF Matched
  <2>2. j \notin Standing(s)
    BY <2>1, StandingIs
  <2>3. j \in b..MatchAt(s, b).end
    BY <1>2, <1>4
  <2> QED  BY <1>2, <2>2, <2>3 DEF Meaning
<1> QED  BY <1>1, <1>2, <1>4 DEF Meaning

Outside(hits, j) == \A n \in 1..Len(hits) : Stands(hits[n]) => j \notin hits[n].start..hits[n].end

LEMMA MeaningElse ==
  ASSUME NEW W, NEW s \in Seq(W), NEW hits, Found(s, 1, hits), NEW j \in 1..Len(s), Outside(hits, j)
  PROVE  Meaning(s, j) = <<s[j]>>
<1>0. Len(s) \in Nat
  BY LenProperties
<1>1. ASSUME NEW b \in Standing(s), j \in b..MatchAt(s, b).end PROVE FALSE
  <2>1. PICK n \in 1..Len(hits) : Stands(hits[n]) /\ hits[n].start = b /\ MatchAt(s, b) = hits[n]
    BY StandingFound
  <2> QED  BY <1>1, <2>1 DEF Outside
<1>2. j \notin Standing(s)
  <2>1. ASSUME j \in Standing(s) PROVE FALSE
    <3>1. PICK m : m = MatchAt(s, j)
      OBVIOUS
    <3>2. Matched(s, j, m) /\ m.start = j
      BY <2>1, <3>1, StandingIs
    <3>3. j \in j..m.end
      <4>1. j \in Nat
        BY <1>0
      <4>2. m.end \in Nat /\ m.start + 3 <= m.end
        BY <1>0, <2>1, <3>2, <4>1, MatchSpan, StandingIs
      <4> QED  BY <3>2, <4>1, <4>2
    <3> QED  BY <1>1, <2>1, <3>1, <3>3
  <2> QED  BY <2>1
<1> QED  BY <1>1, <1>2 DEF Meaning

(* What a text means, word by word.                                          *)
Wording(W, s) == s \in Seq(W) /\ \A i \in 1..Len(s) : Meaning(s, i) \in Seq(W)
Told(s, told) ==
  told[0] = <<>> /\ \A i \in 1..Len(s) : told[i] = Joined(told[i - 1], Meaning(s, i))

FlatRun(f, n, flat) == flat = [i \in 1..n |-> IF i = 1 THEN f[i] ELSE flat[i - 1] \o f[i]]

LEMMA FlatRuns ==
  ASSUME NEW f, Len(f) \in Nat \ {0}
  PROVE  \E flat : FlatRun(f, Len(f), flat) /\ FlattenSeq(f) = flat[Len(f)]
<1> DEFINE last == Len(f) - 1
           T == {k \in 0..last : \E flat : FlatRun(f, k + 1, flat)}
<1>0. last \in Nat /\ last + 1 = Len(f)
  OBVIOUS
<1>1. 0 \in T
  <2>1. FlatRun(f, 1, [i \in 1..1 |-> f[1]])
    BY DEF FlatRun
  <2> QED  BY <1>0, <2>1
<1>2. ASSUME NEW k \in 0..last, k + 1 \in 0..last, k \in T PROVE k + 1 \in T
  <2>1. PICK flat : FlatRun(f, k + 1, flat)
    BY <1>2
  <2> DEFINE j == k + 1
             more == [i \in 1..(j + 1) |-> IF i = j + 1 THEN flat[j] \o f[j + 1] ELSE flat[i]]
  <2>2. \A i \in 1..j : flat[i] = IF i = 1 THEN f[i] ELSE flat[i - 1] \o f[i]
    BY <2>1 DEF FlatRun
  <2>3. j \in Nat \ {0}
    BY <1>2
  <2> HIDE DEF j
  <2>4. ASSUME NEW i \in 1..(j + 1) PROVE more[i] = IF i = 1 THEN f[i] ELSE more[i - 1] \o f[i]
    <3>1. CASE i = j + 1
      <4>1. i # 1 /\ i - 1 = j /\ j # j + 1 /\ j \in 1..(j + 1) /\ j + 1 \in 1..(j + 1)
        BY <2>3, <3>1
      <4>2. more[j] = flat[j] /\ more[j + 1] = flat[j] \o f[j + 1]
        BY <4>1
      <4> HIDE DEF more
      <4> QED  BY <3>1, <4>1, <4>2
    <3>2. CASE i # j + 1
      <4>1. i \in 1..j /\ more[i] = flat[i] /\ (i # 1 => more[i - 1] = flat[i - 1])
        BY <2>3, <3>2
      <4> HIDE DEF more
      <4> QED  BY <2>2, <4>1
    <3> QED  BY <3>1, <3>2
  <2>5. FlatRun(f, j + 1, more)
    BY <2>4 DEF FlatRun
  <2> QED  BY <1>2, <2>5 DEF j
<1>3. T = 0..last
  <2>1. T \in SUBSET (0..last)
    OBVIOUS
  <2> HIDE DEF T, last
  <2> QED  BY <1>0, <1>1, <1>2, <2>1, HandedOn
<1>4. \E flat : FlatRun(f, Len(f), flat)
  <2>1. last \in 0..last
    BY <1>0
  <2>2. PICK flat : FlatRun(f, last + 1, flat)
    BY <1>3, <2>1
  <2> QED  BY <1>0, <2>2
<1>5. \E flat : flat = [i \in 1..Len(f) |-> IF i = 1 THEN f[i] ELSE flat[i - 1] \o f[i]]
  BY <1>4 DEF FlatRun
<1> QED  BY <1>5 DEF FlattenSeq, FlatRun

LEMMA ToldRuns ==
  ASSUME NEW W, NEW s, Wording(W, s)
  PROVE  \E told : Told(s, told) /\ Meant(s) = told[Len(s)] /\ \A i \in 0..Len(s) : told[i] \in Seq(W)
<1>0. s \in Seq(W) /\ Len(s) \in Nat /\ DOMAIN s = 1..Len(s) /\ \A i \in 1..Len(s) : Meaning(s, i) \in Seq(W)
  BY LenProperties DEF Wording
<1>1. PICK f : f = [i \in 1..Len(s) |-> Meaning(s, i)]
  OBVIOUS
<1>2. f \in Seq(Seq(W)) /\ Len(f) = Len(s)
  <2>1. f \in [1..Len(s) -> Seq(W)]
    BY <1>0, <1>1
  <2> QED  BY <1>0, <2>1
<1>3. Meant(s) = FlattenSeq(f)
  BY <1>0, <1>1 DEF Meant
<1>4. CASE Len(s) = 0
  <2>1. f = <<>>
    BY <1>2, <1>4, EmptySeq
  <2>2. FlattenSeq(f) = <<>>
    BY <1>2, <1>4, <2>1 DEF FlattenSeq
  <2> DEFINE told == [i \in {0} |-> <<>>]
  <2>3. Told(s, told) /\ told[Len(s)] = <<>> /\ \A i \in 0..Len(s) : told[i] \in Seq(W)
    BY <1>4, EmptySeq DEF Told
  <2> HIDE DEF told
  <2> QED  BY <1>3, <2>2, <2>3
<1>5. CASE Len(s) # 0
  <2>1. PICK flat : FlatRun(f, Len(f), flat) /\ FlattenSeq(f) = flat[Len(f)]
    BY <1>0, <1>2, <1>5, FlatRuns
  <2>2. \A i \in 1..Len(s) : flat[i] = IF i = 1 THEN f[i] ELSE flat[i - 1] \o f[i]
    BY <1>2, <2>1 DEF FlatRun
  <2> DEFINE told == [i \in 0..Len(s) |-> IF i = 0 THEN <<>> ELSE flat[i]]
  <2>3. told[0] = <<>> /\ \A i \in 1..Len(s) : told[i] = flat[i]
    BY <1>0
  <2> HIDE DEF told
  <2>4. ASSUME NEW i \in 1..Len(s) PROVE told[i] = Joined(told[i - 1], Meaning(s, i))
    <3>1. f[i] = Meaning(s, i) /\ Meaning(s, i) \in Seq(W)
      BY <1>0, <1>1
    <3>2. CASE i = 1
      <4>1. told[i] = Meaning(s, i) /\ told[i - 1] = <<>>
        BY <1>0, <2>2, <2>3, <3>1, <3>2
      <4> QED  BY <3>1, <4>1, JoinedNone
    <3>3. CASE i # 1
      <4>1. i - 1 \in 1..Len(s)
        BY <1>0, <3>3
      <4>2. told[i] = flat[i - 1] \o f[i] /\ told[i - 1] = flat[i - 1]
        BY <2>2, <2>3, <3>3, <4>1
      <4> QED  BY <3>1, <4>2 DEF Joined
    <3> QED  BY <3>2, <3>3
  <2> DEFINE T == {i \in 0..Len(s) : told[i] \in Seq(W)}
  <2>5. 0 \in T
    <3>1. <<>> \in Seq(W) /\ told[0] = <<>>
      BY <1>0, <2>3, EmptySeq
    <3>2. told[0] \in Seq(W)
      BY <3>1
    <3> QED  BY <1>0, <3>2
  <2>6. ASSUME NEW i \in 0..Len(s), i + 1 \in 0..Len(s), i \in T PROVE i + 1 \in T
    <3>1. i + 1 \in 1..Len(s) /\ (i + 1) - 1 = i
      BY <1>0, <2>6
    <3>2. told[i + 1] = Joined(told[i], Meaning(s, i + 1)) /\ Meaning(s, i + 1) \in Seq(W) /\ told[i] \in Seq(W)
      BY <1>0, <2>4, <2>6, <3>1
    <3>3. told[i + 1] \in Seq(W)
      BY <3>2, JoinedIs
    <3> QED  BY <2>6, <3>3
  <2>7. T = 0..Len(s)
    <3>1. T \in SUBSET (0..Len(s))
      OBVIOUS
    <3> HIDE DEF T
    <3> QED  BY <1>0, <2>5, <2>6, <3>1, HandedOn
  <2>8. \A i \in 0..Len(s) : told[i] \in Seq(W)
    <3> SUFFICES ASSUME NEW i \in 0..Len(s) PROVE told[i] \in Seq(W)
      OBVIOUS
    <3>1. i \in T
      <4> HIDE DEF T
      <4> QED  BY <2>7
    <3> QED  BY <3>1
  <2>9. Meant(s) = told[Len(s)]
    BY <1>0, <1>2, <1>3, <1>5, <2>1, <2>3
  <2> QED  BY <2>3, <2>4, <2>8, <2>9 DEF Told
<1> QED  BY <1>4, <1>5

(* Words that stand for themselves are told as they are, words that are part *)
(* of a reference add nothing.                                               *)
Literal(s, a, b) == \A j \in a..b : Meaning(s, j) = <<s[j]>>
Silent(s, a, b) == \A j \in a..b : Meaning(s, j) = <<>>

LEMMA ToldLiterally ==
  ASSUME NEW W, NEW s, Wording(W, s), NEW told, Told(s, told), \A i \in 0..Len(s) : told[i] \in Seq(W),
         NEW a \in 1..Len(s) + 1, NEW b \in a - 1..Len(s), Literal(s, a, b)
  PROVE  told[b] = Joined(told[a - 1], SubSeq(s, a, b))
<1>0. s \in Seq(W) /\ Len(s) \in Nat
  BY LenProperties DEF Wording
<1> DEFINE n == b - (a - 1)
           T == {k \in 0..n : told[(a - 1) + k] = Joined(told[a - 1], SubSeq(s, a, (a - 1) + k))}
<1>1. n \in Nat /\ a \in Int /\ b = (a - 1) + n /\ a - 1 \in 0..Len(s)
  BY <1>0
<1>2. 0 \in T
  <2>1. (a - 1) + 0 = a - 1 /\ a - 1 < a /\ a - 1 \in Int
    BY <1>1
  <2>2. SubSeq(s, a, a - 1) = <<>>
    BY <1>1, <2>1, SubSeqEmpty
  <2>3. told[a - 1] = Joined(told[a - 1], <<>>)
    BY <1>1, JoinedNone
  <2>4. told[(a - 1) + 0] = Joined(told[a - 1], SubSeq(s, a, (a - 1) + 0))
    BY <2>1, <2>2, <2>3
  <2>5. 0 \in 0..n
    BY <1>1
  <2> QED  BY <2>4, <2>5
<1>3. ASSUME NEW k \in 0..n, k + 1 \in 0..n, k \in T PROVE k + 1 \in T
  <2>1. PICK m : m = (a - 1) + k
    OBVIOUS
  <2>2. m + 1 = (a - 1) + (k + 1) /\ m + 1 \in a..Len(s) /\ m + 1 \in a..b /\ (m + 1) - 1 = m /\ m + 1 \in 1..Len(s)
        /\ a \in 1..Len(s) /\ m \in 0..Len(s) /\ m \in a - 1..Len(s)
    BY <1>0, <1>1, <1>3, <2>1
  <2>3. told[m] = Joined(told[a - 1], SubSeq(s, a, m))
    BY <1>3, <2>1
  <2>4. told[m + 1] = Joined(told[m], <<s[m + 1]>>)
    BY <2>2 DEF Told, Literal
  <2>5. SubSeq(s, a, m + 1) = Joined(SubSeq(s, a, m), <<s[m + 1]>>)
    <3>1. SubSeq(s, a, m + 1) = SubSeq(s, a, (m + 1) - 1) \o <<s[m + 1]>>
      BY <1>0, <2>2, SubSeqRecursiveSecond
    <3> QED  BY <2>2, <3>1 DEF Joined
  <2>6. SubSeq(s, a, m) \in Seq(W) /\ told[a - 1] \in Seq(W)
    <3>1. a \in 1..Len(s) + 1
      BY <2>2
    <3> QED  BY <1>0, <1>1, <2>2, <3>1, PartContains
  <2>7. <<s[m + 1]>> \in Seq(W)
    BY <1>0, <2>2, ElementOfSeq
  <2>8. Joined(Joined(told[a - 1], SubSeq(s, a, m)), <<s[m + 1]>>)
          = Joined(told[a - 1], Joined(SubSeq(s, a, m), <<s[m + 1]>>))
    <3>1. PICK u, v, w : u = told[a - 1] /\ v = SubSeq(s, a, m) /\ w = <<s[m + 1]>>
      OBVIOUS
    <3>2. Joined(Joined(u, v), w) = Joined(u, Joined(v, w))
      <4>1. u \in Seq(W) /\ v \in Seq(W) /\ w \in Seq(W)
        BY <2>6, <2>7, <3>1
      <4> QED  BY ONLY <4>1, JoinedOn
    <3> QED  BY <3>1, <3>2
  <2>9. told[m + 1] = Joined(told[a - 1], SubSeq(s, a, m + 1))
    BY <2>3, <2>4, <2>5, <2>8
  <2> QED  BY <1>3, <2>2, <2>9
<1>4. T = 0..n
  <2>1. T \in SUBSET (0..n)
    OBVIOUS
  <2> HIDE DEF T, n
  <2> QED  BY <1>1, <1>2, <1>3, <2>1, HandedOn
<1>5. n \in T
  <2> HIDE DEF T, n
  <2> QED  BY <1>1, <1>4
<1>6. told[(a - 1) + n] = Joined(told[a - 1], SubSeq(s, a, (a - 1) + n))
  BY <1>5
<1> HIDE DEF T, n
<1> QED  BY <1>1, <1>6

LEMMA ToldSilently ==
  ASSUME NEW W, NEW s, Wording(W, s), NEW told, Told(s, told), \A i \in 0..Len(s) : told[i] \in Seq(W),
         NEW a \in 1..Len(s) + 1, NEW b \in a - 1..Len(s), Silent(s, a, b)
  PROVE  told[b] = told[a - 1]
<1>0. s \in Seq(W) /\ Len(s) \in Nat
  BY LenProperties DEF Wording
<1> DEFINE n == b - (a - 1)
           T == {k \in 0..n : told[(a - 1) + k] = told[a - 1]}
<1>1. n \in Nat /\ a \in Int /\ b = (a - 1) + n /\ a - 1 \in 0..Len(s)
  BY <1>0
<1>2. 0 \in T
  BY <1>1
<1>3. ASSUME NEW k \in 0..n, k + 1 \in 0..n, k \in T PROVE k + 1 \in T
  <2>1. PICK m : m = (a - 1) + k
    OBVIOUS
  <2>2. m + 1 = (a - 1) + (k + 1) /\ m + 1 \in a..b /\ (m + 1) - 1 = m /\ m + 1 \in 1..Len(s) /\ m \in 0..Len(s)
    BY <1>0, <1>1, <1>3, <2>1
  <2>3. told[m] = told[a - 1]
    BY <1>3, <2>1
  <2>4. told[m + 1] = Joined(told[m], <<>>)
    BY <2>2 DEF Told, Silent
  <2>5. told[m + 1] = told[a - 1]
    BY <2>2, <2>3, <2>4, JoinedNone
  <2> QED  BY <1>3, <2>2, <2>5
<1>4. T = 0..n
  <2>1. T \in SUBSET (0..n)
    OBVIOUS
  <2> HIDE DEF T, n
  <2> QED  BY <1>1, <1>2, <1>3, <2>1, HandedOn
<1>5. n \in T
  <2> HIDE DEF T, n
  <2> QED  BY <1>1, <1>4
<1>6. told[(a - 1) + n] = told[a - 1]
  BY <1>5
<1> HIDE DEF T, n
<1> QED  BY <1>1, <1>6

(* The parts of a text hold every word of it but the separators.             *)
PartsFrom(s, sep, i, parts) ==
  IF i > Len(s) THEN <<<<>>>>
  ELSE IF s[i] = sep THEN <<<<>>>> \o parts[i + 1]
  ELSE [parts[i + 1] EXCEPT ![1] = <<s[i]>> \o @]
PartsRun(s, sep, k, parts) == parts = [i \in k..(Len(s) + 1) |-> PartsFrom(s, sep, i, parts)]

LEMMA PartsRuns ==
  ASSUME NEW W, NEW s \in Seq(W), NEW sep
  PROVE  \E parts : PartsRun(s, sep, 1, parts) /\ Split(s, sep) = parts[1]
<1>0. Len(s) \in Nat
  BY LenProperties
<1> DEFINE T == {k \in 0..Len(s) : \E parts : PartsRun(s, sep, Len(s) + 1 - k, parts)}
<1>1. 0 \in T
  <2> DEFINE parts == [i \in (Len(s) + 1)..(Len(s) + 1) |-> <<<<>>>>]
  <2>1. \A i \in (Len(s) + 1)..(Len(s) + 1) : PartsFrom(s, sep, i, parts) = <<<<>>>>
    BY <1>0 DEF PartsFrom
  <2>2. PartsRun(s, sep, Len(s) + 1, parts)
    BY <2>1 DEF PartsRun
  <2> QED  BY <1>0, <2>2
<1>2. ASSUME NEW k \in 0..Len(s), k + 1 \in 0..Len(s), k \in T PROVE k + 1 \in T
  <2>1. PICK parts : PartsRun(s, sep, Len(s) + 1 - k, parts)
    BY <1>2
  <2>2. PICK j : j = Len(s) - k
    OBVIOUS
  <2>3. j \in 1..Len(s) /\ j + 1 = Len(s) + 1 - k /\ j = Len(s) + 1 - (k + 1)
    BY <1>0, <1>2, <2>2
  <2> DEFINE more == [i \in j..(Len(s) + 1) |-> IF i = j THEN PartsFrom(s, sep, j, parts) ELSE parts[i]]
  <2>4. ASSUME NEW i \in j..(Len(s) + 1) PROVE more[i] = PartsFrom(s, sep, i, more)
    <3>1. \A l \in (i + 1)..(Len(s) + 1) : more[l] = parts[l]
      BY <1>0, <2>3
    <3>2. more[i] = PartsFrom(s, sep, i, parts)
      <4>1. CASE i = j
        BY <1>0, <2>3, <4>1
      <4>2. CASE i # j
        <5>1. i \in (j + 1)..(Len(s) + 1)
          BY <1>0, <2>3, <4>2
        <5>2. parts[i] = PartsFrom(s, sep, i, parts)
          BY <2>1, <2>3, <5>1 DEF PartsRun
        <5> QED  BY <4>2, <5>2
      <4> QED  BY <4>1, <4>2
    <3> HIDE DEF more
    <3>3. CASE i > Len(s)
      BY <3>2, <3>3 DEF PartsFrom
    <3>4. CASE ~(i > Len(s))
      <4>1. i + 1 \in (i + 1)..(Len(s) + 1)
        BY <1>0, <2>3, <3>4
      <4>2. more[i + 1] = parts[i + 1]
        BY <3>1, <4>1
      <4> QED  BY <3>2, <4>2 DEF PartsFrom
    <3> QED  BY <3>3, <3>4
  <2>5. PartsRun(s, sep, j, more)
    BY <2>4 DEF PartsRun
  <2> QED  BY <1>2, <2>3, <2>5
<1>3. T = 0..Len(s)
  <2>1. T \in SUBSET (0..Len(s))
    OBVIOUS
  <2> HIDE DEF T
  <2> QED  BY <1>0, <1>1, <1>2, <2>1, HandedOn
<1>4. \E parts : PartsRun(s, sep, 1, parts)
  <2>1. Len(s) \in T /\ Len(s) + 1 - Len(s) = 1
    BY <1>0, <1>3
  <2> QED  BY <2>1
<1>5. \E parts : parts = [i \in 1..Len(s) + 1 |->
                            IF i > Len(s) THEN <<<<>>>>
                            ELSE IF s[i] = sep THEN <<<<>>>> \o parts[i + 1]
                            ELSE [parts[i + 1] EXCEPT ![1] = <<s[i]>> \o @]]
  BY <1>4 DEF PartsRun, PartsFrom
<1> QED  BY <1>5 DEF Split, PartsRun, PartsFrom

In(ps, x) == \E n \in 1..Len(ps) : Contains(ps[n], x)
PartsOf(W, s, sep, i, ps) ==
  /\ ps \in Seq(Seq(W)) /\ Len(ps) \in Nat \ {0}
  /\ \A j \in i..Len(s) : s[j] = sep \/ In(ps, s[j])

LEMMA PartMore ==
  ASSUME NEW W, NEW s \in Seq(W), NEW sep, NEW i \in 1..Len(s), NEW ps, PartsOf(W, s, sep, i + 1, ps)
  PROVE  /\ s[i] = sep => PartsOf(W, s, sep, i, <<<<>>>> \o ps)
         /\ s[i] # sep => PartsOf(W, s, sep, i, [ps EXCEPT ![1] = <<s[i]>> \o @])
<1>0. Len(s) \in Nat /\ s[i] \in W /\ ps \in Seq(Seq(W)) /\ Len(ps) \in Nat \ {0} /\ DOMAIN ps = 1..Len(ps)
  BY LenProperties, ElementOfSeq DEF PartsOf
<1>1. ASSUME s[i] = sep PROVE PartsOf(W, s, sep, i, <<<<>>>> \o ps)
  <2>1. PICK one : one = <<<<>>>>
    OBVIOUS
  <2>2. one \in Seq(Seq(W)) /\ Len(one) = 1
    BY <2>1, EmptySeq
  <2>3. PICK qs : qs = one \o ps
    OBVIOUS
  <2>4. qs \in Seq(Seq(W)) /\ Len(qs) = Len(one) + Len(ps)
        /\ \A n \in 1..Len(one) + Len(ps) : qs[n] = IF n <= Len(one) THEN one[n] ELSE ps[n - Len(one)]
    BY <1>0, <2>2, <2>3, ConcatProperties
  <2>5. ASSUME NEW x, In(ps, x) PROVE In(qs, x)
    <3>1. PICK n \in 1..Len(ps) : Contains(ps[n], x)
      BY <2>5 DEF In
    <3>2. n + 1 \in 1..Len(qs) /\ ~(n + 1 <= Len(one)) /\ (n + 1) - Len(one) = n
      BY <1>0, <2>2, <2>4
    <3>3. qs[n + 1] = ps[n]
      BY <2>4, <3>2
    <3> QED  BY <3>1, <3>2, <3>3 DEF In
  <2>6. ASSUME NEW j \in i..Len(s) PROVE s[j] = sep \/ In(qs, s[j])
    <3>1. j = i \/ j \in i + 1..Len(s)
      BY <1>0
    <3> QED  BY <1>1, <2>5, <3>1 DEF PartsOf
  <2>7. Len(qs) \in Nat \ {0}
    BY <1>0, <2>2, <2>4
  <2> QED  BY <2>1, <2>3, <2>4, <2>6, <2>7 DEF PartsOf
<1>2. ASSUME s[i] # sep PROVE PartsOf(W, s, sep, i, [ps EXCEPT ![1] = <<s[i]>> \o @])
  <2>1. ps[1] \in Seq(W) /\ 1 \in 1..Len(ps)
    BY <1>0, ElementOfSeq
  <2>2. PICK u : u = Joined(<<s[i]>>, ps[1])
    OBVIOUS
  <2>3. <<s[i]>> \in Seq(W) /\ Len(<<s[i]>>) = 1 /\ <<s[i]>>[1] = s[i]
    BY <1>0
  <2>4. u \in Seq(W) /\ Contains(u, s[i]) /\ \A x : Contains(ps[1], x) => Contains(u, x)
    <3>1. PICK one : one = <<s[i]>>
      OBVIOUS
    <3>2. one \in Seq(W) /\ Len(one) = 1 /\ one[1] = s[i]
      BY <2>3, <3>1
    <3>3. /\ u \in Seq(W) /\ Len(ps[1]) \in Nat /\ Len(u) = 1 + Len(ps[1])
          /\ \A n \in 1..1 + Len(ps[1]) : u[n] = IF n <= 1 THEN one[n] ELSE ps[1][n - 1]
      <4>1. PICK v : v = ps[1]
        OBVIOUS
      <4>2. v \in Seq(W) /\ u = Joined(one, v)
        BY <2>1, <2>2, <3>1, <4>1
      <4>3. /\ Joined(one, v) \in Seq(W) /\ Len(one) \in Nat /\ Len(v) \in Nat
            /\ Len(Joined(one, v)) = Len(one) + Len(v)
            /\ \A n \in 1..Len(one) + Len(v) :
                 Joined(one, v)[n] = IF n <= Len(one) THEN one[n] ELSE v[n - Len(one)]
        BY <3>2, <4>2, JoinedIs
      <4> QED  BY <3>2, <4>1, <4>2, <4>3
    <3>4. Contains(u, s[i])
      <4>1. 1 \in 1..1 + Len(ps[1]) /\ 1 <= 1 /\ 1 \in 1..Len(u)
        BY <3>3
      <4>2. u[1] = one[1]
        BY <3>3, <4>1
      <4> QED  BY <3>2, <4>1, <4>2 DEF Contains
    <3>5. ASSUME NEW x, Contains(ps[1], x) PROVE Contains(u, x)
      <4>1. PICK n \in 1..Len(ps[1]) : ps[1][n] = x
        BY <3>5 DEF Contains
      <4>2. n + 1 \in 1..Len(u) /\ ~(n + 1 <= 1) /\ (n + 1) - 1 = n
        BY <3>3
      <4> QED  BY <3>3, <4>1, <4>2 DEF Contains
    <3> QED  BY <3>3, <3>4, <3>5
  <2>5. PICK qs : qs = [ps EXCEPT ![1] = u]
    OBVIOUS
  <2>6. qs \in Seq(Seq(W)) /\ Len(qs) = Len(ps) /\ qs[1] = u /\ \A n \in 2..Len(ps) : qs[n] = ps[n]
    BY <1>0, <2>1, <2>4, <2>5
  <2>7. ASSUME NEW x, In(ps, x) PROVE In(qs, x)
    <3>1. PICK n \in 1..Len(ps) : Contains(ps[n], x)
      BY <2>7 DEF In
    <3>2. n = 1 \/ n \in 2..Len(ps)
      BY <1>0
    <3> QED  BY <2>4, <2>6, <3>1, <3>2 DEF In
  <2>8. ASSUME NEW j \in i..Len(s) PROVE s[j] = sep \/ In(qs, s[j])
    <3>1. j = i \/ j \in i + 1..Len(s)
      BY <1>0
    <3>2. In(qs, s[i])
      BY <2>1, <2>4, <2>6 DEF In
    <3> QED  BY <2>7, <3>1, <3>2 DEF PartsOf
  <2>9. PartsOf(W, s, sep, i, qs)
    BY <1>0, <2>6, <2>8 DEF PartsOf
  <2> QED  BY <2>2, <2>5, <2>9 DEF Joined
<1> QED  BY <1>1, <1>2

LEMMA SplitParts ==
  ASSUME NEW W, NEW s \in Seq(W), NEW sep
  PROVE  PartsOf(W, s, sep, 1, Split(s, sep))
<1>0. Len(s) \in Nat
  BY LenProperties
<1>1. PICK parts : PartsRun(s, sep, 1, parts) /\ Split(s, sep) = parts[1]
  BY PartsRuns
<1>2. \A i \in 1..(Len(s) + 1) : parts[i] = PartsFrom(s, sep, i, parts)
  BY <1>1 DEF PartsRun
<1> DEFINE T == {k \in 0..Len(s) : PartsOf(W, s, sep, Len(s) + 1 - k, parts[Len(s) + 1 - k])}
<1>3. 0 \in T
  <2>1. Len(s) + 1 \in 1..(Len(s) + 1) /\ Len(s) + 1 > Len(s) /\ Len(s) + 1 - 0 = Len(s) + 1 /\ (Len(s) + 1)..Len(s) = {}
    BY <1>0
  <2>2. parts[Len(s) + 1] = <<<<>>>>
    <3>1. parts[Len(s) + 1] = PartsFrom(s, sep, Len(s) + 1, parts)
      BY <1>2, <2>1
    <3> QED  BY <2>1, <3>1 DEF PartsFrom
  <2>3. PICK one : one = <<<<>>>>
    OBVIOUS
  <2>4. one \in Seq(Seq(W)) /\ Len(one) = 1
    BY <2>3, EmptySeq
  <2>5. PartsOf(W, s, sep, Len(s) + 1, one)
    BY <2>1, <2>4 DEF PartsOf
  <2>6. PartsOf(W, s, sep, Len(s) + 1 - 0, parts[Len(s) + 1 - 0])
    BY <2>1, <2>2, <2>3, <2>5
  <2> QED  BY <1>0, <2>6
<1>4. ASSUME NEW k \in 0..Len(s), k + 1 \in 0..Len(s), k \in T PROVE k + 1 \in T
  <2>1. PICK j : j = Len(s) - k
    OBVIOUS
  <2>2. j \in 1..Len(s) /\ j + 1 = Len(s) + 1 - k /\ j = Len(s) + 1 - (k + 1) /\ ~(j > Len(s)) /\ j \in 1..(Len(s) + 1)
    BY <1>0, <1>4, <2>1
  <2>3. PICK ps : ps = parts[j + 1]
    OBVIOUS
  <2>4. PartsOf(W, s, sep, j + 1, ps)
    BY <1>4, <2>2, <2>3
  <2>5. parts[j] = IF s[j] = sep THEN <<<<>>>> \o ps ELSE [ps EXCEPT ![1] = <<s[j]>> \o @]
    <3>1. parts[j] = PartsFrom(s, sep, j, parts)
      BY <1>2, <2>2
    <3> QED  BY <2>2, <2>3, <3>1 DEF PartsFrom
  <2>6. /\ s[j] = sep => PartsOf(W, s, sep, j, <<<<>>>> \o ps)
        /\ s[j] # sep => PartsOf(W, s, sep, j, [ps EXCEPT ![1] = <<s[j]>> \o @])
    BY <2>2, <2>4, PartMore
  <2>7. PartsOf(W, s, sep, j, parts[j])
    BY <2>5, <2>6
  <2> QED  BY <1>4, <2>2, <2>7
<1>5. T = 0..Len(s)
  <2>1. T \in SUBSET (0..Len(s))
    OBVIOUS
  <2> HIDE DEF T
  <2> QED  BY <1>0, <1>3, <1>4, <2>1, HandedOn
<1>6. Len(s) \in T
  <2> HIDE DEF T
  <2> QED  BY <1>0, <1>5
<1>7. Len(s) + 1 - Len(s) = 1
  BY <1>0
<1> QED  BY <1>1, <1>6, <1>7

(* Components are texts.                                                     *)
KeptRun(parts, n, kept) ==
  kept = [k \in 0..n |-> IF k = 0 THEN <<>>
                         ELSE IF parts[k] \in {<<>>, <<".">>} THEN kept[k - 1] ELSE Append(kept[k - 1], parts[k])]

LEMMA KeptRuns ==
  ASSUME NEW parts, Len(parts) \in Nat
  PROVE  \E kept : KeptRun(parts, Len(parts), kept)
<1> DEFINE T == {n \in 0..Len(parts) : \E kept : KeptRun(parts, n, kept)}
<1>1. 0 \in T
  <2>1. KeptRun(parts, 0, [i \in 0..0 |-> <<>>])
    BY DEF KeptRun
  <2> QED  BY <2>1
<1>2. ASSUME NEW i \in 0..Len(parts), i + 1 \in 0..Len(parts), i \in T PROVE i + 1 \in T
  <2>1. PICK kept : KeptRun(parts, i, kept)
    BY <1>2
  <2> DEFINE next == [k \in 0..(i + 1) |->
                       IF k = i + 1
                       THEN IF parts[k] \in {<<>>, <<".">>} THEN kept[i] ELSE Append(kept[i], parts[k])
                       ELSE kept[k]]
  <2>2. KeptRun(parts, i + 1, next)
    <3>1. \A k \in 0..i : kept[k] = IF k = 0 THEN <<>>
                                    ELSE IF parts[k] \in {<<>>, <<".">>} THEN kept[k - 1]
                                    ELSE Append(kept[k - 1], parts[k])
      BY <2>1 DEF KeptRun
    <3>2. ASSUME NEW k \in 0..(i + 1)
          PROVE  next[k] = IF k = 0 THEN <<>>
                           ELSE IF parts[k] \in {<<>>, <<".">>} THEN next[k - 1] ELSE Append(next[k - 1], parts[k])
      BY <3>1
    <3> QED  BY <3>2 DEF KeptRun
  <2> QED  BY <1>2, <2>2
<1> HIDE DEF T
<1>3. T = 0..Len(parts)
  <2>1. T \in SUBSET (0..Len(parts))
    BY DEF T
  <2> QED  BY <1>1, <1>2, <2>1, HandedOn
<1>4. Len(parts) \in 0..Len(parts)
  OBVIOUS
<1> QED  BY <1>3, <1>4 DEF T

LEMMA ComponentsAre ==
  ASSUME NEW W, NEW s \in Seq(W)
  PROVE  components(s) \in Seq(Seq(W))
<1>1. PICK parts : parts = Split(s, "/")
  OBVIOUS
<1>2. parts \in Seq(Seq(W)) /\ Len(parts) \in Nat
  BY <1>1, SplitParts DEF PartsOf
<1>3. \E kept : kept = [k \in 0..Len(parts) |->
                         IF k = 0 THEN <<>>
                         ELSE IF parts[k] \in {<<>>, <<".">>} THEN kept[k - 1] ELSE Append(kept[k - 1], parts[k])]
  BY <1>2, KeptRuns DEF KeptRun
<1>4. PICK kept : KeptRun(parts, Len(parts), kept) /\ components(s) = kept[Len(parts)]
  BY <1>1, <1>3 DEF components, KeptRun
<1> DEFINE T == {k \in 0..Len(parts) : kept[k] \in Seq(Seq(W))}
<1>5. 0 \in T
  <2>1. kept[0] = <<>> /\ 0 \in 0..Len(parts)
    BY <1>2, <1>4 DEF KeptRun
  <2>2. <<>> \in Seq(Seq(W))
    BY EmptySeq
  <2>3. kept[0] \in Seq(Seq(W))
    BY <2>1, <2>2
  <2> QED  BY <2>1, <2>3
<1>6. ASSUME NEW k \in 0..Len(parts), k + 1 \in 0..Len(parts), k \in T PROVE k + 1 \in T
  <2>1. k + 1 \in 1..Len(parts) /\ (k + 1) - 1 = k /\ k + 1 # 0
    BY <1>2, <1>6
  <2>2. kept[k + 1] = IF parts[k + 1] \in {<<>>, <<".">>} THEN kept[k] ELSE Append(kept[k], parts[k + 1])
    BY <1>4, <1>6, <2>1 DEF KeptRun
  <2>3. parts[k + 1] \in Seq(W) /\ kept[k] \in Seq(Seq(W))
    BY <1>2, <1>6, <2>1, ElementOfSeq
  <2>4. Append(kept[k], parts[k + 1]) \in Seq(Seq(W))
    BY <2>3, AppendProperties
  <2>5. kept[k + 1] \in Seq(Seq(W))
    BY <2>2, <2>3, <2>4
  <2> QED  BY <1>6, <2>5
<1>7. T = 0..Len(parts)
  <2>1. T \in SUBSET (0..Len(parts))
    OBVIOUS
  <2> HIDE DEF T
  <2> QED  BY <1>2, <1>5, <1>6, <2>1, HandedOn
<1>8. Len(parts) \in T
  <2> HIDE DEF T
  <2> QED  BY <1>2, <1>7
<1> QED  BY <1>4, <1>8

(* A value whose type is not string has no comma.                            *)
LEMMA ValueHasNoComma ==
  ASSUME NEW W, NEW v \in Seq(W), NEW type \in {"path", "host", "port", "profile_id"},
         validate_value(type, v) = "ok"
  PROVE  ~Contains(v, ",")
<1>1. Len(v) \in Nat /\ DOMAIN v = 1..Len(v) /\ \A i \in 1..Len(v) : v[i] \in Range(v)
  BY LenProperties DEF Range
<1>2. "lvr_type_invalid" # "ok" /\ "lvr_path_not_canonical" # "ok"
  OBVIOUS
<1>3. ~(v = <<>> \/ Range(v) \cap Meta # {})
  BY <1>2 DEF validate_value
<1>4. "," \notin Alnum \cup {".", "-"} /\ "," \notin DOMAIN Digit /\ "," \notin Letter \cup DOMAIN Digit \cup {"-"}
  BY DEF Alnum, Letter, Upper, Digit
<1>5. CASE type = "path"
  <2>1. validate_path(v) = "ok"
    BY <1>3, <1>5 DEF validate_value
  <2> QED  BY <1>2, <2>1 DEF validate_path
<1>6. CASE type = "port"
  <2>1. validate_port(v) = "ok"
    BY <1>3, <1>6 DEF validate_value
  <2>2. Range(v) \subseteq DOMAIN Digit
    <3>1. Digits(v)
      <4> DEFINE fits == v[1] # "0" /\ Number(v) \in 1..65535
      <4>1. validate_port(v) = IF Digits(v) /\ fits THEN "ok" ELSE "lvr_type_invalid"
        BY DEF validate_port
      <4> HIDE DEF fits
      <4> QED  BY <1>2, <2>1, <4>1
    <3> QED  BY <3>1 DEF Digits
  <2> QED  BY <1>1, <1>4, <2>2 DEF Contains
<1>7. CASE type = "profile_id"
  <2>1. is_safe_path_component(v)
    BY <1>2, <1>3, <1>7 DEF validate_value
  <2>2. Range(v) \subseteq Alnum \cup {".", "-"}
    BY <2>1 DEF is_safe_path_component
  <2> QED  BY <1>1, <1>4, <2>2 DEF Contains
<1>8. CASE type = "host"
  <2>1. validate_host(v) = "ok"
    BY <1>3, <1>8 DEF validate_value
  <2>2. PICK labels : labels = Split(v, ".")
    OBVIOUS
  <2>3. labels \in Seq(Seq(W)) /\ Len(labels) \in Nat /\ DOMAIN labels = 1..Len(labels)
        /\ \A j \in 1..Len(v) : v[j] = "." \/ In(labels, v[j])
    BY <2>2, SplitParts DEF PartsOf
  <2>4. ASSUME NEW n \in 1..Len(labels) PROVE "," \notin Range(labels[n])
    <3>1. Range(labels[n]) \subseteq DOMAIN Digit \/ Range(labels[n]) \subseteq Letter \cup DOMAIN Digit \cup {"-"}
      BY <1>2, <2>1, <2>2, <2>3 DEF validate_host, Digits
    <3> QED  BY <1>4, <3>1
  <2>5. ASSUME NEW n \in 1..Len(labels) PROVE ~Contains(labels[n], ",")
    <3>1. labels[n] \in Seq(W)
      BY <2>3, ElementOfSeq
    <3>2. \A i \in 1..Len(labels[n]) : labels[n][i] \in Range(labels[n])
      BY <3>1, LenProperties DEF Range
    <3> QED  BY <2>4, <3>2 DEF Contains
  <2>6. "," # "."
    OBVIOUS
  <2> QED  BY <2>3, <2>5, <2>6 DEF Contains, In
<1> QED  BY <1>5, <1>6, <1>7, <1>8

(* Buckets.                                                                  *)
Full == BURST * REFILL

LEMMA FullIs == Full \in Nat /\ REFILL \in Nat \ {0} /\ REFILL <= Full
<1>1. BURST \in Nat \ {0} /\ REFILL \in Nat \ {0}
  BY SubstitutionConstants
<1>2. PICK c \in Nat : BURST = c + 1
  <2>1. BURST - 1 \in Nat /\ BURST = (BURST - 1) + 1
    BY <1>1
  <2> QED  BY <2>1
<1>3. BURST * REFILL = c * REFILL + REFILL /\ c * REFILL \in Nat
  BY <1>1, <1>2
<1> QED  BY <1>1, <1>3 DEF Full

LEMMA MinOfTwo == ASSUME NEW x \in Int, NEW y \in Int PROVE Min({x, y}) = IF x <= y THEN x ELSE y
<1>1. \E z \in {x, y} : \A u \in {x, y} : z <= u
  OBVIOUS
<1>2. Min({x, y}) \in {x, y} /\ Min({x, y}) <= x /\ Min({x, y}) <= y
  BY <1>1 DEF Min
<1> QED  BY <1>2

Level(l, n) == [last |-> l, tokens |-> n]
BucketType(b) ==
  DOMAIN b = VarKey /\ \A k \in VarKey : b[k] = Unset \/ \E l \in 0..clock, n \in Nat : b[k] = Level(l, n)

LEMMA LevelIsSet == \A l, n \in Nat : Level(l, n) # Unset /\ Level(l, n).last = l /\ Level(l, n).tokens = n
BY SubstitutionConstants DEF Level

LEMMA TokensIs ==
  ASSUME clock \in Nat, NEW b, BucketType(b), NEW k \in VarKey
  PROVE  /\ Tokens(b, k) \in 0..Full
         /\ b[k] = Unset => Tokens(b, k) = Full
         /\ \A l \in 0..clock, n \in Nat : b[k] = Level(l, n) =>
              Tokens(b, k) = IF n + clock - l <= Full THEN n + clock - l ELSE Full
<1>1. Full \in Nat
  BY FullIs
<1>2. CASE b[k] = Unset
  <2>1. Tokens(b, k) = Full
    BY <1>2 DEF Tokens, Full
  <2>2. \A l \in 0..clock, n \in Nat : b[k] # Level(l, n)
    BY <1>2, LevelIsSet
  <2> QED  BY <1>1, <2>1, <2>2
<1>3. ASSUME NEW l \in 0..clock, NEW n \in Nat, b[k] = Level(l, n)
      PROVE  Tokens(b, k) = (IF n + clock - l <= Full THEN n + clock - l ELSE Full) /\ Tokens(b, k) \in 0..Full
  <2>1. b[k] # Unset /\ b[k].last = l /\ b[k].tokens = n
    BY <1>3, LevelIsSet
  <2>2. Tokens(b, k) = Min({n + clock - l, Full})
    BY <2>1 DEF Tokens, Full
  <2>3. n + clock - l \in Int /\ n + clock - l >= 0
    BY <1>3
  <2>4. Min({n + clock - l, Full}) = IF n + clock - l <= Full THEN n + clock - l ELSE Full
    BY <1>1, <2>3, MinOfTwo
  <2> QED  BY <1>1, <2>2, <2>3, <2>4
<1>4. CASE b[k] # Unset
  <2>1. PICK l \in 0..clock, n \in Nat : b[k] = Level(l, n)
    BY <1>4 DEF BucketType
  <2> QED  BY <1>3, <1>4, <2>1
<1> QED  BY <1>2, <1>4

LEMMA TakingIs ==
  ASSUME clock \in Nat, NEW b, BucketType(b), NEW k \in VarKey
  PROVE  /\ BucketType(Taking(b, k))
         /\ Tokens(Taking(b, k), k) = IF try_take(b, k) THEN Tokens(b, k) - REFILL ELSE Tokens(b, k)
         /\ \A j \in VarKey : j # k => Tokens(Taking(b, k), j) = Tokens(b, j)
<1>1. PICK n : n = IF try_take(b, k) THEN Tokens(b, k) - REFILL ELSE Tokens(b, k)
  OBVIOUS
<1>2. n \in Nat /\ n <= Full /\ Full \in Nat
  <2>1. PICK t : t = Tokens(b, k)
    OBVIOUS
  <2>2. t \in 0..Full
    BY <2>1, TokensIs
  <2>3. n = IF t >= REFILL THEN t - REFILL ELSE t
    BY <1>1, <2>1 DEF try_take
  <2> QED  BY <2>2, <2>3, FullIs
<1>3. PICK c : c = Taking(b, k)
  OBVIOUS
<1>4. DOMAIN c = VarKey /\ c[k] = Level(clock, n) /\ \A j \in VarKey : j # k => c[j] = b[j]
  <2>1. c = [b EXCEPT ![k] = Level(clock, n)]
    BY <1>1, <1>3 DEF Taking, Level
  <2> QED  BY <2>1 DEF BucketType
<1>5. BucketType(c)
  <2>1. clock \in 0..clock
    OBVIOUS
  <2> QED  BY <1>2, <1>4, <2>1 DEF BucketType
<1>6. Tokens(c, k) = n
  <2>1. clock \in 0..clock /\ n + clock - clock = n
    BY <1>2
  <2> QED  BY <1>2, <1>4, <1>5, <2>1, TokensIs
<1>7. \A j \in VarKey : j # k => Tokens(c, j) = Tokens(b, j)
  BY <1>4 DEF Tokens
<1> QED  BY <1>1, <1>3, <1>5, <1>6, <1>7

(* What an error says.                                                       *)
VarType == {"path", "host", "port", "profile_id", "string"}
DocType == \A k \in VarKey : doc[k] = Unset \/ \E t \in Typed, c \in BOOLEAN : doc[k] = Var(t, c)
Defined(k) == k \in VarKey /\ doc[k] # Unset

LEMMA DefinedIs ==
  ASSUME DocType, NEW k, Defined(k)
  PROVE  doc[k].type \in VarType /\ \E t \in Typed : doc[k].value = t.value
<1>1. PICK t \in Typed, c \in BOOLEAN : doc[k] = Var(t, c)
  BY DEF DocType, Defined
<1>2. doc[k].type = t.type /\ doc[k].value = t.value
  BY <1>1 DEF Var
<1> QED  BY <1>2, SubstitutionConstants DEF VarType

LEMMA ValidateSays ==
  ASSUME NEW type \in VarType, NEW v
  PROVE  validate_value(type, v) \in {"ok", "lvr_type_invalid", "lvr_path_not_canonical"}
<1>1. validate_path(v) \in {"ok", "lvr_type_invalid", "lvr_path_not_canonical"}
  BY DEF validate_path
<1>2. validate_host(v) \in {"ok", "lvr_type_invalid"}
  BY DEF validate_host
<1>3. validate_port(v) \in {"ok", "lvr_type_invalid"}
  BY DEF validate_port
<1>4. CASE v = <<>> \/ Range(v) \cap Meta # {}
  BY <1>4 DEF validate_value
<1>5. CASE ~(v = <<>> \/ Range(v) \cap Meta # {})
  <2>1. CASE type = "path"
    BY <1>1, <1>5, <2>1 DEF validate_value
  <2>2. CASE type = "host"
    BY <1>2, <1>5, <2>2 DEF validate_value
  <2>3. CASE type = "port"
    BY <1>3, <1>5, <2>3 DEF validate_value
  <2>4. CASE type = "profile_id"
    BY <1>5, <2>4 DEF validate_value
  <2>5. CASE type = "string"
    BY <1>5, <2>5 DEF validate_value
  <2> QED  BY <2>1, <2>2, <2>3, <2>4, <2>5 DEF VarType
<1> QED  BY <1>4, <1>5

LEMMA RefusalSays ==
  ASSUME DocType, NEW b, NEW h
  PROVE  /\ Refusal(b, h) = "none" =>
              Defined(h.key) /\ validate_value(doc[h.key].type, doc[h.key].value) = "ok" /\ try_take(b, h.key)
         /\ Refusal(b, h) = "lvr_rate_limited" => Defined(h.key) /\ ~try_take(b, h.key)
<1>1. CASE ~Defined(h.key)
  <2>1. Refusal(b, h) = "lvr_undefined"
    BY <1>1 DEF Refusal, Defined
  <2> QED  BY <2>1
<1>2. CASE Defined(h.key)
  <2>1. PICK var : var = doc[h.key]
    OBVIOUS
  <2>2. PICK said : said = validate_value(var.type, var.value)
    OBVIOUS
  <2>3. said \in {"ok", "lvr_type_invalid", "lvr_path_not_canonical"}
    BY <1>2, <2>1, <2>2, DefinedIs, ValidateSays
  <2>4. Refusal(b, h) = IF ~var.verified THEN "lvr_unverified"
                        ELSE IF said # "ok" THEN said
                        ELSE IF var.type = "profile_id" /\ var.value \notin Profiles THEN "lvr_profile_not_in_vault"
                        ELSE IF ~try_take(b, h.key) THEN "lvr_rate_limited" ELSE "none"
    BY <1>2, <2>1, <2>2 DEF Refusal, Defined
  <2>5. Refusal(b, h) = "none" => said = "ok" /\ try_take(b, h.key)
    BY <2>3, <2>4
  <2>6. Refusal(b, h) = "lvr_rate_limited" => ~try_take(b, h.key)
    BY <2>3, <2>4
  <2> QED  BY <1>2, <2>1, <2>2, <2>5, <2>6
<1> QED  BY <1>1, <1>2

(* What is taken for a call has been taken from the buckets.                 *)
Part == {"bucket", "error", "sites", "given", "out", "last", "texts"}
Balanced(st) ==
  /\ DOMAIN st = Part /\ BucketType(st.bucket) /\ DOMAIN st.given = VarKey
  /\ \A k \in VarKey : st.given[k] \in Nat /\ Tokens(st.bucket, k) + REFILL * st.given[k] = Tokens(bucket, k)
  /\ st.error = "lvr_rate_limited" => \E k \in VarKey : Tokens(st.bucket, k) < REFILL

(* Changes of what is neither in a bucket nor an error.                      *)
LEMMA BalancedElse ==
  ASSUME NEW st, Balanced(st), NEW to, DOMAIN to = Part, to.bucket = st.bucket, to.given = st.given,
         to.error = st.error \/ to.error # "lvr_rate_limited"
  PROVE  Balanced(to)
BY DEF Balanced

LEMMA BalancedHit ==
  ASSUME clock \in Nat, DocType, NEW st, Balanced(st), NEW s, NEW pointer, NEW h
  PROVE  Balanced(TakeHit(st, s, pointer, h))
<1>1. PICK e : e = Refusal(st.bucket, h)
  OBVIOUS
<1>2. PICK to : to = TakeHit(st, s, pointer, h)
  OBVIOUS
<1>3. CASE st.error # "none"
  BY <1>3 DEF TakeHit
<1>4. CASE st.error = "none" /\ e \notin {"none", "lvr_rate_limited"}
  <2>1. to = [st EXCEPT !.error = e]
    BY <1>1, <1>2, <1>4 DEF TakeHit, Judged
  <2>2. DOMAIN to = Part /\ to.bucket = st.bucket /\ to.given = st.given /\ to.error = e
    BY <2>1 DEF Balanced, Part
  <2> QED  BY <1>2, <1>4, <2>2, BalancedElse
<1>5. CASE st.error = "none" /\ e = "lvr_rate_limited"
  <2>1. to = [st EXCEPT !.error = e, !.bucket = Taking(@, h.key)]
    BY <1>1, <1>2, <1>5 DEF TakeHit, Judged
  <2>2. DOMAIN to = Part /\ to.bucket = Taking(st.bucket, h.key) /\ to.given = st.given /\ to.error = e
    BY <2>1 DEF Balanced, Part
  <2>3. h.key \in VarKey /\ ~try_take(st.bucket, h.key)
    BY <1>1, <1>5, RefusalSays DEF Defined
  <2>4. BucketType(st.bucket)
    BY DEF Balanced
  <2>5. /\ BucketType(to.bucket) /\ Tokens(to.bucket, h.key) = Tokens(st.bucket, h.key)
        /\ \A j \in VarKey : j # h.key => Tokens(to.bucket, j) = Tokens(st.bucket, j)
    BY <2>2, <2>3, <2>4, TakingIs
  <2>6. Tokens(st.bucket, h.key) \in 0..Full
    BY <2>3, <2>4, TokensIs
  <2>7. Tokens(to.bucket, h.key) < REFILL
    BY <2>3, <2>5, <2>6, FullIs DEF try_take
  <2>8. \A k \in VarKey : Tokens(to.bucket, k) = Tokens(st.bucket, k)
    BY <2>3, <2>5
  <2> QED  BY <1>2, <2>2, <2>3, <2>5, <2>7, <2>8 DEF Balanced
<1>6. CASE st.error = "none" /\ e = "none"
  <2>1. to = [st EXCEPT !.bucket = Taking(@, h.key),
                        !.given[h.key] = @ + 1,
                        !.sites = Append(@, [pointer |-> pointer, key |-> h.key,
                                             type |-> doc[h.key].type, clear |-> <<>>]),
                        !.out = @ \o SubSeq(s, st.last, h.start - 1) \o doc[h.key].value,
                        !.last = h.end + 1]
    BY <1>1, <1>2, <1>6 DEF TakeHit, Judged
  <2>2. DOMAIN to = Part /\ to.bucket = Taking(st.bucket, h.key) /\ to.error = "none"
        /\ to.given = [st.given EXCEPT ![h.key] = @ + 1]
    BY <1>6, <2>1 DEF Balanced, Part
  <2>3. h.key \in VarKey /\ try_take(st.bucket, h.key)
    BY <1>1, <1>6, RefusalSays DEF Defined
  <2>4. BucketType(st.bucket) /\ DOMAIN st.given = VarKey /\ st.given[h.key] \in Nat
    BY <2>3 DEF Balanced
  <2>5. /\ BucketType(to.bucket) /\ Tokens(to.bucket, h.key) = Tokens(st.bucket, h.key) - REFILL
        /\ \A j \in VarKey : j # h.key => Tokens(to.bucket, j) = Tokens(st.bucket, j)
    BY <2>2, <2>3, <2>4, TakingIs
  <2>6. /\ DOMAIN to.given = VarKey /\ to.given[h.key] = st.given[h.key] + 1
        /\ \A j \in VarKey : j # h.key => to.given[j] = st.given[j]
    BY <2>2, <2>3, <2>4
  <2>7. ASSUME NEW k \in VarKey
        PROVE  to.given[k] \in Nat /\ Tokens(to.bucket, k) + REFILL * to.given[k] = Tokens(bucket, k)
    <3>1. st.given[k] \in Nat /\ Tokens(st.bucket, k) + REFILL * st.given[k] = Tokens(bucket, k)
      BY DEF Balanced
    <3>2. CASE k # h.key
      BY <2>5, <2>6, <3>1, <3>2
    <3>3. CASE k = h.key
      <4>1. PICK t, g, R : t = Tokens(st.bucket, k) /\ g = st.given[k] /\ R = REFILL
        OBVIOUS
      <4>2. t \in Int /\ g \in Nat /\ R \in Nat
        BY <2>4, <3>1, <4>1, FullIs, TokensIs
      <4>3. R * (g + 1) = R * g + R /\ R * g \in Nat
        BY ONLY <4>2
      <4>4. (t - R) + R * (g + 1) = t + R * g
        BY ONLY <4>2, <4>3
      <4> QED  BY <2>5, <2>6, <3>1, <3>3, <4>1, <4>2, <4>4
    <3> QED  BY <3>2, <3>3
  <2> QED  BY <1>2, <2>2, <2>5, <2>6, <2>7 DEF Balanced
<1> QED  BY <1>3, <1>4, <1>5, <1>6

(* One text, one match after the other.                                      *)
TakeRun(st, s, pointer, hits, n, take) ==
  take = [k \in 0..n |-> IF k = 0 THEN [st EXCEPT !.out = <<>>, !.last = 1]
                         ELSE IF Stands(hits[k]) THEN TakeHit(take[k - 1], s, pointer, hits[k]) ELSE take[k - 1]]

LEMMA TakeRuns ==
  ASSUME NEW st, NEW s, NEW pointer, NEW hits, Len(hits) \in Nat
  PROVE  \E take : TakeRun(st, s, pointer, hits, Len(hits), take)
<1> DEFINE T == {n \in 0..Len(hits) : \E take : TakeRun(st, s, pointer, hits, n, take)}
<1>1. 0 \in T
  <2>1. TakeRun(st, s, pointer, hits, 0, [i \in 0..0 |-> [st EXCEPT !.out = <<>>, !.last = 1]])
    BY DEF TakeRun
  <2> QED  BY <2>1
<1>2. ASSUME NEW i \in 0..Len(hits), i + 1 \in 0..Len(hits), i \in T PROVE i + 1 \in T
  <2>1. PICK take : TakeRun(st, s, pointer, hits, i, take)
    BY <1>2
  <2> DEFINE next == [k \in 0..(i + 1) |->
                       IF k = i + 1
                       THEN IF Stands(hits[k]) THEN TakeHit(take[i], s, pointer, hits[k]) ELSE take[i]
                       ELSE take[k]]
  <2>2. TakeRun(st, s, pointer, hits, i + 1, next)
    <3>1. \A k \in 0..i : take[k] = IF k = 0 THEN [st EXCEPT !.out = <<>>, !.last = 1]
                                    ELSE IF Stands(hits[k]) THEN TakeHit(take[k - 1], s, pointer, hits[k])
                                    ELSE take[k - 1]
      BY <2>1 DEF TakeRun
    <3>2. ASSUME NEW k \in 0..(i + 1)
          PROVE  next[k] = IF k = 0 THEN [st EXCEPT !.out = <<>>, !.last = 1]
                           ELSE IF Stands(hits[k]) THEN TakeHit(next[k - 1], s, pointer, hits[k]) ELSE next[k - 1]
      BY <3>1
    <3> QED  BY <3>2 DEF TakeRun
  <2> QED  BY <1>2, <2>2
<1> HIDE DEF T
<1>3. T = 0..Len(hits)
  <2>1. T \in SUBSET (0..Len(hits))
    BY DEF T
  <2> QED  BY <1>1, <1>2, <2>1, HandedOn
<1>4. Len(hits) \in 0..Len(hits)
  OBVIOUS
<1> QED  BY <1>3, <1>4 DEF T

LEMMA SubstituteIs ==
  ASSUME NEW W, NEW s \in Seq(W), NEW st, NEW pointer
  PROVE  LET hits == find_all(s)
         IN  \E take :
               /\ TakeRun(st, s, pointer, hits, Len(hits), take)
               /\ substitute(st, s, pointer) =
                    IF st.error # "none" THEN st
                    ELSE IF pointer \in BoundedPointer /\ \E i \in DOMAIN hits : ~hits[i].escaped /\ hits[i].ns # "lvr:"
                    THEN [st EXCEPT !.error = "cfg_ref_not_resolvable_by_broker"]
                    ELSE PathJudged(Rest(take[Len(hits)], s), pointer, hits)
<1>1. PICK hits : hits = find_all(s)
  OBVIOUS
<1>2. Len(hits) \in Nat
  BY <1>1, FindAllFinds, LenProperties DEF Found
<1>3. \E take : TakeRun(st, s, pointer, hits, Len(hits), take)
  BY <1>2, TakeRuns
<1>4. \E take :
        /\ TakeRun(st, s, pointer, hits, Len(hits), take)
        /\ TakeHits(st, s, pointer, hits) =
             IF pointer \in BoundedPointer /\ \E i \in DOMAIN hits : ~hits[i].escaped /\ hits[i].ns # "lvr:"
             THEN [st EXCEPT !.error = "cfg_ref_not_resolvable_by_broker"]
             ELSE PathJudged(Rest(take[Len(hits)], s), pointer, hits)
  BY <1>3 DEF TakeHits, TakeRun
<1> QED  BY <1>1, <1>4 DEF substitute

(* What the last step of a text changes.                                     *)
Elsewhere(done, pointer, hits) ==
  /\ done.error = "none" /\ is_path_field(pointer)
  /\ \E i \in DOMAIN hits : Stands(hits[i]) /\ doc[hits[i].key].type = "path"
  /\ done.out[1] # "s3:" /\ ~final_path_is_canonical(done.out)

LEMMA JudgedLast ==
  ASSUME NEW st, DOMAIN st = Part, NEW s, NEW pointer, NEW hits,
         NEW done, done = Rest(st, s), NEW to, to = PathJudged(done, pointer, hits)
  PROVE  /\ DOMAIN done = Part /\ DOMAIN to = Part
         /\ done.error = st.error /\ done.bucket = st.bucket /\ done.given = st.given
         /\ done.sites = st.sites /\ done.texts = st.texts
         /\ done.out = Joined(st.out, SubSeq(s, st.last, Len(s)))
         /\ to.bucket = st.bucket /\ to.given = st.given
         /\ to = done \/ to.error = "lvr_path_not_canonical"
         /\ to = done => ~Elsewhere(done, pointer, hits)
<1>1. done = Rest(st, s) /\ to = PathJudged(done, pointer, hits)
  OBVIOUS
<1>3. done = [st EXCEPT !.out = @ \o SubSeq(s, st.last, Len(s))]
  BY <1>1 DEF Rest
<1>4. /\ DOMAIN done = Part /\ done.error = st.error /\ done.bucket = st.bucket /\ done.given = st.given
      /\ done.sites = st.sites /\ done.texts = st.texts /\ done.out = Joined(st.out, SubSeq(s, st.last, Len(s)))
  BY <1>3 DEF Part, Joined
<1>5. CASE Elsewhere(done, pointer, hits)
  <2>1. to = [done EXCEPT !.error = "lvr_path_not_canonical"]
    BY <1>1, <1>5 DEF PathJudged, Elsewhere
  <2>2. DOMAIN to = Part /\ to.error = "lvr_path_not_canonical" /\ to.bucket = st.bucket /\ to.given = st.given
    BY <1>4, <2>1 DEF Part
  <2>3. to # done
    BY <1>5, <2>2 DEF Elsewhere
  <2> QED  BY <1>4, <1>5, <2>2, <2>3
<1>6. CASE ~Elsewhere(done, pointer, hits)
  <2>1. to = done
    BY <1>1, <1>6 DEF PathJudged, Elsewhere
  <2> QED  BY <1>4, <1>6, <2>1
<1> QED  BY <1>5, <1>6

(* Up to a match nothing but what is balanced, and without an error every    *)
(* variable so far is defined.                                               *)
Sound(st, hits, n) ==
  /\ Balanced(st)
  /\ st.error = "none" => \A m \in 1..n : Stands(hits[m]) => Defined(hits[m].key)

LEMMA HitNoError ==
  ASSUME DocType, NEW st, NEW s, NEW pointer, NEW h, DOMAIN st = Part, TakeHit(st, s, pointer, h).error = "none"
  PROVE  st.error = "none" /\ Refusal(st.bucket, h) = "none"
<1>1. PICK e : e = Refusal(st.bucket, h)
  OBVIOUS
<1>2. CASE st.error # "none"
  BY <1>2 DEF TakeHit
<1>3. CASE st.error = "none" /\ e \notin {"none", "lvr_rate_limited"}
  <2>1. TakeHit(st, s, pointer, h) = [st EXCEPT !.error = e]
    BY <1>1, <1>3 DEF TakeHit, Judged
  <2> QED  BY <1>3, <2>1 DEF Part
<1>4. CASE st.error = "none" /\ e = "lvr_rate_limited"
  <2>1. TakeHit(st, s, pointer, h) = [st EXCEPT !.error = e, !.bucket = Taking(@, h.key)]
    BY <1>1, <1>4 DEF TakeHit, Judged
  <2>2. TakeHit(st, s, pointer, h).error = e
    BY <2>1 DEF Part
  <2> QED  BY <1>4, <2>2
<1>5. CASE st.error = "none" /\ e = "none"
  BY <1>1, <1>5
<1> QED  BY <1>2, <1>3, <1>4, <1>5

LEMMA TakeSound ==
  ASSUME clock \in Nat, DocType, NEW st, Balanced(st), st.error = "none", NEW s, NEW pointer,
         NEW hits, Len(hits) \in Nat, NEW take, TakeRun(st, s, pointer, hits, Len(hits), take)
  PROVE  \A n \in 0..Len(hits) : Sound(take[n], hits, n)
<1>1. \A k \in 0..Len(hits) : take[k] = IF k = 0 THEN [st EXCEPT !.out = <<>>, !.last = 1]
                                        ELSE IF Stands(hits[k]) THEN TakeHit(take[k - 1], s, pointer, hits[k])
                                        ELSE take[k - 1]
  BY DEF TakeRun
<1> DEFINE T == {n \in 0..Len(hits) : Sound(take[n], hits, n)}
<1>2. 0 \in T
  <2>1. take[0] = [st EXCEPT !.out = <<>>, !.last = 1]
    BY <1>1
  <2>2. DOMAIN take[0] = Part /\ take[0].bucket = st.bucket /\ take[0].given = st.given /\ take[0].error = st.error
    BY <2>1 DEF Balanced, Part
  <2>3. Balanced(take[0])
    BY <2>2, BalancedElse
  <2>4. Sound(take[0], hits, 0)
    BY <2>3 DEF Sound
  <2> QED  BY <2>4
<1>3. ASSUME NEW n \in 0..Len(hits), n + 1 \in 0..Len(hits), n \in T PROVE n + 1 \in T
  <2>1. Sound(take[n], hits, n)
    BY <1>3
  <2>2. n + 1 \in 1..Len(hits) /\ (n + 1) - 1 = n /\ n + 1 # 0 /\ \A m \in 1..n + 1 : m \in 1..n \/ m = n + 1
    BY <1>3
  <2>3. CASE Stands(hits[n + 1])
    <3>1. take[n + 1] = TakeHit(take[n], s, pointer, hits[n + 1])
      BY <1>1, <1>3, <2>2, <2>3
    <3>2. Balanced(take[n + 1])
      BY <2>1, <3>1, BalancedHit DEF Sound
    <3>3. ASSUME take[n + 1].error = "none" PROVE \A m \in 1..n + 1 : Stands(hits[m]) => Defined(hits[m].key)
      <4>1. DOMAIN take[n] = Part
        BY <2>1 DEF Sound, Balanced
      <4>2. take[n].error = "none" /\ Refusal(take[n].bucket, hits[n + 1]) = "none"
        BY <3>1, <3>3, <4>1, HitNoError
      <4>3. Defined(hits[n + 1].key)
        BY <4>2, RefusalSays
      <4> QED  BY <2>1, <2>2, <4>2, <4>3 DEF Sound
    <3>4. Sound(take[n + 1], hits, n + 1)
      BY <3>2, <3>3 DEF Sound
    <3> QED  BY <1>3, <3>4
  <2>4. CASE ~Stands(hits[n + 1])
    <3>1. take[n + 1] = take[n]
      BY <1>1, <1>3, <2>2, <2>4
    <3>2. Sound(take[n + 1], hits, n + 1)
      BY <2>1, <2>2, <2>4, <3>1 DEF Sound
    <3> QED  BY <1>3, <3>2
  <2> QED  BY <2>3, <2>4
<1>4. T = 0..Len(hits)
  <2>1. T \in SUBSET (0..Len(hits))
    OBVIOUS
  <2> HIDE DEF T
  <2> QED  BY <1>2, <1>3, <2>1, HandedOn
<1> QED  BY <1>4

LEMMA TextBalanced ==
  ASSUME clock \in Nat, DocType, NEW W, NEW s \in Seq(W), NEW st, Balanced(st), NEW pointer
  PROVE  Balanced(substitute(st, s, pointer))
<1>1. PICK hits : hits = find_all(s)
  OBVIOUS
<1>2. PICK to : to = substitute(st, s, pointer)
  OBVIOUS
<1>3. PICK take :
        /\ TakeRun(st, s, pointer, hits, Len(hits), take)
        /\ to = IF st.error # "none" THEN st
                ELSE IF pointer \in BoundedPointer /\ \E i \in DOMAIN hits : ~hits[i].escaped /\ hits[i].ns # "lvr:"
                THEN [st EXCEPT !.error = "cfg_ref_not_resolvable_by_broker"]
                ELSE PathJudged(Rest(take[Len(hits)], s), pointer, hits)
  BY <1>1, <1>2, SubstituteIs
<1>4. Len(hits) \in Nat
  BY <1>1, FindAllFinds, LenProperties DEF Found
<1>5. CASE to = st
  BY <1>2, <1>5
<1>6. CASE to = [st EXCEPT !.error = "cfg_ref_not_resolvable_by_broker"]
  <2>1. DOMAIN to = Part /\ to.bucket = st.bucket /\ to.given = st.given /\ to.error # "lvr_rate_limited"
    BY <1>6 DEF Balanced, Part
  <2> QED  BY <1>2, <2>1, BalancedElse
<1>7. CASE st.error = "none" /\ to = PathJudged(Rest(take[Len(hits)], s), pointer, hits)
  <2>1. PICK last : last = take[Len(hits)]
    OBVIOUS
  <2>2. Balanced(last) /\ DOMAIN last = Part
    <3>1. Len(hits) \in 0..Len(hits)
      BY <1>4
    <3>2. Sound(last, hits, Len(hits))
      BY <1>3, <1>4, <1>7, <2>1, <3>1, TakeSound
    <3> QED  BY <3>2 DEF Sound, Balanced
  <2>3. to = PathJudged(Rest(last, s), pointer, hits)
    BY <1>7, <2>1
  <2>4. /\ DOMAIN to = Part /\ to.bucket = last.bucket /\ to.given = last.given
        /\ to = Rest(last, s) \/ to.error = "lvr_path_not_canonical"
        /\ Rest(last, s).error = last.error
    BY <2>2, <2>3, JudgedLast
  <2>5. to.error = last.error \/ to.error # "lvr_rate_limited"
    BY <2>4
  <2> QED  BY <1>2, <2>2, <2>4, <2>5, BalancedElse
<1> QED  BY <1>3, <1>5, <1>6, <1>7

(* What a text is once no reference in it was refused.                       *)
Worded(W) == \A t \in Typed : t.value \in Seq(W)
AllDefined(hits) == \A m \in 1..Len(hits) : Stands(hits[m]) => Defined(hits[m].key)
Sites(P) == [pointer : P, key : VarKey, type : VarType, clear : {<<>>}]
Has(sites, p, t) == \E j \in 1..Len(sites) : sites[j].pointer = p /\ sites[j].type = t
HitType(hits, n, t) == \E m \in 1..n : Stands(hits[m]) /\ doc[hits[m].key].type = t

LEMMA TextsDefined ==
  ASSUME NEW W, Worded(W), DocType, NEW s \in Seq(W), NEW hits, Found(s, 1, hits), AllDefined(hits)
  PROVE  Wording(W, s)
<1>1. Len(s) \in Nat /\ DOMAIN s = 1..Len(s)
  BY LenProperties
<1>2. ASSUME NEW i \in 1..Len(s) PROVE Meaning(s, i) \in Seq(W)
  <2>1. CASE i \in Standing(s)
    <3>1. PICK n \in 1..Len(hits) : Stands(hits[n]) /\ hits[n].start = i /\ MatchAt(s, i) = hits[n]
      BY <2>1, StandingFound
    <3>2. Defined(hits[n].key)
      BY <3>1 DEF AllDefined
    <3>3. PICK t \in Typed : doc[hits[n].key].value = t.value
      BY <3>2, DefinedIs
    <3>4. Meaning(s, i) = t.value
      BY <2>1, <3>1, <3>3 DEF Meaning
    <3> QED  BY <3>4 DEF Worded
  <2>2. CASE i \notin Standing(s)
    <3>1. Meaning(s, i) = <<>> \/ Meaning(s, i) = <<s[i]>>
      BY <2>2 DEF Meaning
    <3>2. s[i] \in W
      BY <1>2, ElementOfSeq
    <3>3. <<s[i]>> \in Seq(W) /\ <<>> \in Seq(W)
      BY <3>2
    <3> QED  BY <3>1, <3>3
  <2> QED  BY <2>1, <2>2
<1> QED  BY <1>2 DEF Wording

(* Between the last reference and the next nothing is replaced.              *)
LEMMA LiteralUpTo ==
  ASSUME NEW W, NEW s \in Seq(W), NEW hits, Found(s, 1, hits), NEW n \in 0..Len(hits),
         NEW last \in 1..Len(s) + 1, \A m \in 1..n : Stands(hits[m]) => hits[m].end < last,
         NEW b \in last - 1..Len(s),
         \A m \in n + 1..Len(hits) : Stands(hits[m]) => b < hits[m].start
  PROVE  Literal(s, last, b)
<1>1. Len(s) \in Nat /\ Len(hits) \in Nat
  BY LenProperties DEF Found
<1>2. ASSUME NEW j \in last..b PROVE Meaning(s, j) = <<s[j]>>
  <2>1. j \in 1..Len(s) /\ j \in Int
    BY <1>1
  <2>2. ASSUME NEW m \in 1..Len(hits), Stands(hits[m]) PROVE j \notin hits[m].start..hits[m].end
    <3>1. Matched(s, FoundAt(hits[m]), hits[m]) /\ FoundAt(hits[m]) \in 1..Len(s)
      BY HitIs
    <3>2. hits[m].start \in Nat /\ hits[m].end \in Nat
      BY <1>1, <3>1, MatchSpan
    <3>3. m \in 1..n \/ m \in n + 1..Len(hits)
      BY <1>1
    <3>4. PICK x, y : x = hits[m].start /\ y = hits[m].end
      OBVIOUS
    <3>5. y < last \/ b < x
      BY <2>2, <3>3, <3>4
    <3>6. x \in Nat /\ y \in Nat /\ b \in Int /\ last \in Int
      BY <1>1, <3>2, <3>4
    <3>7. j \notin x..y
      BY <1>2, <3>5, <3>6
    <3> QED  BY <3>4, <3>7
  <2>3. Outside(hits, j)
    BY <2>2 DEF Outside
  <2> QED  BY <2>1, <2>3, MeaningElse
<1> QED  BY <1>2 DEF Literal

LEMMA AppendHas ==
  ASSUME NEW S, NEW sites \in Seq(S), NEW x \in S
  PROVE  /\ Append(sites, x) \in Seq(S)
         /\ \A p, t : Has(Append(sites, x), p, t) <=> Has(sites, p, t) \/ (x.pointer = p /\ x.type = t)
<1>1. PICK more : more = Append(sites, x)
  OBVIOUS
<1>2. Len(sites) \in Nat
  BY LenProperties
<1>3. more \in Seq(S) /\ Len(more) = Len(sites) + 1 /\ more[Len(sites) + 1] = x
      /\ \A j \in 1..Len(sites) : more[j] = sites[j]
  BY <1>1, AppendProperties
<1>4. ASSUME NEW p, NEW t PROVE Has(more, p, t) <=> Has(sites, p, t) \/ (x.pointer = p /\ x.type = t)
  <2>1. ASSUME Has(more, p, t) PROVE Has(sites, p, t) \/ (x.pointer = p /\ x.type = t)
    <3>1. PICK j \in 1..Len(more) : more[j].pointer = p /\ more[j].type = t
      BY <2>1 DEF Has
    <3>2. j \in 1..Len(sites) \/ j = Len(sites) + 1
      BY <1>2, <1>3
    <3> QED  BY <1>3, <3>1, <3>2 DEF Has
  <2>2. ASSUME Has(sites, p, t) PROVE Has(more, p, t)
    <3>1. PICK j \in 1..Len(sites) : sites[j].pointer = p /\ sites[j].type = t
      BY <2>2 DEF Has
    <3>2. j \in 1..Len(more)
      BY <1>2, <1>3
    <3> QED  BY <1>3, <3>1, <3>2 DEF Has
  <2>3. ASSUME x.pointer = p, x.type = t PROVE Has(more, p, t)
    <3>1. Len(sites) + 1 \in 1..Len(more)
      BY <1>2, <1>3
    <3> QED  BY <1>3, <2>3, <3>1 DEF Has
  <2> QED  BY <2>1, <2>2, <2>3
<1> QED  BY <1>1, <1>3, <1>4

Passing(W, P, st0, st, s, pointer, hits, told, n) ==
  /\ st.texts = st0.texts
  /\ st.sites \in Seq(Sites(P))
  /\ \A p, t : Has(st0.sites, p, t) => Has(st.sites, p, t)
  /\ \A p, t : Has(st.sites, p, t) => Has(st0.sites, p, t) \/ (p = pointer /\ HitType(hits, n, t))
  /\ st.last \in 1..Len(s) + 1
  /\ \A m \in 1..n : Stands(hits[m]) => hits[m].end < st.last
  /\ st.out = told[st.last - 1]
  /\ st.last = 1 \/ \E m \in 1..n : st.last = hits[m].end + 1
  /\ Contains(st.out, ",") => Contains(s, ",") \/ Has(st.sites, pointer, "string")

(* The step of a reference that is replaced.                                 *)
LEMMA HitPasses ==
  ASSUME DocType, NEW W, Worded(W), NEW s, Wording(W, s), NEW hits, Found(s, 1, hits),
         NEW told, Told(s, told), \A i \in 0..Len(s) : told[i] \in Seq(W),
         NEW P, NEW pointer \in P, NEW st0, NEW st, DOMAIN st = Part, NEW n \in 0..Len(hits), n + 1 \in 1..Len(hits),
         Passing(W, P, st0, st, s, pointer, hits, told, n), Stands(hits[n + 1]),
         NEW to, to = TakeHit(st, s, pointer, hits[n + 1]), to.error = "none"
  PROVE  Passing(W, P, st0, to, s, pointer, hits, told, n + 1)
<1>1. s \in Seq(W) /\ Len(s) \in Nat /\ Len(hits) \in Nat
  BY LenProperties DEF Wording, Found
<1>2. PICK h : h = hits[n + 1]
  OBVIOUS
<1>3. st.error = "none" /\ Refusal(st.bucket, h) = "none"
  BY <1>2, HitNoError
<1>4. Defined(h.key) /\ validate_value(doc[h.key].type, doc[h.key].value) = "ok"
  BY <1>3, RefusalSays
<1>5. PICK v, ty : v = doc[h.key].value /\ ty = doc[h.key].type
  OBVIOUS
<1>6. v \in Seq(W) /\ ty \in VarType
  <2>1. ty \in VarType /\ \E t \in Typed : v = t.value
    BY <1>4, <1>5, DefinedIs
  <2> QED  BY <2>1 DEF Worded
<1>7. PICK b, e : b = h.start /\ e = h.end
  OBVIOUS
<1>8. b \in 1..Len(s) /\ e \in b + 3..Len(s) /\ FoundAt(h) = b
  <2>1. Matched(s, FoundAt(h), h) /\ FoundAt(h) \in 1..Len(s)
    BY <1>1, <1>2, HitIs
  <2>2. h.start \in 1..Len(s) /\ FoundAt(h) = h.start
    BY <1>1, <1>2, HitStands
  <2>3. h.end \in h.start + 3..Len(s)
    BY <1>1, <2>1, MatchSpan
  <2> QED  BY <1>7, <2>2, <2>3
<1>9. PICK a : a = st.last
  OBVIOUS
<1>10. a \in 1..Len(s) + 1 /\ \A m \in 1..n : Stands(hits[m]) => hits[m].end < a
  BY <1>9 DEF Passing
<1>11. a <= b
  <2>1. Behind(hits, n + 1, FoundAt(h))
    BY <1>1, <1>2, HitIs
  <2>2. CASE a = 1
    BY <1>8, <2>2
  <2>3. ASSUME NEW m \in 1..n, a = hits[m].end + 1 PROVE a <= b
    <3>1. hits[m].end < b
      <4>1. m \in 1..Len(hits) /\ m < n + 1
        BY <1>1
      <4> QED  BY <1>8, <2>1, <4>1 DEF Behind
    <3>2. PICK y : y = hits[m].end
      OBVIOUS
    <3>3. y \in Nat
      <4>1. m \in 1..Len(hits)
        BY <1>1
      <4>2. Matched(s, FoundAt(hits[m]), hits[m]) /\ FoundAt(hits[m]) \in 1..Len(s)
        BY <1>1, <4>1, HitIs
      <4> QED  BY <1>1, <3>2, <4>2, MatchSpan
    <3> QED  BY <1>8, <2>3, <3>1, <3>2, <3>3
  <2> QED  BY <1>9, <2>2, <2>3 DEF Passing
<1>12. Literal(s, a, b - 1)
  <2>1. ASSUME NEW m \in n + 1..Len(hits), Stands(hits[m]) PROVE b - 1 < hits[m].start
    <3>1. CASE m = n + 1
      BY <1>2, <1>7, <1>8, <3>1
    <3>2. CASE m # n + 1
      <4>1. m \in 1..Len(hits) /\ n + 1 < m
        BY <1>1, <3>2
      <4>2. Behind(hits, m, FoundAt(hits[m])) /\ FoundAt(hits[m]) = hits[m].start /\ hits[m].start \in 1..Len(s)
        BY <1>1, <2>1, <4>1, HitIs, HitStands
      <4>3. e < hits[m].start
        BY <1>2, <1>7, <4>1, <4>2 DEF Behind
      <4>4. PICK x : x = hits[m].start
        OBVIOUS
      <4>5. x \in Nat /\ e < x
        BY <1>1, <4>2, <4>3, <4>4
      <4>6. b - 1 < x
        BY <1>1, <1>8, <4>5
      <4> QED  BY <4>4, <4>6
    <3> QED  BY <3>1, <3>2
  <2>2. b - 1 \in a - 1..Len(s)
    BY <1>1, <1>8, <1>10, <1>11
  <2> QED  BY <1>1, <1>10, <2>1, <2>2, LiteralUpTo
<1>13. told[b - 1] = Joined(told[a - 1], SubSeq(s, a, b - 1))
  <2>1. b - 1 \in a - 1..Len(s)
    BY <1>1, <1>8, <1>10, <1>11
  <2> QED  BY <1>10, <1>12, <2>1, ToldLiterally
<1>14. Meaning(s, b) = v /\ Silent(s, b + 1, e)
  <2>1. Meaning(s, h.start) = doc[h.key].value /\ \A j \in h.start + 1..h.end : Meaning(s, j) = <<>>
    BY <1>1, <1>2, MeaningOfHit
  <2> QED  BY <1>5, <1>7, <2>1 DEF Silent
<1>15. told[b] = Joined(told[b - 1], v)
  BY <1>8, <1>14 DEF Told
<1>16. told[e] = told[b]
  <2>1. PICK c : c = b + 1
    OBVIOUS
  <2>2. c \in 1..Len(s) + 1 /\ e \in c - 1..Len(s) /\ c - 1 = b
    BY <1>1, <1>8, <2>1
  <2>3. told[e] = told[c - 1]
    BY <1>14, <2>1, <2>2, ToldSilently
  <2> QED  BY <2>2, <2>3
<1>17. to = [st EXCEPT !.bucket = Taking(@, h.key),
                       !.given[h.key] = @ + 1,
                       !.sites = Append(@, [pointer |-> pointer, key |-> h.key,
                                            type |-> doc[h.key].type, clear |-> <<>>]),
                       !.out = @ \o SubSeq(s, st.last, h.start - 1) \o doc[h.key].value,
                       !.last = h.end + 1]
  BY <1>2, <1>3 DEF TakeHit, Judged
<1>18. PICK x : x = [pointer |-> pointer, key |-> h.key, type |-> ty, clear |-> <<>>]
  OBVIOUS
<1>19. /\ to.texts = st.texts /\ to.sites = Append(st.sites, x) /\ to.last = e + 1
       /\ to.out = Joined(Joined(st.out, SubSeq(s, a, b - 1)), v)
  BY <1>5, <1>7, <1>9, <1>17, <1>18 DEF Part, Joined
<1>20. x \in Sites(P) /\ x.pointer = pointer /\ x.type = ty
  BY <1>4, <1>6, <1>18 DEF Sites, Defined
<1>21. st.sites \in Seq(Sites(P))
  BY DEF Passing
<1>22. /\ to.sites \in Seq(Sites(P))
       /\ \A p, t : Has(to.sites, p, t) <=> Has(st.sites, p, t) \/ (pointer = p /\ ty = t)
  BY <1>19, <1>20, <1>21, AppendHas
<1>23. to.out = told[e] /\ st.out = told[a - 1]
  <2>1. st.out = told[a - 1]
    BY <1>9 DEF Passing
  <2> QED  BY <1>13, <1>15, <1>16, <1>19, <2>1
<1>24. /\ \A p, t : Has(st0.sites, p, t) => Has(to.sites, p, t)
       /\ \A p, t : Has(to.sites, p, t) => Has(st0.sites, p, t) \/ (p = pointer /\ HitType(hits, n + 1, t))
  <2>1. \A t : HitType(hits, n, t) => HitType(hits, n + 1, t)
    BY DEF HitType
  <2>2. HitType(hits, n + 1, ty)
    <3>1. n + 1 \in 1..n + 1
      OBVIOUS
    <3> QED  BY <1>2, <1>5, <3>1 DEF HitType
  <2>3. /\ \A p, t : Has(st0.sites, p, t) => Has(st.sites, p, t)
        /\ \A p, t : Has(st.sites, p, t) => Has(st0.sites, p, t) \/ (p = pointer /\ HitType(hits, n, t))
    BY DEF Passing
  <2> QED  BY <1>22, <2>1, <2>2, <2>3
<1>25. to.last \in 1..Len(s) + 1 /\ to.last - 1 = e
  BY <1>1, <1>8, <1>19
<1>26. ASSUME NEW m \in 1..n + 1, Stands(hits[m]) PROVE hits[m].end < to.last
  <2>1. CASE m = n + 1
    BY <1>1, <1>2, <1>7, <1>8, <1>19, <2>1
  <2>2. CASE m \in 1..n
    <3>1. hits[m].end < a
      BY <1>10, <1>26, <2>2
    <3>2. m \in 1..Len(hits)
      BY <1>1, <2>2
    <3>3. Matched(s, FoundAt(hits[m]), hits[m]) /\ FoundAt(hits[m]) \in 1..Len(s)
      BY <1>1, <3>2, HitIs
    <3>4. PICK y : y = hits[m].end
      OBVIOUS
    <3>5. y \in Nat
      BY <1>1, <3>3, <3>4, MatchSpan
    <3>6. y < e + 1
      BY <1>1, <1>8, <1>10, <1>11, <3>1, <3>4, <3>5
    <3> QED  BY <1>19, <3>4, <3>6
  <2>3. m = n + 1 \/ m \in 1..n
    BY <1>1
  <2> QED  BY <2>1, <2>2, <2>3
<1>27. \E m \in 1..n + 1 : to.last = hits[m].end + 1
  <2>1. n + 1 \in 1..n + 1
    OBVIOUS
  <2> QED  BY <1>2, <1>7, <1>19, <2>1
<1>28. Contains(to.out, ",") => Contains(s, ",") \/ Has(to.sites, pointer, "string")
  <2>1. SUFFICES ASSUME Contains(to.out, ","), ~Contains(s, ",") PROVE Has(to.sites, pointer, "string")
    OBVIOUS
  <2>2. PICK lit : lit = SubSeq(s, a, b - 1)
    OBVIOUS
  <2>3. lit \in Seq(W) /\ ~Contains(lit, ",")
    <3>1. b - 1 \in 0..Len(s)
      BY <1>1, <1>8
    <3> QED  BY <1>1, <1>10, <2>1, <2>2, <3>1, PartContains
  <2>4. st.out \in Seq(W)
    <3>1. a - 1 \in 0..Len(s)
      BY <1>1, <1>10
    <3> QED  BY <1>23, <3>1
  <2>5. Joined(st.out, lit) \in Seq(W)
    BY <2>3, <2>4, JoinedIs
  <2>6. Contains(Joined(st.out, lit), ",") \/ Contains(v, ",")
    <3>1. Contains(Joined(Joined(st.out, lit), v), ",")
      BY <1>19, <2>1, <2>2
    <3> QED  BY <1>6, <2>5, <3>1, JoinedContains
  <2>7. Contains(st.out, ",") \/ Contains(v, ",")
    BY <2>3, <2>4, <2>6, JoinedContains
  <2>8. CASE Contains(st.out, ",")
    <3>1. Has(st.sites, pointer, "string")
      BY <2>1, <2>8 DEF Passing
    <3> QED  BY <1>22, <3>1
  <2>9. CASE Contains(v, ",")
    <3>1. ty = "string"
      <4>1. ty \notin {"path", "host", "port", "profile_id"}
        BY <1>4, <1>5, <1>6, <2>9, ValueHasNoComma
      <4> QED  BY <1>6, <4>1 DEF VarType
    <3> QED  BY <1>22, <3>1
  <2> QED  BY <2>7, <2>8, <2>9
<1>29. to.texts = st0.texts
  BY <1>19 DEF Passing
<1> QED  BY <1>22, <1>23, <1>24, <1>25, <1>26, <1>27, <1>28, <1>29 DEF Passing

LEMMA AllPass ==
  ASSUME clock \in Nat, DocType, NEW W, Worded(W), NEW s, Wording(W, s), NEW hits, Found(s, 1, hits),
         NEW told, Told(s, told), \A i \in 0..Len(s) : told[i] \in Seq(W),
         NEW P, NEW pointer \in P, NEW st, Balanced(st), st.error = "none", st.sites \in Seq(Sites(P)),
         NEW take, TakeRun(st, s, pointer, hits, Len(hits), take), take[Len(hits)].error = "none"
  PROVE  Passing(W, P, st, take[Len(hits)], s, pointer, hits, told, Len(hits))
<1>1. s \in Seq(W) /\ Len(s) \in Nat /\ Len(hits) \in Nat
  BY LenProperties DEF Wording, Found
<1>2. \A k \in 0..Len(hits) : take[k] = IF k = 0 THEN [st EXCEPT !.out = <<>>, !.last = 1]
                                        ELSE IF Stands(hits[k]) THEN TakeHit(take[k - 1], s, pointer, hits[k])
                                        ELSE take[k - 1]
  BY DEF TakeRun
<1>3. \A n \in 0..Len(hits) : DOMAIN take[n] = Part
  <2>1. \A n \in 0..Len(hits) : Sound(take[n], hits, n)
    BY <1>1, TakeSound
  <2> QED  BY <2>1 DEF Sound, Balanced
<1> DEFINE T == {n \in 0..Len(hits) : take[n].error = "none" => Passing(W, P, st, take[n], s, pointer, hits, told, n)}
<1>4. 0 \in T
  <2>1. take[0] = [st EXCEPT !.out = <<>>, !.last = 1]
    BY <1>1, <1>2
  <2>2. take[0].texts = st.texts /\ take[0].sites = st.sites /\ take[0].last = 1 /\ take[0].out = <<>>
    BY <2>1 DEF Balanced, Part
  <2>3. <<>> = told[0] /\ ~Contains(<<>>, ",") /\ 1 \in 1..Len(s) + 1 /\ 1 - 1 = 0
    BY <1>1 DEF Told, Contains
  <2>4. PICK at : at = take[0]
    OBVIOUS
  <2>5. at.texts = st.texts /\ at.sites = st.sites /\ at.last = 1 /\ at.last - 1 = 0 /\ at.out = told[0]
        /\ ~Contains(at.out, ",")
    BY <2>2, <2>3, <2>4
  <2>6. \A m \in 1..0 : FALSE
    OBVIOUS
  <2>7. Passing(W, P, st, at, s, pointer, hits, told, 0)
    BY <2>3, <2>5, <2>6 DEF Passing
  <2> QED  BY <1>1, <2>4, <2>7
<1>5. ASSUME NEW n \in 0..Len(hits), n + 1 \in 0..Len(hits), n \in T PROVE n + 1 \in T
  <2>1. n + 1 \in 1..Len(hits) /\ (n + 1) - 1 = n /\ n + 1 # 0
    BY <1>1, <1>5
  <2>2. CASE Stands(hits[n + 1])
    <3>1. take[n + 1] = TakeHit(take[n], s, pointer, hits[n + 1])
      BY <1>2, <1>5, <2>1, <2>2
    <3>2. ASSUME take[n + 1].error = "none" PROVE Passing(W, P, st, take[n + 1], s, pointer, hits, told, n + 1)
      <4>1. DOMAIN take[n] = Part
        BY <1>3
      <4>2. take[n].error = "none"
        BY <3>1, <3>2, <4>1, HitNoError
      <4>3. Passing(W, P, st, take[n], s, pointer, hits, told, n)
        BY <1>5, <4>2
      <4> HIDE DEF T
      <4> QED  BY <2>1, <2>2, <3>1, <3>2, <4>1, <4>3, HitPasses
    <3> QED  BY <1>5, <3>2
  <2>3. CASE ~Stands(hits[n + 1])
    <3>1. take[n + 1] = take[n]
      BY <1>2, <1>5, <2>1, <2>3
    <3>2. ASSUME Passing(W, P, st, take[n], s, pointer, hits, told, n)
          PROVE  Passing(W, P, st, take[n], s, pointer, hits, told, n + 1)
      <4>1. \A m \in 1..n + 1 : m \in 1..n \/ m = n + 1
        OBVIOUS
      <4>2. \A t : HitType(hits, n, t) => HitType(hits, n + 1, t)
        BY DEF HitType
      <4>3. \A m \in 1..n : m \in 1..n + 1
        OBVIOUS
      <4> QED  BY <2>3, <3>2, <4>1, <4>2, <4>3 DEF Passing
    <3> QED  BY <1>5, <3>1, <3>2
  <2> QED  BY <2>2, <2>3
<1>6. T = 0..Len(hits)
  <2>1. T \in SUBSET (0..Len(hits))
    OBVIOUS
  <2> HIDE DEF T
  <2> QED  BY <1>1, <1>4, <1>5, <2>1, HandedOn
<1>7. Len(hits) \in T
  <2> HIDE DEF T
  <2> QED  BY <1>1, <1>6
<1> QED  BY <1>7

(* A text whose references were all taken is what it means; its path is      *)
(* canonical when a path variable is part of it, and a comma in it was       *)
(* written or is of a variable of type string.                               *)
Refers(s, t) == HitType(find_all(s), Len(find_all(s)), t)
TextIs(W, P, st, to, s, pointer) ==
  /\ to.out = Meant(s) /\ to.out \in Seq(W)
  /\ to.texts = st.texts /\ to.sites \in Seq(Sites(P))
  /\ \A p, t : Has(st.sites, p, t) => Has(to.sites, p, t)
  /\ \A p, t : Has(to.sites, p, t) => Has(st.sites, p, t) \/ (p = pointer /\ Refers(s, t))
  /\ Contains(to.out, ",") => Contains(s, ",") \/ Has(to.sites, pointer, "string")
  /\ is_path_field(pointer) /\ Refers(s, "path") /\ to.out[1] # "s3:" => final_path_is_canonical(to.out)

LEMMA TextSays ==
  ASSUME clock \in Nat, DocType, NEW W, Worded(W), NEW s \in Seq(W), NEW P, NEW pointer \in P,
         NEW st, Balanced(st), st.sites \in Seq(Sites(P)),
         NEW to, to = substitute(st, s, pointer), to.error = "none"
  PROVE  st.error = "none" /\ TextIs(W, P, st, to, s, pointer)
<1>1. PICK hits : hits = find_all(s)
  OBVIOUS
<1>2. Found(s, 1, hits) /\ Len(hits) \in Nat /\ Len(s) \in Nat /\ DOMAIN hits = 1..Len(hits)
  <2>1. Found(s, 1, hits)
    BY <1>1, FindAllFinds
  <2> QED  BY <2>1, LenProperties DEF Found
<1>3. PICK take :
        /\ TakeRun(st, s, pointer, hits, Len(hits), take)
        /\ to = IF st.error # "none" THEN st
                ELSE IF pointer \in BoundedPointer /\ \E i \in DOMAIN hits : ~hits[i].escaped /\ hits[i].ns # "lvr:"
                THEN [st EXCEPT !.error = "cfg_ref_not_resolvable_by_broker"]
                ELSE PathJudged(Rest(take[Len(hits)], s), pointer, hits)
  BY <1>1, SubstituteIs
<1>4. st.error = "none"
  BY <1>3
<1>5. PICK at : at = take[Len(hits)]
  OBVIOUS
<1>6. to = PathJudged(Rest(at, s), pointer, hits)
  <2>1. [st EXCEPT !.error = "cfg_ref_not_resolvable_by_broker"].error = "cfg_ref_not_resolvable_by_broker"
    BY DEF Balanced, Part
  <2> QED  BY <1>3, <1>4, <1>5, <2>1
<1>7. PICK done : done = Rest(at, s)
  OBVIOUS
<1>8. Sound(at, hits, Len(hits))
  <2>1. Len(hits) \in 0..Len(hits)
    BY <1>2
  <2> QED  BY <1>2, <1>3, <1>4, <1>5, <2>1, TakeSound
<1>9. DOMAIN at = Part
  BY <1>8 DEF Sound, Balanced
<1>10. /\ done.error = at.error /\ done.sites = at.sites /\ done.texts = at.texts
       /\ done.out = Joined(at.out, SubSeq(s, at.last, Len(s)))
       /\ to = done \/ to.error = "lvr_path_not_canonical"
       /\ to = done => ~Elsewhere(done, pointer, hits)
  <2>1. to = PathJudged(done, pointer, hits)
    BY <1>6, <1>7
  <2> QED  BY <1>7, <1>9, <2>1, JudgedLast
<1>11. to = done /\ at.error = "none"
  BY <1>10
<1>12. AllDefined(hits)
  BY <1>8, <1>11 DEF Sound, AllDefined
<1>13. Wording(W, s)
  BY <1>2, <1>12, TextsDefined
<1>14. PICK told : Told(s, told) /\ Meant(s) = told[Len(s)] /\ \A i \in 0..Len(s) : told[i] \in Seq(W)
  BY <1>13, ToldRuns
<1>15. Passing(W, P, st, at, s, pointer, hits, told, Len(hits))
  BY <1>2, <1>3, <1>4, <1>5, <1>11, <1>13, <1>14, AllPass
<1>16. PICK a : a = at.last
  OBVIOUS
<1>17. a \in 1..Len(s) + 1 /\ \A m \in 1..Len(hits) : Stands(hits[m]) => hits[m].end < a
  BY <1>15, <1>16 DEF Passing
<1>18. Literal(s, a, Len(s))
  <2>1. Len(hits) \in 0..Len(hits) /\ Len(s) \in a - 1..Len(s)
        /\ \A m \in Len(hits) + 1..Len(hits) : Stands(hits[m]) => Len(s) < hits[m].start
    BY <1>2, <1>17
  <2> QED  BY <1>2, <1>17, <2>1, LiteralUpTo
<1>19. told[Len(s)] = Joined(told[a - 1], SubSeq(s, a, Len(s)))
  <2>1. Len(s) \in a - 1..Len(s)
    BY <1>2, <1>17
  <2>2. Told(s, told) /\ \A i \in 0..Len(s) : told[i] \in Seq(W)
    BY <1>14
  <2>3. a \in 1..Len(s) + 1
    BY <1>17
  <2> QED  BY <1>13, <1>18, <2>1, <2>2, <2>3, ToldLiterally
<1>20. at.out = told[a - 1]
  BY <1>15, <1>16 DEF Passing
<1>21. done.out = Joined(at.out, SubSeq(s, a, Len(s)))
  BY <1>10, <1>16
<1>22. done.out = Meant(s) /\ done.out \in Seq(W)
  <2>1. Len(s) \in 0..Len(s)
    BY <1>2
  <2> QED  BY <1>14, <1>19, <1>20, <1>21, <2>1
<1>23. Contains(done.out, ",") => Contains(s, ",") \/ Has(done.sites, pointer, "string")
  <2>1. at.out \in Seq(W)
    <3>1. a - 1 \in 0..Len(s)
      BY <1>2, <1>17
    <3> QED  BY <1>14, <1>20, <3>1
  <2>2. PICK lit : lit = SubSeq(s, a, Len(s))
    OBVIOUS
  <2>3. lit \in Seq(W) /\ (Contains(lit, ",") => Contains(s, ","))
    <3>1. Len(s) \in 0..Len(s)
      BY <1>2
    <3> QED  BY <1>17, <2>2, <3>1, PartContains
  <2>4. Contains(done.out, ",") => Contains(at.out, ",") \/ Contains(lit, ",")
    BY <1>21, <2>1, <2>2, <2>3, JoinedContains
  <2>5. Contains(at.out, ",") => Contains(s, ",") \/ Has(at.sites, pointer, "string")
    BY <1>15 DEF Passing
  <2> QED  BY <1>10, <2>3, <2>4, <2>5
<1>24. ASSUME is_path_field(pointer), Refers(s, "path"), done.out[1] # "s3:" PROVE final_path_is_canonical(done.out)
  <2>1. HitType(hits, Len(hits), "path")
    BY <1>1, <1>24 DEF Refers
  <2>2. \E i \in DOMAIN hits : Stands(hits[i]) /\ doc[hits[i].key].type = "path"
    BY <1>2, <2>1 DEF HitType
  <2> QED  BY <1>10, <1>11, <1>24, <2>2 DEF Elsewhere
<1>25. /\ done.texts = st.texts /\ done.sites \in Seq(Sites(P))
       /\ \A p, t : Has(st.sites, p, t) => Has(done.sites, p, t)
       /\ \A p, t : Has(done.sites, p, t) => Has(st.sites, p, t) \/ (p = pointer /\ HitType(hits, Len(hits), t))
  BY <1>10, <1>15 DEF Passing
<1>26. \A t : HitType(hits, Len(hits), t) <=> Refers(s, t)
  BY <1>1 DEF Refers
<1>27. TextIs(W, P, st, done, s, pointer)
  BY <1>22, <1>23, <1>24, <1>25, <1>26 DEF TextIs
<1> QED  BY <1>4, <1>11, <1>27

(* One field after the other.                                                *)
NothingTaken == [bucket |-> bucket, error |-> "none", sites |-> <<>>,
          given |-> [k \in VarKey |-> 0], out |-> <<>>, last |-> 1, texts |-> <<>>]
Put(st) == [st EXCEPT !.texts = Append(@, st.out)]
WalkRun(fields, n, walk) ==
  walk = [k \in 0..n |-> IF k = 0 THEN NothingTaken ELSE Put(substitute(walk[k - 1], fields[k].text, fields[k].pointer))]

LEMMA WalkRuns ==
  ASSUME NEW fields, Len(fields) \in Nat
  PROVE  \E walk : WalkRun(fields, Len(fields), walk) /\ prepare(fields) = walk[Len(fields)]
<1> DEFINE T == {n \in 0..Len(fields) : \E walk : WalkRun(fields, n, walk)}
<1>1. 0 \in T
  <2>1. WalkRun(fields, 0, [i \in 0..0 |-> NothingTaken])
    BY DEF WalkRun
  <2> QED  BY <2>1
<1>2. ASSUME NEW i \in 0..Len(fields), i + 1 \in 0..Len(fields), i \in T PROVE i + 1 \in T
  <2>1. PICK walk : WalkRun(fields, i, walk)
    BY <1>2
  <2> DEFINE next == [k \in 0..(i + 1) |->
                       IF k = i + 1 THEN Put(substitute(walk[i], fields[k].text, fields[k].pointer)) ELSE walk[k]]
  <2>2. WalkRun(fields, i + 1, next)
    <3>1. \A k \in 0..i : walk[k] = IF k = 0 THEN NothingTaken
                                    ELSE Put(substitute(walk[k - 1], fields[k].text, fields[k].pointer))
      BY <2>1 DEF WalkRun
    <3>2. ASSUME NEW k \in 0..(i + 1)
          PROVE  next[k] = IF k = 0 THEN NothingTaken ELSE Put(substitute(next[k - 1], fields[k].text, fields[k].pointer))
      BY <3>1
    <3> QED  BY <3>2 DEF WalkRun
  <2> QED  BY <1>2, <2>2
<1> HIDE DEF T
<1>3. T = 0..Len(fields)
  <2>1. T \in SUBSET (0..Len(fields))
    BY DEF T
  <2> QED  BY <1>1, <1>2, <2>1, HandedOn
<1>4. \E walk : WalkRun(fields, Len(fields), walk)
  BY <1>3 DEF T
<1> QED  BY <1>4 DEF prepare, WalkRun, NothingTaken, Put

Pointers(fields) == {fields[i].pointer : i \in DOMAIN fields}
FieldIs(f, text, sites) ==
  /\ text = Meant(f.text)
  /\ Contains(text, ",") => Contains(f.text, ",") \/ Has(sites, f.pointer, "string")
  /\ is_path_field(f.pointer) /\ Refers(f.text, "path") /\ text[1] # "s3:" => final_path_is_canonical(text)
Walked(W, fields, st, n) ==
  /\ st.texts \in Seq(Seq(W)) /\ Len(st.texts) = n
  /\ st.sites \in Seq(Sites(Pointers(fields)))
  /\ \A i \in 1..n : FieldIs(fields[i], st.texts[i], st.sites)
  /\ \A p, t : Has(st.sites, p, t) => \E i \in 1..n : fields[i].pointer = p /\ Refers(fields[i].text, t)
Calls(W, fields) ==
  /\ Len(fields) \in Nat \ {0} /\ DOMAIN fields = 1..Len(fields)
  /\ \A i \in 1..Len(fields) : fields[i].text \in Seq(W)

LEMMA PutIs ==
  ASSUME NEW st, DOMAIN st = Part
  PROVE  LET to == Put(st)
         IN  /\ DOMAIN to = Part /\ to.bucket = st.bucket /\ to.given = st.given
             /\ to.error = st.error /\ to.sites = st.sites /\ to.texts = Append(st.texts, st.out)
BY DEF Put, Part

LEMMA WalkMore ==
  ASSUME NEW W, NEW fields, Calls(W, fields), NEW n \in 0..Len(fields), NEW st, Walked(W, fields, st, n),
         NEW m \in 1..Len(fields), m = n + 1,
         NEW sub, TextIs(W, Pointers(fields), st, sub, fields[m].text, fields[m].pointer),
         NEW to, to.texts = Append(sub.texts, sub.out), to.sites = sub.sites
  PROVE  Walked(W, fields, to, m)
<1>1. /\ sub.out = Meant(fields[m].text) /\ sub.out \in Seq(W)
      /\ sub.texts = st.texts /\ sub.sites \in Seq(Sites(Pointers(fields)))
      /\ \A p, t : Has(st.sites, p, t) => Has(sub.sites, p, t)
      /\ \A p, t : Has(sub.sites, p, t) => Has(st.sites, p, t) \/ (p = fields[m].pointer /\ Refers(fields[m].text, t))
      /\ Contains(sub.out, ",") => Contains(fields[m].text, ",") \/ Has(sub.sites, fields[m].pointer, "string")
      /\ is_path_field(fields[m].pointer) /\ Refers(fields[m].text, "path") /\ sub.out[1] # "s3:"
           => final_path_is_canonical(sub.out)
  BY DEF TextIs
<1>2. st.texts \in Seq(Seq(W)) /\ Len(st.texts) = n
  BY DEF Walked
<1>3. /\ to.texts \in Seq(Seq(W)) /\ Len(to.texts) = m /\ to.texts[m] = sub.out
      /\ \A i \in 1..n : to.texts[i] = st.texts[i]
  <2>1. PICK more : more = Append(st.texts, sub.out)
    OBVIOUS
  <2>2. /\ more \in Seq(Seq(W)) /\ Len(more) = Len(st.texts) + 1 /\ more[Len(st.texts) + 1] = sub.out
        /\ \A i \in 1..Len(st.texts) : more[i] = st.texts[i]
    <3>1. PICK S, was, out : S = Seq(W) /\ was = st.texts /\ out = sub.out
      OBVIOUS
    <3>2. was \in Seq(S) /\ out \in S /\ more = Append(was, out)
      BY <1>1, <1>2, <2>1, <3>1
    <3>3. /\ more \in Seq(S) /\ Len(more) = Len(was) + 1 /\ more[Len(was) + 1] = out
          /\ \A i \in 1..Len(was) : more[i] = was[i]
      BY <3>2, AppendProperties
    <3> QED  BY <3>1, <3>3
  <2>3. to.texts = more
    BY <1>1, <2>1
  <2>4. Len(more) = m /\ more[m] = sub.out /\ \A i \in 1..n : more[i] = st.texts[i]
    BY <1>2, <2>2
  <2> QED  BY <2>2, <2>3, <2>4
<1>4. ASSUME NEW i \in 1..m PROVE FieldIs(fields[i], to.texts[i], to.sites)
  <2>1. CASE i = m
    BY <1>1, <1>3, <2>1 DEF FieldIs
  <2>2. CASE i \in 1..n
    <3>1. FieldIs(fields[i], st.texts[i], st.sites)
      BY <2>2 DEF Walked
    <3> QED  BY <1>1, <1>3, <2>2, <3>1 DEF FieldIs
  <2>3. i = m \/ i \in 1..n
    BY DEF Calls
  <2> QED  BY <2>1, <2>2, <2>3
<1>5. ASSUME NEW p, NEW t, Has(to.sites, p, t) PROVE \E i \in 1..m : fields[i].pointer = p /\ Refers(fields[i].text, t)
  <2>1. Has(st.sites, p, t) \/ (p = fields[m].pointer /\ Refers(fields[m].text, t))
    BY <1>1, <1>5
  <2>2. CASE Has(st.sites, p, t)
    <3>1. PICK i \in 1..n : fields[i].pointer = p /\ Refers(fields[i].text, t)
      BY <2>2 DEF Walked
    <3>2. i \in 1..m
      BY DEF Calls
    <3> QED  BY <3>1, <3>2
  <2>3. CASE p = fields[m].pointer /\ Refers(fields[m].text, t)
    <3>1. m \in 1..m
      BY DEF Calls
    <3> QED  BY <2>3, <3>1
  <2> QED  BY <2>1, <2>2, <2>3
<1> QED  BY <1>1, <1>3, <1>4, <1>5 DEF Walked

LEMMA PrepareSays ==
  ASSUME clock \in Nat, DocType, BucketType(bucket), NEW W, Worded(W), NEW fields, Calls(W, fields)
  PROVE  /\ Balanced(prepare(fields))
         /\ prepare(fields).error = "none" => Walked(W, fields, prepare(fields), Len(fields))
<1>1. Len(fields) \in Nat \ {0} /\ DOMAIN fields = 1..Len(fields) /\ \A i \in 1..Len(fields) : fields[i].text \in Seq(W)
  BY DEF Calls
<1>2. PICK walk : WalkRun(fields, Len(fields), walk) /\ prepare(fields) = walk[Len(fields)]
  BY <1>1, WalkRuns
<1>3. \A k \in 0..Len(fields) : walk[k] = IF k = 0 THEN NothingTaken
                                          ELSE Put(substitute(walk[k - 1], fields[k].text, fields[k].pointer))
  BY <1>2 DEF WalkRun
<1> DEFINE Ok(n) == Balanced(walk[n]) /\ (walk[n].error = "none" => Walked(W, fields, walk[n], n))
<1> DEFINE T == {n \in 0..Len(fields) : Ok(n)}
<1>4. 0 \in T
  <2>1. PICK st : st = walk[0]
    OBVIOUS
  <2>2. st = NothingTaken
    BY <1>1, <1>3, <2>1
  <2>3. /\ DOMAIN st = Part /\ st.bucket = bucket /\ st.given = [k \in VarKey |-> 0]
        /\ st.error = "none" /\ st.texts = <<>> /\ st.sites = <<>>
    BY <2>2 DEF NothingTaken, Part
  <2>4. Balanced(st)
    <3>1. ASSUME NEW k \in VarKey
          PROVE  st.given[k] \in Nat /\ Tokens(st.bucket, k) + REFILL * st.given[k] = Tokens(bucket, k)
      <4>1. st.given[k] = 0 /\ REFILL * 0 = 0 /\ Tokens(bucket, k) \in Nat
        BY <2>3, FullIs, TokensIs
      <4>2. Tokens(bucket, k) + 0 = Tokens(bucket, k)
        BY <4>1
      <4> QED  BY <2>3, <4>1, <4>2
    <3> QED  BY <2>3, <3>1 DEF Balanced
  <2>5. Walked(W, fields, st, 0)
    <3>1. st.texts \in Seq(Seq(W)) /\ Len(st.texts) = 0 /\ st.sites \in Seq(Sites(Pointers(fields))) /\ Len(st.sites) = 0
      BY <2>3, EmptySeq
    <3>2. \A p, t : ~Has(st.sites, p, t)
      BY <3>1 DEF Has
    <3> QED  BY <3>1, <3>2 DEF Walked
  <2> QED  BY <1>1, <2>1, <2>4, <2>5
<1>5. ASSUME NEW n \in 0..Len(fields), n + 1 \in 0..Len(fields), n \in T PROVE n + 1 \in T
  <2>1. PICK m : m = n + 1
    OBVIOUS
  <2>2. m \in 1..Len(fields) /\ m - 1 = n /\ m # 0 /\ m \in 0..Len(fields)
    BY <1>1, <1>5, <2>1
  <2>3. PICK st, sub, to : st = walk[n] /\ sub = substitute(st, fields[m].text, fields[m].pointer) /\ to = Put(sub)
    OBVIOUS
  <2>4. to = walk[m]
    BY <1>3, <2>2, <2>3
  <2>5. fields[m].text \in Seq(W) /\ fields[m].pointer \in Pointers(fields)
    BY <1>1, <2>2 DEF Pointers
  <2>6. Balanced(st) /\ (st.error = "none" => Walked(W, fields, st, n))
    BY <1>5, <2>3
  <2>7. Balanced(sub)
    BY <2>3, <2>5, <2>6, TextBalanced
  <2>8. /\ DOMAIN to = Part /\ to.bucket = sub.bucket /\ to.given = sub.given
        /\ to.error = sub.error /\ to.sites = sub.sites /\ to.texts = Append(sub.texts, sub.out)
    BY <2>3, <2>7, PutIs DEF Balanced
  <2>9. Balanced(to)
    BY <2>7, <2>8, BalancedElse
  <2>10. ASSUME to.error = "none" PROVE Walked(W, fields, to, m)
    <3>1. sub.error = "none"
      BY <2>8, <2>10
    <3>2. st.error = "none"
      <4>1. CASE st.error # "none"
        BY <2>3, <3>1, <4>1 DEF substitute
      <4> QED  BY <4>1
    <3>3. Walked(W, fields, st, n)
      BY <2>6, <3>2
    <3>4. st.sites \in Seq(Sites(Pointers(fields)))
      BY <3>3 DEF Walked
    <3>5. TextIs(W, Pointers(fields), st, sub, fields[m].text, fields[m].pointer)
      BY <2>3, <2>5, <2>6, <3>1, <3>4, TextSays
    <3> QED  BY <1>5, <2>1, <2>2, <2>8, <3>3, <3>5, WalkMore
  <2>11. Ok(m)
    BY <2>4, <2>9, <2>10
  <2> QED  BY <2>1, <2>2, <2>11
<1>6. T = 0..Len(fields)
  <2>1. T \in SUBSET (0..Len(fields))
    OBVIOUS
  <2> HIDE DEF T
  <2> QED  BY <1>1, <1>4, <1>5, <2>1, HandedOn
<1>7. Len(fields) \in T
  <2> HIDE DEF T
  <2> QED  BY <1>1, <1>6
<1> QED  BY <1>2, <1>7

(* A path that is judged canonical is spelled as the place it is.            *)
LEMMA GreatestOf ==
  ASSUME NEW n \in Nat, NEW S \in SUBSET (0..n), S # {}
  PROVE  Max(S) \in S /\ \A j \in S : j <= Max(S)
<1> DEFINE U == {n - j : j \in S}
<1>1. U \in SUBSET Nat /\ U # {}
  <2>1. ASSUME NEW j \in S PROVE n - j \in Nat
    <3>1. j \in 0..n
      OBVIOUS
    <3> QED  BY <3>1
  <2>2. \E j \in S : TRUE
    OBVIOUS
  <2> QED  BY <2>1, <2>2
<1>2. Min(U) \in U /\ \A j \in U : Min(U) <= j
  <2> HIDE DEF U
  <2> QED  BY <1>1, LeastOf
<1>3. PICK x \in S : Min(U) = n - x
  BY <1>2
<1>4. \A j \in S : x >= j
  <2>1. ASSUME NEW j \in S PROVE x >= j
    <3>1. n - j \in U
      OBVIOUS
    <3>2. n - x <= n - j
      BY <1>2, <1>3, <3>1
    <3> QED  BY <3>2
  <2> QED  BY <2>1
<1>5. \E z \in S : \A j \in S : z >= j
  BY <1>4
<1>6. Max(S) \in S /\ \A j \in S : Max(S) >= j
  BY <1>5 DEF Max
<1> QED  BY <1>6

LEMMA AncestorOf ==
  ASSUME NEW V, NEW p \in Seq(V), NEW m \in 1..Len(p), NEW n \in 1..m
  PROVE  Len(SubSeq(p, 1, m)) = m /\ SubSeq(SubSeq(p, 1, m), 1, n) = SubSeq(p, 1, n)
<1>1. Len(p) \in Nat /\ \A i \in 1..Len(p) : p[i] \in V
  BY LenProperties, ElementOfSeq
<1>2. PICK q : q = SubSeq(p, 1, m)
  OBVIOUS
<1>3. q \in Seq(V) /\ Len(q) = m /\ \A i \in 1..m : q[i] = p[i]
  <2>1. \A i \in 1..m : p[i] \in V
    BY <1>1
  <2>2. /\ q \in Seq(V) /\ Len(q) = IF 1 <= m THEN m - 1 + 1 ELSE 0
        /\ \A i \in 1..m - 1 + 1 : q[i] = p[1 + i - 1]
    BY <1>1, <1>2, <2>1, SubSeqProperties
  <2> QED  BY <1>1, <2>2
<1>4. PICK u, v : u = SubSeq(q, 1, n) /\ v = SubSeq(p, 1, n)
  OBVIOUS
<1>5. u \in Seq(V) /\ Len(u) = n /\ \A i \in 1..n : u[i] = q[i]
  <2>1. \A i \in 1..n : q[i] \in V
    BY <1>1, <1>3
  <2>2. /\ u \in Seq(V) /\ Len(u) = IF 1 <= n THEN n - 1 + 1 ELSE 0
        /\ \A i \in 1..n - 1 + 1 : u[i] = q[1 + i - 1]
    BY <1>1, <1>4, <2>1, SubSeqProperties
  <2> QED  BY <1>1, <2>2
<1>6. v \in Seq(V) /\ Len(v) = n /\ \A i \in 1..n : v[i] = p[i]
  <2>1. \A i \in 1..n : p[i] \in V
    BY <1>1
  <2>2. /\ v \in Seq(V) /\ Len(v) = IF 1 <= n THEN n - 1 + 1 ELSE 0
        /\ \A i \in 1..n - 1 + 1 : v[i] = p[1 + i - 1]
    BY <1>1, <1>4, <2>1, SubSeqProperties
  <2> QED  BY <1>1, <2>2
<1>7. u = v
  <2>1. \A i \in 1..Len(u) : u[i] = v[i]
    BY <1>1, <1>3, <1>5, <1>6
  <2> QED  BY <1>5, <1>6, <2>1, SeqEqual
<1> QED  BY <1>2, <1>3, <1>4, <1>7

LEMMA CanonicalIs ==
  ASSUME tree \in Trees, NEW W, NEW s \in Seq(W), final_path_is_canonical(s)
  PROVE  /\ ~Contains(components(s), <<"..">>)
         /\ \A n \in Linked(components(s)) : ~Exists(Ancestor(components(s), n))
<1>1. PICK p : p = components(s)
  OBVIOUS
<1>2. p \in Seq(Seq(W)) /\ Len(p) \in Nat
  <2>1. p \in Seq(Seq(W))
    BY <1>1, ComponentsAre
  <2> QED  BY <2>1, LenProperties
<1>3. PICK there : there = {n \in 0..Len(p) : Exists(Ancestor(p, n))}
  OBVIOUS
<1>4. ~Contains(p, <<"..">>) /\ there # {} /\ Leads(Ancestor(p, Max(there))) = Ancestor(p, Max(there))
  BY <1>1, <1>3 DEF final_path_is_canonical
<1>5. PICK m : m = Max(there)
  OBVIOUS
<1>6. m \in 0..Len(p) /\ Exists(Ancestor(p, m)) /\ \A j \in there : j <= m
  <2>1. there \in SUBSET (0..Len(p))
    BY <1>3
  <2>2. m \in there /\ \A j \in there : j <= m
    BY <1>2, <1>4, <1>5, <2>1, GreatestOf
  <2> QED  BY <1>3, <2>2
<1>7. Ancestor(p, m) \in tree.dirs
  <2>1. Leads(Ancestor(p, m)) = Ancestor(p, m)
    BY <1>4, <1>5
  <2> QED  BY <1>6, <2>1 DEF Exists
<1>8. ASSUME NEW n \in Linked(p), Exists(Ancestor(p, n)) PROVE FALSE
  <2>1. n \in 1..Len(p) /\ SubSeq(p, 1, n) \in DOMAIN tree.links
    BY <1>8 DEF Linked, Ancestor
  <2>2. n \in there
    BY <1>2, <1>3, <1>8, <2>1
  <2>3. m \in 1..Len(p) /\ n \in 1..m
    BY <1>2, <1>6, <2>1, <2>2
  <2>4. Len(SubSeq(p, 1, m)) = m /\ SubSeq(SubSeq(p, 1, m), 1, n) = SubSeq(p, 1, n)
    BY <1>2, <2>3, AncestorOf
  <2>5. PICK q : q = SubSeq(p, 1, m)
    OBVIOUS
  <2>6. q \in tree.dirs /\ n \in 1..Len(q) /\ SubSeq(q, 1, n) \in DOMAIN tree.links
    BY <1>7, <2>1, <2>3, <2>4, <2>5 DEF Ancestor
  <2>7. \A d \in tree.dirs : \A i \in 1..Len(d) : SubSeq(d, 1, i) \notin DOMAIN tree.links
    BY SubstitutionConstants
  <2> QED  BY <2>6, <2>7
<1> QED  BY <1>1, <1>4, <1>8

(* What is handed out of one variable f while its bucket holds x at time t:  *)
(* not more than a full bucket and what it gained, and since the bucket was  *)
(* full not less than what it is short of.                                   *)
Owed(from, t) == IF from = 0 \/ t - from >= Full THEN Full ELSE t - from
WithinRate(f, t) == \A from \in 0..t : \A to \in from..t : REFILL * InAll(f, from, to) <= Full + (to - from)
Steady(f, x, t) ==
  /\ t \in 0..MaxClock /\ x \in 0..Full
  /\ DOMAIN f = 0..MaxClock /\ (\A u \in 0..MaxClock : f[u] \in Nat) /\ (\A u \in t + 1..MaxClock : f[u] = 0)
  /\ \A from \in 0..t : /\ x + REFILL * InAll(f, from, t) <= Full + (t - from)
                        /\ Owed(from, t) <= x + REFILL * InAll(f, from, t)
  /\ WithinRate(f, t)

LEMMA InAllIs ==
  ASSUME NEW f, NEW t, NEW x, Steady(f, x, t), NEW from \in 0..t, NEW to \in Int, from - 1 <= to, to <= MaxClock
  PROVE  /\ InAll(f, from, to) \in Nat /\ REFILL * InAll(f, from, to) \in Nat
         /\ from <= to => InAll(f, from, to) = InAll(f, from, to - 1) + f[to]
<1>1. MaxClock \in Nat /\ t \in 0..MaxClock /\ from \in Nat
  BY SubstitutionConstants DEF Steady
<1>2. Counts(f, to)
  BY <1>1 DEF Counts, Steady
<1>3. InAll(f, from, to) \in Nat /\ (from <= to => InAll(f, from, to) = InAll(f, from, to - 1) + f[to])
  BY <1>1, <1>2, InAllOf
<1> QED  BY <1>3, FullIs

LEMMA InAllOne ==
  ASSUME NEW f, NEW a \in Nat, Counts(f, a)
  PROVE  InAll(f, a, a) = f[a]
<1>1. InAll(f, a, a - 1) = 0
  BY InAllNone
<1>2. a \in Int /\ a - 1 <= a /\ a <= a
  OBVIOUS
<1>3. InAll(f, a, a) = InAll(f, a, a - 1) + f[a]
  BY <1>2, InAllOf
<1>4. f[a] \in Nat
  BY DEF Counts
<1> QED  BY <1>1, <1>3, <1>4

LEMMA SteadyStarts ==
  ASSUME NEW f, DOMAIN f = 0..MaxClock, \A u \in 0..MaxClock : f[u] = 0
  PROVE  Steady(f, Full, 0)
<1>1. MaxClock \in Nat /\ Full \in Nat
  BY FullIs, SubstitutionConstants
<1>2. InAll(f, 0, 0) = 0
  <2>1. Counts(f, 0) /\ f[0] = 0
    BY <1>1 DEF Counts
  <2> QED  BY <2>1, InAllOne
<1>3. REFILL * 0 = 0
  BY FullIs
<1>4. \A from \in 0..0 : \A to \in from..0 : from = 0 /\ to = 0
  OBVIOUS
<1> QED  BY <1>1, <1>2, <1>3, <1>4 DEF Steady, WithinRate, Owed

(* A tick of the clock.                                                      *)
LEMMA SteadyPasses ==
  ASSUME NEW f, NEW x, NEW t, Steady(f, x, t), NEW n, n = t + 1, n <= MaxClock,
         NEW y, y = IF x + 1 <= Full THEN x + 1 ELSE Full
  PROVE  Steady(f, y, n)
<1>1. MaxClock \in Nat /\ Full \in Nat /\ t \in 0..MaxClock /\ x \in 0..Full /\ n \in 1..MaxClock
  BY FullIs, SubstitutionConstants DEF Steady
<1>2. y \in 0..Full /\ y <= x + 1 /\ (y = Full \/ y = x + 1)
  BY <1>1
<1>3. f[n] = 0
  BY <1>1 DEF Steady
<1>4. ASSUME NEW from \in 0..n
      PROVE  /\ y + REFILL * InAll(f, from, n) <= Full + (n - from)
             /\ Owed(from, n) <= y + REFILL * InAll(f, from, n)
  <2>1. CASE from = n
    <3>3. InAll(f, from, n) = 0
      <4>1. Counts(f, n) /\ n \in Nat
        BY <1>1 DEF Counts, Steady
      <4> QED  BY <1>3, <2>1, <4>1, InAllOne
    <3>4. REFILL * 0 = 0
      BY FullIs
    <3>5. Owed(from, n) = 0
      <4>1. n - from = 0 /\ from # 0 /\ ~(0 >= Full)
        BY <1>1, <2>1, FullIs
      <4> QED  BY <4>1 DEF Owed
    <3> QED  BY <1>1, <1>2, <2>1, <3>3, <3>4, <3>5
  <2>2. CASE from \in 0..t
    <3>1. InAll(f, from, n) = InAll(f, from, t)
      <4>1. InAll(f, from, n) = InAll(f, from, n - 1) + f[n] /\ InAll(f, from, n - 1) \in Nat
        <5>1. from - 1 <= n /\ n <= MaxClock /\ from <= n /\ n - 1 \in Int /\ from - 1 <= n - 1 /\ n - 1 <= MaxClock
          BY <1>1, <2>2
        <5>2. n \in Int
          BY <1>1
        <5> QED  BY <2>2, <5>1, <5>2, InAllIs
      <4>2. n - 1 = t
        BY <1>1
      <4> QED  BY <1>3, <4>1, <4>2
    <3>2. PICK i : i = REFILL * InAll(f, from, t)
      OBVIOUS
    <3>3. i \in Nat
      <4>1. t \in Int /\ from - 1 <= t /\ t <= MaxClock
        BY <1>1, <2>2
      <4> QED  BY <2>2, <3>2, <4>1, InAllIs
    <3>4. x + i <= Full + (t - from) /\ Owed(from, t) <= x + i
      BY <2>2, <3>2 DEF Steady
    <3>5. y + i <= Full + (n - from)
      BY <1>1, <1>2, <2>2, <3>3, <3>4
    <3>6. Owed(from, n) <= y + i
      <4>1. Owed(from, n) \in 0..Full /\ (Owed(from, n) <= Owed(from, t) + 1)
            /\ Owed(from, t) \in 0..Full /\ (from = 0 => Owed(from, t) = Full)
        BY <1>1, <2>2 DEF Owed
      <4> QED  BY <1>1, <1>2, <3>3, <3>4, <4>1
    <3> QED  BY <3>1, <3>2, <3>5, <3>6
  <2>3. from = n \/ from \in 0..t
    BY <1>1
  <2> QED  BY <2>1, <2>2, <2>3
<1>5. WithinRate(f, n)
  <2>1. ASSUME NEW from \in 0..n, NEW to \in from..n PROVE REFILL * InAll(f, from, to) <= Full + (to - from)
    <3>1. CASE to = n
      <4>1. y + REFILL * InAll(f, from, n) <= Full + (n - from)
        BY <1>4
      <4>2. PICK i : i = REFILL * InAll(f, from, n)
        OBVIOUS
      <4>3. i \in Int
        <5>1. Counts(f, n)
          BY <1>1 DEF Counts, Steady
        <5>2. from \in Nat /\ n \in Int /\ from - 1 <= n
          BY <1>1
        <5>3. InAll(f, from, n) \in Nat
          BY <5>1, <5>2, InAllOf
        <5> QED  BY <4>2, <5>3, FullIs
      <4>4. i <= Full + (n - from)
        BY <1>1, <1>2, <4>1, <4>2, <4>3
      <4> QED  BY <3>1, <4>2, <4>4
    <3>2. CASE to # n
      <4>1. from \in 0..t /\ to \in from..t
        BY <1>1, <3>2
      <4> QED  BY <4>1 DEF Steady, WithinRate
    <3> QED  BY <3>1, <3>2
  <2> QED  BY <2>1 DEF WithinRate
<1>6. \A u \in n + 1..MaxClock : f[u] = 0
  BY <1>1 DEF Steady
<1> QED  BY <1>1, <1>2, <1>4, <1>5, <1>6 DEF Steady

(* What is handed out has been taken from the bucket.                        *)
LEMMA SteadyGives ==
  ASSUME NEW f, NEW x, NEW t, Steady(f, x, t), NEW g \in Nat, NEW y \in 0..Full, y + REFILL * g = x,
         NEW h, h = [f EXCEPT ![t] = @ + g]
  PROVE  Steady(h, y, t)
<1>1. MaxClock \in Nat /\ Full \in Nat /\ t \in 0..MaxClock /\ x \in 0..Full
      /\ DOMAIN f = 0..MaxClock /\ \A u \in 0..MaxClock : f[u] \in Nat
  BY FullIs, SubstitutionConstants DEF Steady
<1>2. /\ DOMAIN h = 0..MaxClock /\ h[t] = f[t] + g /\ \A u \in 0..MaxClock : u # t => h[u] = f[u]
      /\ \A u \in 0..MaxClock : h[u] \in Nat
  BY <1>1
<1>3. ASSUME NEW from \in 0..t, NEW to \in Int, from - 1 <= to, to < t
      PROVE  InAll(h, from, to) = InAll(f, from, to)
  <2>1. Counts(f, to)
    BY <1>1, <1>3 DEF Counts
  <2>2. Agree(f, h, from, to)
    BY <1>1, <1>2, <1>3 DEF Agree
  <2>3. from \in Nat
    BY <1>1
  <2> QED  BY <1>3, <2>1, <2>2, <2>3, InAllAgree
<1>4. ASSUME NEW from \in 0..t
      PROVE  /\ InAll(f, from, t) \in Nat /\ InAll(h, from, t) = InAll(f, from, t) + g
             /\ y + REFILL * InAll(h, from, t) = x + REFILL * InAll(f, from, t)
             /\ REFILL * InAll(h, from, t) \in Nat /\ REFILL * InAll(f, from, t) \in Nat
  <2>1. Counts(f, t) /\ Counts(h, t)
    BY <1>1, <1>2 DEF Counts
  <2>2. from \in Nat /\ t \in Int /\ from - 1 <= t /\ from <= t
    BY <1>1
  <2>3. PICK i, j, l, a, b : i = InAll(f, from, t) /\ j = InAll(h, from, t) /\ l = InAll(f, from, t - 1)
                             /\ a = f[t] /\ b = h[t]
    OBVIOUS
  <2>4. i \in Nat /\ i = l + a
    BY <2>1, <2>2, <2>3, InAllOf
  <2>5. j = InAll(h, from, t - 1) + b
    BY <2>1, <2>2, <2>3, InAllOf
  <2>6. InAll(h, from, t - 1) = l
    <3>1. t - 1 \in Int /\ from - 1 <= t - 1 /\ t - 1 < t
      BY <1>1, <2>2
    <3> QED  BY <1>3, <2>3, <3>1
  <2>7. l \in Nat
    <3>1. t - 1 \in Int /\ from - 1 <= t - 1 /\ t - 1 <= MaxClock
      BY <1>1, <2>2
    <3> QED  BY <2>3, <3>1, InAllIs
  <2>8. a \in Nat /\ b = a + g
    BY <1>1, <1>2, <2>3
  <2>9. j = i + g
    BY <2>4, <2>5, <2>6, <2>7, <2>8
  <2>10. REFILL * (i + g) = REFILL * i + REFILL * g /\ REFILL * i \in Nat /\ REFILL * g \in Nat
    BY <2>4, FullIs
  <2>11. y + REFILL * j = x + REFILL * i /\ REFILL * j \in Nat
    BY <1>1, <2>9, <2>10
  <2> QED  BY <2>3, <2>4, <2>9, <2>10, <2>11
<1>5. WithinRate(h, t)
  <2>1. ASSUME NEW from \in 0..t, NEW to \in from..t PROVE REFILL * InAll(h, from, to) <= Full + (to - from)
    <3>1. CASE to = t
      <4>1. PICK i, j : i = REFILL * InAll(f, from, t) /\ j = REFILL * InAll(h, from, t)
        OBVIOUS
      <4>2. i \in Nat /\ j \in Nat /\ y + j = x + i
        BY <1>4, <4>1
      <4>3. x + i <= Full + (t - from)
        BY <4>1 DEF Steady
      <4>4. j <= Full + (t - from)
        BY <1>1, <4>2, <4>3
      <4> QED  BY <3>1, <4>1, <4>4
    <3>2. CASE to # t
      <4>1. to \in Int /\ from - 1 <= to /\ to < t
        BY <1>1, <3>2
      <4>2. InAll(h, from, to) = InAll(f, from, to)
        BY <1>3, <4>1
      <4> QED  BY <4>2 DEF Steady, WithinRate
    <3> QED  BY <3>1, <3>2
  <2> QED  BY <2>1 DEF WithinRate
<1>6. \A from \in 0..t : /\ y + REFILL * InAll(h, from, t) <= Full + (t - from)
                         /\ Owed(from, t) <= y + REFILL * InAll(h, from, t)
  BY <1>4 DEF Steady
<1>7. \A u \in t + 1..MaxClock : h[u] = 0
  BY <1>1, <1>2 DEF Steady
<1> QED  BY <1>1, <1>2, <1>5, <1>6, <1>7 DEF Steady

(* An empty bucket has given what a full one holds.                          *)
LEMMA EmptyGave ==
  ASSUME NEW f, NEW x, NEW t, Steady(f, x, t), x < REFILL
  PROVE  InAll(f, Max({0, t - Full}), t) >= BURST
<1>1. MaxClock \in Nat /\ Full \in Nat /\ t \in 0..MaxClock /\ x \in 0..Full /\ BURST \in Nat /\ REFILL \in Nat \ {0}
  BY FullIs, SubstitutionConstants DEF Steady
<1>2. PICK from : from = Max({0, t - Full})
  OBVIOUS
<1>3. from = IF t - Full >= 0 THEN t - Full ELSE 0
  <2>1. \E z \in {0, t - Full} : \A u \in {0, t - Full} : z >= u
    BY <1>1
  <2>2. from \in {0, t - Full} /\ from >= 0 /\ from >= t - Full
    BY <1>2, <2>1 DEF Max
  <2> QED  BY <1>1, <2>2
<1>4. from \in 0..t /\ Owed(from, t) = Full
  BY <1>1, <1>3 DEF Owed
<1>5. PICK i : i = InAll(f, from, t)
  OBVIOUS
<1>6. i \in Nat
  <2>1. t \in Int /\ from - 1 <= t /\ t <= MaxClock
    BY <1>1, <1>4
  <2> QED  BY <1>4, <1>5, <2>1, InAllIs
<1>7. Full <= x + REFILL * i
  BY <1>4, <1>5 DEF Steady
<1>8. ASSUME i < BURST PROVE FALSE
  <2>1. PICK c \in Nat : BURST = (i + 1) + c
    <3>1. BURST - (i + 1) \in Nat /\ BURST = (i + 1) + (BURST - (i + 1))
      BY <1>1, <1>6, <1>8
    <3> QED  BY <3>1
  <2>2. BURST * REFILL = REFILL * i + REFILL + REFILL * c /\ REFILL * c \in Nat /\ REFILL * i \in Nat
    BY <1>1, <1>6, <2>1
  <2>3. Full = REFILL * i + REFILL + REFILL * c
    BY <2>2 DEF Full
  <2> QED  BY <1>1, <1>7, <2>2, <2>3
<1>9. i >= BURST
  BY <1>1, <1>6, <1>8
<1> QED  BY <1>2, <1>5, <1>9

(* What holds of a call that was let through, in the words of the property.  *)
Once(r) == \A i \in DOMAIN r.fields : r.fields[i].out = Meant(r.fields[i].text)
Spelt(r) == \A i \in DOMAIN r.fields :
  (/\ is_path_field(r.fields[i].pointer) /\ r.fields[i].out # <<>> /\ r.fields[i].out[1] # "s3:"
   /\ \E j \in DOMAIN r.sites : r.sites[j].pointer = r.fields[i].pointer /\ r.sites[j].type = "path")
  => /\ ~Contains(components(r.fields[i].out), <<"..">>)
     /\ \A n \in Linked(components(r.fields[i].out)) : ~Exists(Ancestor(components(r.fields[i].out), n))
Flagged(r) == \A j \in DOMAIN r.sites :
  Contains(r.sites[j].clear, ",") =>
    \/ \E i \in DOMAIN r.fields : r.fields[i].pointer = r.sites[j].pointer /\ Contains(r.fields[i].text, ",")
    \/ \E n \in DOMAIN r.sites : r.sites[n].pointer = r.sites[j].pointer /\ r.sites[n].type = "string"
Through(r) == r.error = "none" /\ r.fields # <<>> => Once(r) /\ Spelt(r) /\ Flagged(r)

LEMMA ThroughIs == Through(resolved) <=> (Resolved => OncePassed /\ AsSpelled /\ FlagsSplit)
<1>1. Once(resolved) <=> OncePassed
  BY DEF Once, OncePassed
<1>2. Spelt(resolved) <=> AsSpelled
  BY DEF Spelt, AsSpelled
<1>3. Flagged(resolved) <=> FlagsSplit
  BY DEF Flagged, FlagsSplit
<1> QED  BY <1>1, <1>2, <1>3 DEF Through, Resolved

LEMMA MeantSame == ASSUME doc' = doc PROVE \A s : Meant(s)' = Meant(s)
<1>1. \A s : Standing(s)' = Standing(s)
  BY DEF Standing
<1>2. \A s, i : Meaning(s, i)' = Meaning(s, i)
  BY <1>1 DEF Meaning
<1> QED  BY <1>2 DEF Meant

LEMMA PlaceSame == ASSUME tree' = tree PROVE \A p : Linked(p)' = Linked(p) /\ Exists(p)' = Exists(p)
<1>1. \A p : Linked(p)' = Linked(p)
  BY DEF Linked
<1>2. \A p : Leads(p)' = Leads(p)
  BY DEF Leads, Linked, Follow
<1> QED  BY <1>1, <1>2 DEF Exists

LEMMA ThroughSame ==
  ASSUME doc' = doc, tree' = tree, Through(resolved')
  PROVE  Through(resolved)'
<1>1. PICK r : r = resolved'
  OBVIOUS
<1>2. Once(resolved)' <=> Once(r)
  BY <1>1, MeantSame DEF Once
<1>3. Spelt(resolved)' <=> Spelt(r)
  BY <1>1, PlaceSame DEF Spelt
<1>4. Flagged(resolved)' <=> Flagged(r)
  BY <1>1 DEF Flagged
<1> QED  BY <1>1, <1>2, <1>3, <1>4 DEF Through

(* What a call becomes.                                                      *)
LEMMA CallThrough ==
  ASSUME tree \in Trees, NEW W, NEW fields, Calls(W, fields),
         \A i, j \in DOMAIN fields : fields[i].pointer = fields[j].pointer => i = j,
         NEW st, Walked(W, fields, st, Len(fields)),
         NEW r, DOMAIN r.fields = DOMAIN fields,
         \A i \in DOMAIN fields : /\ r.fields[i].pointer = fields[i].pointer /\ r.fields[i].text = fields[i].text
                                  /\ r.fields[i].out = st.texts[i],
         DOMAIN r.sites = DOMAIN st.sites,
         \A j \in DOMAIN st.sites :
           /\ r.sites[j].pointer = st.sites[j].pointer /\ r.sites[j].type = st.sites[j].type
           /\ r.sites[j].clear = <<>> \/ \E i \in DOMAIN fields :
                fields[i].pointer = st.sites[j].pointer /\ r.sites[j].clear = st.texts[i]
  PROVE  Once(r) /\ Spelt(r) /\ Flagged(r)
<1>1. DOMAIN fields = 1..Len(fields) /\ Len(fields) \in Nat
  BY DEF Calls
<1>2. /\ st.texts \in Seq(Seq(W)) /\ Len(st.texts) = Len(fields) /\ DOMAIN st.sites = 1..Len(st.sites)
      /\ \A i \in 1..Len(fields) : FieldIs(fields[i], st.texts[i], st.sites)
      /\ \A p, t : Has(st.sites, p, t) => \E i \in 1..Len(fields) : fields[i].pointer = p /\ Refers(fields[i].text, t)
  <2>1. st.sites \in Seq(Sites(Pointers(fields)))
    BY DEF Walked
  <2> QED  BY <2>1, LenProperties DEF Walked
<1>3. \A i \in DOMAIN fields : st.texts[i] \in Seq(W)
  BY <1>1, <1>2, ElementOfSeq
<1>4. Once(r)
  BY <1>1, <1>2 DEF Once, FieldIs
<1>5. Spelt(r)
  <2>1. ASSUME NEW i \in DOMAIN r.fields, is_path_field(r.fields[i].pointer), r.fields[i].out[1] # "s3:",
               NEW j \in DOMAIN r.sites, r.sites[j].pointer = r.fields[i].pointer, r.sites[j].type = "path",
               NEW text, text = r.fields[i].out
        PROVE  /\ ~Contains(components(text), <<"..">>)
               /\ \A n \in Linked(components(text)) : ~Exists(Ancestor(components(text), n))
    <3>0. /\ i \in DOMAIN fields /\ text = st.texts[i] /\ is_path_field(fields[i].pointer)
          /\ j \in DOMAIN st.sites /\ st.sites[j].pointer = fields[i].pointer /\ st.sites[j].type = "path"
      BY <2>1
    <3>1. Has(st.sites, fields[i].pointer, "path")
      BY <1>2, <3>0 DEF Has
    <3>2. PICK k \in 1..Len(fields) : fields[k].pointer = fields[i].pointer /\ Refers(fields[k].text, "path")
      BY <1>2, <3>1
    <3>3. k = i
      BY <1>1, <3>0, <3>2
    <3>4. FieldIs(fields[i], text, st.sites)
      BY <1>1, <1>2, <3>0
    <3>5. final_path_is_canonical(text)
      BY <2>1, <3>0, <3>2, <3>3, <3>4 DEF FieldIs
    <3>6. text \in Seq(W)
      BY <1>3, <3>0
    <3> QED  BY <3>5, <3>6, CanonicalIs
  <2> QED  BY <2>1 DEF Spelt
<1>6. Flagged(r)
  <2>1. ASSUME NEW j \in DOMAIN r.sites, Contains(r.sites[j].clear, ",")
        PROVE  \/ \E i \in DOMAIN r.fields : r.fields[i].pointer = r.sites[j].pointer /\ Contains(r.fields[i].text, ",")
               \/ \E n \in DOMAIN r.sites : r.sites[n].pointer = r.sites[j].pointer /\ r.sites[n].type = "string"
    <3>0. j \in DOMAIN st.sites /\ r.sites[j].pointer = st.sites[j].pointer
      BY <2>1
    <3>1. ~Contains(<<>>, ",")
      BY DEF Contains
    <3>2. PICK i \in DOMAIN fields : fields[i].pointer = st.sites[j].pointer /\ r.sites[j].clear = st.texts[i]
      BY <2>1, <3>0, <3>1
    <3>3. Contains(st.texts[i], ",") /\ FieldIs(fields[i], st.texts[i], st.sites)
      BY <1>1, <1>2, <2>1, <3>2
    <3>4. Contains(fields[i].text, ",") \/ Has(st.sites, fields[i].pointer, "string")
      BY <3>3 DEF FieldIs
    <3>5. CASE Contains(fields[i].text, ",")
      <4>1. i \in DOMAIN r.fields /\ r.fields[i].pointer = r.sites[j].pointer /\ Contains(r.fields[i].text, ",")
        BY <3>0, <3>2, <3>5
      <4> QED  BY <4>1
    <3>6. CASE Has(st.sites, fields[i].pointer, "string")
      <4>1. PICK n \in DOMAIN st.sites : st.sites[n].pointer = fields[i].pointer /\ st.sites[n].type = "string"
        BY <1>2, <3>6 DEF Has
      <4>2. n \in DOMAIN r.sites /\ r.sites[n].pointer = r.sites[j].pointer /\ r.sites[n].type = "string"
        BY <3>0, <3>2, <4>1
      <4> QED  BY <4>2
    <3> QED  BY <3>4, <3>5, <3>6
  <2> QED  BY <2>1 DEF Flagged
<1> QED  BY <1>4, <1>5, <1>6

(* The rates.                                                                *)
TokensAt(b, k, t) ==
  IF b[k] = Unset THEN BURST * REFILL ELSE Min({b[k].tokens + t - b[k].last, BURST * REFILL})
BucketAt(b, t) ==
  DOMAIN b = VarKey /\ \A k \in VarKey : b[k] = Unset \/ \E l \in 0..t, n \in Nat : b[k] = Level(l, n)
Rates(b, given, t) ==
  /\ t \in 0..MaxClock /\ BucketAt(b, t) /\ DOMAIN given = VarKey
  /\ \A k \in VarKey : Steady(given[k], TokensAt(b, k, t), t)
RateInv == Rates(bucket, taken, clock)

LEMMA RateAt == (\A b, k : Tokens(b, k) = TokensAt(b, k, clock)) /\ (\A b : BucketType(b) <=> BucketAt(b, clock))
BY DEF Tokens, TokensAt, BucketType, BucketAt

LEMMA LevelAt ==
  ASSUME NEW t \in Nat, NEW b, BucketAt(b, t), NEW k \in VarKey
  PROVE  /\ TokensAt(b, k, t) \in 0..Full
         /\ TokensAt(b, k, t + 1) = IF TokensAt(b, k, t) + 1 <= Full THEN TokensAt(b, k, t) + 1 ELSE Full
<1>1. Full \in Nat
  BY FullIs
<1>2. CASE b[k] = Unset
  <2>1. TokensAt(b, k, t) = Full /\ TokensAt(b, k, t + 1) = Full
    BY <1>2 DEF TokensAt, Full
  <2> QED  BY <1>1, <2>1
<1>3. CASE b[k] # Unset
  <2>1. PICK l \in 0..t, n \in Nat : b[k] = Level(l, n)
    BY <1>3 DEF BucketAt
  <2>2. b[k].last = l /\ b[k].tokens = n
    BY <2>1, LevelIsSet
  <2>3. TokensAt(b, k, t) = Min({n + t - l, Full}) /\ TokensAt(b, k, t + 1) = Min({n + (t + 1) - l, Full})
    BY <1>3, <2>2 DEF TokensAt, Full
  <2>4. PICK x, y : x = n + t - l /\ y = n + (t + 1) - l
    OBVIOUS
  <2>5. x \in Nat /\ y = x + 1
    BY <2>4
  <2>6. Min({x, Full}) = (IF x <= Full THEN x ELSE Full) /\ Min({y, Full}) = (IF y <= Full THEN y ELSE Full)
    BY <1>1, <2>5, MinOfTwo
  <2> QED  BY <1>1, <2>3, <2>4, <2>5, <2>6
<1> QED  BY <1>2, <1>3

LEMMA RatesPass ==
  ASSUME NEW b, NEW given, NEW t, Rates(b, given, t), NEW n, n = t + 1, n <= MaxClock
  PROVE  Rates(b, given, n)
<1>1. MaxClock \in Nat /\ t \in Nat /\ n \in 0..MaxClock
  BY SubstitutionConstants DEF Rates
<1>2. BucketAt(b, n)
  <2>1. \A l \in 0..t : l \in 0..n
    BY <1>1
  <2> QED  BY <2>1 DEF Rates, BucketAt
<1>3. ASSUME NEW k \in VarKey PROVE Steady(given[k], TokensAt(b, k, n), n)
  <2>1. PICK x, y : x = TokensAt(b, k, t) /\ y = TokensAt(b, k, n)
    OBVIOUS
  <2>2. Steady(given[k], x, t)
    BY <2>1 DEF Rates
  <2>3. y = IF x + 1 <= Full THEN x + 1 ELSE Full
    BY <1>1, <2>1, LevelAt DEF Rates
  <2> QED  BY <2>1, <2>2, <2>3, SteadyPasses
<1> QED  BY <1>1, <1>2, <1>3 DEF Rates

(* Words: those of the values and those of the calls.                        *)
WordsOf(fields) == UNION {Range(fields[i].text) : i \in DOMAIN fields}
Vocabulary == (UNION {Range(t.value) : t \in Typed}) \cup (UNION {WordsOf(f) : f \in Arguments})

LEMMA Wider == ASSUME NEW V, NEW W, V \subseteq W, NEW s \in Seq(V) PROVE s \in Seq(W)
<1>1. Len(s) \in Nat /\ DOMAIN s = 1..Len(s) /\ \A i \in 1..Len(s) : s[i] \in W
  BY LenProperties, ElementOfSeq
<1> QED  BY <1>1

LEMMA VocabularyIs == Worded(Vocabulary) /\ \A fields \in Arguments : Calls(Vocabulary, fields)
<1>1. ASSUME NEW t \in Typed PROVE t.value \in Seq(Vocabulary)
  <2>1. t.value \in Seq(Range(t.value))
    BY SubstitutionConstants DEF IsText
  <2>2. Range(t.value) \subseteq Vocabulary
    BY DEF Vocabulary
  <2> QED  BY <2>1, <2>2, Wider
<1>2. ASSUME NEW fields \in Arguments PROVE Calls(Vocabulary, fields)
  <2>1. Len(fields) \in Nat \ {0} /\ DOMAIN fields = 1..Len(fields) /\ \A i \in DOMAIN fields : IsText(fields[i].text)
    BY SubstitutionConstants
  <2>2. ASSUME NEW i \in 1..Len(fields) PROVE fields[i].text \in Seq(Vocabulary)
    <3>1. fields[i].text \in Seq(Range(fields[i].text))
      BY <2>1 DEF IsText
    <3>2. Range(fields[i].text) \subseteq Vocabulary
      <4>2. Range(fields[i].text) \subseteq WordsOf(fields)
        BY <2>1 DEF WordsOf
      <4>3. WordsOf(fields) \subseteq Vocabulary
        BY DEF Vocabulary
      <4> QED  BY <4>2, <4>3
    <3> QED  BY <3>1, <3>2, Wider
  <2> QED  BY <2>1, <2>2 DEF Calls
<1> QED  BY <1>1, <1>2 DEF Worded

(* The invariant.                                                            *)
Gave(r, t, given) ==
  r.error = "lvr_rate_limited" => \E k \in VarKey : InAll(given[k], Max({0, t - Full}), t) >= BURST
SubstitutionInv ==
  /\ DocType /\ tree \in Trees /\ RateInv
  /\ Gave(resolved, clock, taken) /\ Through(resolved)

LEMMA InvIsMeant == SubstitutionInv => ResolvedAsMeant
<1> SUFFICES ASSUME SubstitutionInv PROVE ResolvedAsMeant
  OBVIOUS
<1>1. \A k \in VarKey : \A from \in 0..clock : \A to \in from..clock :
        REFILL * Handed(k, from, to) <= BURST * REFILL + (to - from)
  BY DEF SubstitutionInv, RateInv, Rates, Steady, WithinRate, Full, Handed
<1>2. resolved.error = "lvr_rate_limited" =>
        \E k \in VarKey : Handed(k, Max({0, clock - BURST * REFILL}), clock) >= BURST
  BY DEF SubstitutionInv, Gave, Full, Handed
<1>3. Resolved => OncePassed /\ AsSpelled /\ FlagsSplit
  BY ThroughIs DEF SubstitutionInv
<1> QED  BY <1>1, <1>2, <1>3 DEF ResolvedAsMeant, RateKept

LEMMA NoCallIs == NoCall.error = "none" /\ NoCall.fields = <<>>
BY DEF NoCall

LEMMA InvStarts == SubstitutionInit => SubstitutionInv
<1> SUFFICES ASSUME SubstitutionInit PROVE SubstitutionInv
  OBVIOUS
<1>1. DocType
  BY DEF SubstitutionInit, DocType
<1>2. RateInv
  <2>1. clock = 0 /\ 0 \in 0..MaxClock /\ bucket = [k \in VarKey |-> Unset] /\ taken = [k \in VarKey |-> [t \in 0..MaxClock |-> 0]]
    BY SubstitutionConstants DEF SubstitutionInit
  <2>2. BucketAt(bucket, 0)
    BY <2>1 DEF BucketAt
  <2>3. ASSUME NEW k \in VarKey PROVE Steady(taken[k], TokensAt(bucket, k, 0), 0)
    <3>1. TokensAt(bucket, k, 0) = Full
      BY <2>1 DEF TokensAt, Full
    <3>2. DOMAIN taken[k] = 0..MaxClock /\ \A u \in 0..MaxClock : taken[k][u] = 0
      BY <2>1
    <3> QED  BY <3>1, <3>2, SteadyStarts
  <2> QED  BY <2>1, <2>2, <2>3 DEF RateInv, Rates
<1>3. Gave(resolved, clock, taken) /\ Through(resolved)
  BY NoCallIs DEF SubstitutionInit, Gave, Through
<1> QED  BY <1>1, <1>2, <1>3 DEF SubstitutionInv, SubstitutionInit

LEMMA InvResolve ==
  ASSUME SubstitutionInv, NEW fields \in Arguments, Resolve(fields)
  PROVE  SubstitutionInv'
<1>1. DocType /\ tree \in Trees /\ RateInv
  BY DEF SubstitutionInv
<1>2. clock \in Nat /\ BucketType(bucket) /\ clock \in 0..MaxClock
  <2>1. clock \in 0..MaxClock /\ BucketAt(bucket, clock) /\ MaxClock \in Nat
    BY <1>1, SubstitutionConstants DEF RateInv, Rates
  <2> QED  BY <2>1, RateAt
<1>3. PICK st : st = prepare(fields)
  OBVIOUS
<1>4. Worded(Vocabulary) /\ Calls(Vocabulary, fields)
  BY VocabularyIs
<1>5. Balanced(st) /\ (st.error = "none" => Walked(Vocabulary, fields, st, Len(fields)))
  BY <1>1, <1>2, <1>3, <1>4, PrepareSays
<1>6. Prepared(fields, st) /\ tree' = tree /\ doc' = doc /\ clock' = clock
  BY <1>3 DEF Resolve
<1>7. bucket' = st.bucket /\ taken' = [k \in VarKey |-> [taken[k] EXCEPT ![clock] = @ + st.given[k]]]
  BY <1>6 DEF Prepared
<1>8. PICK r : r = resolved'
  OBVIOUS
<1>9. /\ r.error = st.error /\ DOMAIN r.fields = DOMAIN fields /\ DOMAIN r.sites = DOMAIN st.sites
      /\ \A i \in DOMAIN fields : /\ r.fields[i].pointer = fields[i].pointer /\ r.fields[i].text = fields[i].text
                                  /\ r.fields[i].out = st.texts[i]
  BY <1>6, <1>8 DEF Prepared
<1>10. Rates(bucket', taken', clock')
  <2>1. BucketAt(st.bucket, clock)
    BY <1>5, RateAt DEF Balanced
  <2>2. ASSUME NEW k \in VarKey PROVE Steady(taken'[k], TokensAt(st.bucket, k, clock), clock)
    <3>1. PICK x, y, g, f, h : /\ x = TokensAt(bucket, k, clock) /\ y = TokensAt(st.bucket, k, clock)
                               /\ g = st.given[k] /\ f = taken[k] /\ h = taken'[k]
      OBVIOUS
    <3>2. Steady(f, x, clock)
      BY <1>1, <3>1 DEF RateInv, Rates
    <3>3. y \in 0..Full
      BY <1>2, <2>1, <3>1, LevelAt
    <3>4. g \in Nat /\ Tokens(st.bucket, k) + REFILL * g = Tokens(bucket, k)
      BY <1>5, <3>1 DEF Balanced
    <3>5. y + REFILL * g = x
      BY <3>1, <3>4, RateAt
    <3>6. h = [f EXCEPT ![clock] = @ + g]
      BY <1>7, <3>1
    <3> QED  BY <3>1, <3>2, <3>3, <3>4, <3>5, <3>6, SteadyGives
  <2>3. DOMAIN taken' = VarKey
    BY <1>7
  <2> QED  BY <1>2, <1>6, <1>7, <2>1, <2>2, <2>3 DEF Rates
<1>11. Gave(r, clock', taken')
  <2>1. ASSUME st.error = "lvr_rate_limited" PROVE \E k \in VarKey : InAll(taken'[k], Max({0, clock - Full}), clock) >= BURST
    <3>1. PICK k \in VarKey : Tokens(st.bucket, k) < REFILL
      BY <1>5, <2>1 DEF Balanced
    <3>2. PICK x : x = TokensAt(st.bucket, k, clock)
      OBVIOUS
    <3>3. x < REFILL
      BY <3>1, <3>2, RateAt
    <3>4. Steady(taken'[k], x, clock)
      BY <1>6, <1>7, <1>10, <3>2 DEF Rates
    <3> QED  BY <3>3, <3>4, EmptyGave
  <2> QED  BY <1>6, <1>9, <2>1 DEF Gave
<1>12. Through(r)
  <2>1. ASSUME st.error = "none" PROVE Once(r) /\ Spelt(r) /\ Flagged(r)
    <3>1. Walked(Vocabulary, fields, st, Len(fields))
      BY <1>5, <2>1
    <3>2. \A i, j \in DOMAIN fields : fields[i].pointer = fields[j].pointer => i = j
      BY SubstitutionConstants
    <3>3. ASSUME NEW j \in DOMAIN st.sites
          PROVE  /\ r.sites[j].pointer = st.sites[j].pointer /\ r.sites[j].type = st.sites[j].type
                 /\ r.sites[j].clear = <<>> \/ \E i \in DOMAIN fields :
                      fields[i].pointer = st.sites[j].pointer /\ r.sites[j].clear = st.texts[i]
      <4>1. PICK site : site = st.sites[j]
        OBVIOUS
      <4>2. site \in Sites(Pointers(fields))
        <5>1. st.sites \in Seq(Sites(Pointers(fields)))
          BY <3>1 DEF Walked
        <5> QED  BY <4>1, <5>1, LenProperties, ElementOfSeq
      <4>3. PICK text : text = st.texts[CHOOSE i \in DOMAIN fields : fields[i].pointer = site.pointer]
        OBVIOUS
      <4>4. r.sites[j] = [site EXCEPT !.clear = lvr_audit_flags(site, text)]
        BY <1>6, <1>8, <4>1, <4>3 DEF Prepared
      <4>5. /\ r.sites[j].pointer = site.pointer /\ r.sites[j].type = site.type
            /\ r.sites[j].clear = lvr_audit_flags(site, text)
        BY <4>2, <4>4 DEF Sites
      <4>6. \E i \in DOMAIN fields : fields[i].pointer = site.pointer
        BY <4>2 DEF Sites, Pointers
      <4>7. PICK i : i = CHOOSE n \in DOMAIN fields : fields[n].pointer = site.pointer
        OBVIOUS
      <4>8. i \in DOMAIN fields /\ fields[i].pointer = site.pointer /\ text = st.texts[i]
        BY <4>3, <4>6, <4>7
      <4>9. r.sites[j].clear = text \/ r.sites[j].clear = <<>>
        BY <4>5 DEF lvr_audit_flags
      <4> QED  BY <4>1, <4>5, <4>8, <4>9
    <3> QED  BY <1>1, <1>4, <1>9, <3>1, <3>2, <3>3, CallThrough
  <2> QED  BY <1>9, <2>1 DEF Through
<1>13. DocType' /\ (tree \in Trees)'
  BY <1>1, <1>6 DEF DocType
<1>14. RateInv'
  BY <1>10 DEF RateInv
<1>15. Gave(resolved, clock, taken)'
  BY <1>8, <1>11 DEF Gave
<1>16. Through(resolved)'
  BY <1>6, <1>8, <1>12, ThroughSame
<1> QED  BY <1>13, <1>14, <1>15, <1>16 DEF SubstitutionInv

(* A step after which no call is held.                                       *)
LEMMA NoneHeld ==
  ASSUME resolved' = NoCall
  PROVE  Gave(resolved, clock, taken)' /\ Through(resolved)'
BY NoCallIs DEF Gave, Through

LEMMA InvKept == SubstitutionInv /\ [SubstitutionNext]_uvars => SubstitutionInv'
<1> SUFFICES ASSUME SubstitutionInv, [SubstitutionNext]_uvars PROVE SubstitutionInv'
  OBVIOUS
<1>1. DocType /\ tree \in Trees /\ RateInv
  BY DEF SubstitutionInv
<1>2. ASSUME NEW fields \in Arguments, Resolve(fields) PROVE SubstitutionInv'
  BY <1>2, InvResolve
<1>3. ASSUME NEW t \in Typed, NEW confirmed \in BOOLEAN, Set(t, confirmed) PROVE SubstitutionInv'
  <2>1. /\ doc' = [doc EXCEPT ![t.key] = Var(t, confirmed)] /\ resolved' = NoCall
        /\ tree' = tree /\ clock' = clock /\ bucket' = bucket /\ taken' = taken
    BY <1>3 DEF Set
  <2>2. DocType'
    <3>1. ASSUME NEW k \in VarKey PROVE doc'[k] = doc[k] \/ doc'[k] = Var(t, confirmed)
      BY <2>1
    <3> QED  BY <1>1, <3>1 DEF DocType
  <2>3. RateInv'
    BY <1>1, <2>1 DEF RateInv
  <2> QED  BY <1>1, <2>1, <2>2, <2>3, NoneHeld DEF SubstitutionInv
<1>4. ASSUME NEW t \in Trees, Relink(t) PROVE SubstitutionInv'
  <2>1. tree' = t /\ resolved' = NoCall /\ doc' = doc /\ clock' = clock /\ bucket' = bucket /\ taken' = taken
    BY <1>4 DEF Relink
  <2>2. DocType'
    BY <1>1, <2>1 DEF DocType
  <2>3. RateInv'
    BY <1>1, <2>1 DEF RateInv
  <2> QED  BY <1>4, <2>1, <2>2, <2>3, NoneHeld DEF SubstitutionInv
<1>5. ASSUME Pass PROVE SubstitutionInv'
  <2>1. /\ clock < MaxClock /\ clock' = clock + 1 /\ resolved' = NoCall
        /\ tree' = tree /\ doc' = doc /\ bucket' = bucket /\ taken' = taken
    BY <1>5 DEF Pass
  <2>2. DocType'
    BY <1>1, <2>1 DEF DocType
  <2>3. RateInv'
    <3>1. Rates(bucket, taken, clock)
      BY <1>1 DEF RateInv
    <3>2. clock + 1 <= MaxClock
      BY <2>1, <3>1, SubstitutionConstants DEF Rates
    <3>3. Rates(bucket, taken, clock')
      BY <2>1, <3>1, <3>2, RatesPass
    <3> QED  BY <2>1, <3>3 DEF RateInv
  <2> QED  BY <1>1, <2>1, <2>2, <2>3, NoneHeld DEF SubstitutionInv
<1>6. CASE UNCHANGED uvars
  <2>1. /\ tree' = tree /\ doc' = doc /\ clock' = clock /\ bucket' = bucket /\ resolved' = resolved /\ taken' = taken
    BY <1>6 DEF uvars
  <2>2. Gave(resolved, clock, taken) /\ Through(resolved')
    BY <2>1 DEF SubstitutionInv
  <2>3. Through(resolved)'
    BY <2>1, <2>2, ThroughSame
  <2>4. DocType'
    BY <1>1, <2>1 DEF DocType
  <2>5. RateInv' /\ Gave(resolved, clock, taken)'
    BY <1>1, <2>1, <2>2 DEF RateInv, Gave
  <2> QED  BY <1>1, <2>1, <2>3, <2>4, <2>5 DEF SubstitutionInv
<1> QED  BY <1>2, <1>3, <1>4, <1>5, <1>6 DEF SubstitutionNext

(* A call that is let through has become what it means, its paths are the    *)
(* places they spell and its flags stay apart; and no more values of a       *)
(* variable are handed out than its bucket allows, nor fewer refused.        *)
THEOREM TextsAreMeant == SubstitutionSpec => []ResolvedAsMeant
<1>1. SubstitutionSpec => []SubstitutionInv
  BY InvStarts, InvKept, PTL DEF SubstitutionSpec
<1> QED  BY <1>1, InvIsMeant, PTL
===============================================================================
