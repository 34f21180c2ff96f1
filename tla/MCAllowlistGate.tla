---------------------------- MODULE MCAllowlistGate ----------------------------
(* One profile, an allowlist for each kind of primitive, calls inside and   *)
(* outside of each, and five worlds that differ in one lookup; and the      *)
(* operations of kvendra.github on one repository of up to seven issues.    *)
EXTENDS AllowlistGate, Substitution, ToolRuns

VARIABLE part

MCToken == {"status", "log", "-x", "", NonString}

MCBucketOf == [u \in {"s3-b1", "s3-b2"} |-> IF u = "s3-b1" THEN "b1" ELSE "b2"]

MCPath   == {"/w/f", "/w", "/link", "/tmp/f", "/"}
MCInside == {<<p, p>> : p \in {"/w/f", "/w", "/", "/tmp/f"}}
              \cup {<<"/w/f", "/w">>} \cup {<<p, "/">> : p \in {"/w/f", "/w", "/tmp/f"}}

MCValue == {"git-a", "git-b", "o/a", "p/b", "a/b/c", "s3-b1", "s3-b2", "work", "home",
            "url-api", "url-canary", "*", "GET", "POST", "git", "sh", "main", "v1", "pkg-a",
            "pkg-b", "origin", "x"} \cup MCPath

MCRepoOf ==
  [v \in MCValue |-> IF v \in {"git-a", "o/a"} THEN "o/a" ELSE IF v = "git-b" THEN "p/b" ELSE v]
MCOwnerOf == [v \in MCValue |-> IF v = "o/a" THEN "o" ELSE v]

(* Remotes, manifests and links: as they should be, with a push URL of its  *)
(* own, with another manifest, with the root's link turned to / or broken.  *)
In(work, home) == [d \in MCValue |-> IF d = "work" THEN work ELSE IF d = "home" THEN home ELSE Absent]
Plainly == [push     |-> In("o/a", "p/b"),
            fetch    |-> In("o/a", "p/b"),
            manifest |-> In("pkg-a", Absent),
            canon    |-> [p \in MCPath |-> IF p = "/link" THEN "/w" ELSE p]]
MCWorld == {Plainly,
            [Plainly EXCEPT !.push["work"] = "p/b"],
            [Plainly EXCEPT !.manifest["work"] = "pkg-b"],
            [Plainly EXCEPT !.canon["/link"] = "/"],
            [Plainly EXCEPT !.canon["/link"] = Dangling, !.canon["/w/f"] = Nowhere]}

With(flags, f) ==
  [Unbounded EXCEPT !.allow = [d \in Dim |-> IF d \in DOMAIN f THEN f[d] ELSE Absent],
                    !.accept = "accept" \in flags, !.broad = "broad" \in flags,
                    !.destructive = "destructive" \in flags]
Accepted == {"accept"}

GitRules == With(Accepted, [repos |-> {"o/a"}, refs |-> {"main"}, cwd_pattern |-> {"work"}])
Exec(cwds, tpls) == With(Accepted, [binaries |-> {"git"}, cwd_pattern |-> cwds, args_constraints |-> tpls])
Templates  == {<<{"status"}>>, <<{"status"}, AnyToken>>, <<{"status", "log"}, {"log"}>>}
LeaveNone  == {<<AnyToken \ {Empty}>>, <<{Empty}>>}
List(ops) == [ops |-> ops, expires |-> Never]

MCAllowlist ==
  {List([push |-> GitRules, pull |-> GitRules,
         tag |-> With(Accepted, [tag_pattern |-> {"v1"}, repos |-> {"o/a"}])]),
   List([clone |-> With(Accepted, [org |-> {"o"}, local_roots |-> {"/link"}])]),
   List([release |-> With(Accepted, [repos |-> {"o/a"}]), read_repo |-> With({}, [org |-> {"o"}])]),
   List([publish |-> With(Accepted, [packages |-> {"pkg-a"}])]),
   List([s3_cp |-> With(Accepted, [buckets |-> {"b1"}, local_roots |-> {"/link"}])]),
   List([s3_cp |-> With({"accept", "broad"}, [buckets |-> {"b1"}, local_roots |-> {"/link"}])]),
   List([upload |-> With(Accepted, [local_roots |-> {"/w"}])]),
   List([request |-> With({}, [url_pattern_regex |-> {"url-api"}, methods |-> {"GET"}])]),
   List([request |-> With(Accepted, [url_pattern_regex |-> {"url-api", "url-canary"},
                                     methods |-> {"GET", "POST"}])]),
   List([request |-> With({"broad"}, [url_pattern_regex |-> {"url-api", "url-canary"}])]),
   List([exec |-> Exec({"work"}, Templates)]),
   List([exec |-> Exec({"work", "home"}, Templates \cup LeaveNone)]),
   List([frobnicate |-> With({}, [refs |-> {"main"}])]),
   [ops |-> [read_repo |-> With({"destructive", "accept"}, [repos |-> {"o/a"}])], expires |-> 0]}

Args(f) == [g \in Field |-> IF g \in DOMAIN f THEN f[g] ELSE Absent]
At(f) == [field |-> f, index |-> 0]
Arg(i) == [field |-> "argv", index |-> i]
Calls(op, argss, sitess) ==
  {call \in [op : {op}, args : {Args(f) : f \in argss}, sites : sitess] :
     \A site \in call.sites : HasSite(call.args, site)}

Remotes == {[ref |-> "main", cwd |-> "work"], [ref |-> "main", cwd |-> "home"],
            [ref |-> "main", cwd |-> "work", repo |-> "o/a", remote |-> "git-b"],
            [ref |-> "main", remote |-> "git-a"], [ref |-> "main"],
            [ref |-> "x", cwd |-> "work", remote |-> "origin"]}
Repos == {[repo |-> "o/a", tag_name |-> "v1"], [repo |-> "a/b/c", pair |-> "o/a", tag_name |-> "v1"],
          [pair |-> "p/b", url |-> "git-a", tag_name |-> "v1"], [alias |-> "o/a", tag_name |-> "v1"]}
Transfers == {[src |-> "/w/f", dst |-> "s3-b1"], [src |-> "/tmp/f", dst |-> "s3-b1"],
              [src |-> "s3-b2", dst |-> "/w/f"], [src |-> "x", dst |-> "s3-b1"]}

MCCall ==
  Calls("push", Remotes, {{}, {At("cwd")}}) \cup Calls("pull", Remotes, {{}})
  \cup Calls("tag", {[name |-> "v1", remote |-> "git-a"], [name |-> "x", remote |-> "git-a"]}, {{}})
  \cup Calls("clone", {[url |-> "git-a", dst |-> "/w/f"], [url |-> "git-b", repo |-> "o/a", dst |-> "/w/f"],
                       [url |-> "git-a"], [repo |-> "o/a", dst |-> "/w/f"]}, {{}, {At("dst")}})
  \cup Calls("release", Repos, {{}}) \cup Calls("read_repo", Repos, {{}})
  \cup Calls("publish", {[cwd |-> "work"], [cwd |-> "home"], [package |-> "pkg-a", cwd |-> "home"]}, {{}})
  \cup Calls("s3_cp", Transfers, {{}, {At("src")}})
  \cup Calls("upload", {[dist |-> "/w/f"], [dist |-> "/tmp/f"]}, {{At("dist")}})
  \cup Calls("request", [method : {"GET", "POST"}, url : {"url-api", "url-canary"}], {{}, {At("url")}})
  \cup Calls("exec", [binary : {"git"}, cwd : {"work", "home"},
                      argv : {<<"status">>, <<"status", "-x">>, <<"status", "log">>, <<"log", "log">>,
                              <<"-x">>, <<NonString, "status">>}],
             {{}, {At("cwd")}, {Arg(1)}, {Arg(2)}})
  \cup Calls("exec", {[binary |-> "git", argv |-> <<"status">>], [binary |-> "sh", argv |-> <<"status">>]}, {{}})
  \cup Calls("frobnicate", {[ref |-> "main"]}, {{}})

(* Texts with references, and what the owner types for two variables.       *)
Ref(ns, key) == <<"{{", ns>> \o key \o <<"}}">>
Lvr(k) == Ref("lvr:", k)

(* /w and /w/r are directories, /w/k leads to /o, or nowhere, or is not there. *)
Place(s) == [i \in DOMAIN s |-> <<s[i]>>]
Dirs == {<<>>, Place(<<"w">>), Place(<<"w", "r">>), Place(<<"o">>)}
MCTrees ==
  {[dirs |-> Dirs, links |-> (Place(<<"w", "k">>) :> Place(<<"o">>))],
   [dirs |-> Dirs, links |-> (Place(<<"w", "k">>) :> Place(<<"a">>))],
   [dirs |-> Dirs \ {Place(<<"w">>), Place(<<"w", "r">>)}, links |-> (Place(<<"w">>) :> Place(<<"o">>))]}

KA == <<"a">>
KW == <<"w">>
Typing(key, type, value) == [key |-> key, type |-> type, value |-> value]
MCTyped ==
  {Typing(KW, "path", v) : v \in {<<"/", "w">>, <<"/", "w", "/">>, <<"/", "w", "/", "k">>, <<"/", "a", ",">>,
                             <<"/", "w", "/", ".", "/", "r">>, <<"w">>}}
  \cup {Typing(KA, "host", v) : v \in {<<"1", ".", "1", ".", "1", ".", "9", "9", "9">>,
                                  <<"1", ".", "1", ".", "1", ".", "9">>, <<"A">>}}
  \cup {Typing(KA, "port", v) : v \in {<<"0">>, <<"1", "0">>, <<"9", "9", "9", "9", "9">>}}
  \cup {Typing(KA, "profile_id", v) : v \in {<<"a">>, <<"r">>, <<".", "a">>}}
  \cup {Typing(KA, "string", v) : v \in {<<"lvr:", "a">>, <<"..", ",">>, <<"a", "{{">>}}

Filling(pointer, text) == [pointer |-> pointer, text |-> text]
MCArguments ==
  {<<Filling("/args/cwd", t)>> : t \in
     {Lvr(KW), Lvr(KW) \o <<"/", "k", "/", "r">>, Lvr(KW) \o <<"/", "..", "/", "o">>,
      Lvr(KW) \o <<",">>, <<"s3:", "/", "/">> \o Lvr(KW), Ref("cfg:", KW), <<"/", "w">>}}
  \cup {<<Filling("/args/cwd", Lvr(KW)), Filling("/args/message", t)>> : t \in
     {Lvr(KA) \o Lvr(KA) \o Lvr(KA), <<"\\", "\\">> \o Lvr(KW) \o Lvr(KA), <<"{{">> \o Lvr(KA) \o <<"}}">>,
      Ref("cfg:", KW) \o Lvr(KA), <<"{{", "lvr:">> \o Lvr(KA)}}
  \cup {<<Filling("/args/url", <<"a">> \o Lvr(KA) \o <<"/">>), Filling("/profile_id", Lvr(KA))>>}

MCProfiles == {KA}

Shared(shape, parts) == [form |-> shape, has |-> parts]
MCSecrets ==
  {Shared("json", {"id", "key", "token", "region"}), Shared("json", {"id", "key"}), Shared("json", {"id"}),
   Shared("parts", {"id", "key", "token"}), Shared("broken", {}), Shared("bytes", {})}
Folder(scope, publishTo, npmrc) == [scope |-> scope, publishTo |-> publishTo, npmrc |-> npmrc]
MCDirectories ==
  {NotJson} \cup {Folder(s, Missing, r) : s \in {Missing, "mine"}, r \in {Missing, "elsewhere"}}
            \cup {Folder("mine", r, Missing) : r \in {"npmjs", "elsewhere"}}
MCInherited ==
  {"PATH", "KVENDRA_MCP_PASSWORD", "NPM_TOKEN", "TWINE_PASSWORD", "AWS_ACCESS_KEY_ID", "AWS_SESSION_TOKEN", "AWS_REGION"}

NothingDecided  == world = Plainly /\ GateInit
NothingListed   == issues = <<>> /\ topics = <<>> /\ GithubInit
NothingResolved ==
  /\ tree = CHOOSE t \in MCTrees : TRUE
  /\ doc = [k \in VarKey |-> Unset] /\ SubstitutionInit
NothingRun == vault = Shared("broken", {}) /\ folder = NotJson /\ RunsInit

MCInit ==
  \/ part = "gate" /\ GateInit /\ NothingListed /\ NothingResolved /\ NothingRun
  \/ part = "github" /\ NothingDecided /\ GithubInit /\ NothingResolved /\ NothingRun
  \/ part = "references" /\ NothingDecided /\ NothingListed /\ SubstitutionInit /\ NothingRun
  \/ part = "tools" /\ NothingDecided /\ NothingListed /\ NothingResolved /\ RunsInit

MCNext ==
  \/ part = "gate" /\ GateNext /\ UNCHANGED <<hvars, uvars, rvars, part>>
  \/ part = "github" /\ GithubNext /\ UNCHANGED <<gvars, uvars, rvars, part>>
  \/ part = "references" /\ SubstitutionNext /\ UNCHANGED <<gvars, hvars, rvars, part>>
  \/ part = "tools" /\ RunsNext /\ UNCHANGED <<gvars, hvars, uvars, part>>

MCSpec == MCInit /\ [][MCNext]_<<gvars, hvars, uvars, rvars, part>>
===============================================================================
