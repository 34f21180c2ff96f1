---------------------------- MODULE WorkspaceServer ----------------------------
(***************************************************************************)
(* A server in a workspace: where it takes its secrets from                *)
(* (src/mcp/server.rs, src/secret_resolver/), and the allowlist templates  *)
(* that the server, login and the refresh command copy from the broker     *)
(* into the cache (src/workspace/, src/cli/workspace.rs), any of them at   *)
(* any time and without a lock.                                            *)
(*                                                                         *)
(* The broker is external: it lists the templates as they are when it is   *)
(* asked, and refuses a JWT that has expired or whose holder is no longer  *)
(* a member.  How the session is renewed is WorkspaceTokens' subject; here *)
(* a renewal is one step.  The temporary files carry the number of their   *)
(* process, and nothing reads them.                                        *)
(***************************************************************************)
EXTENDS Naturals, FiniteSets

CONSTANTS Workspace, \* workspaces
          Template,  \* ids of templates in the broker's answers
          Unusable,  \* those that are no safe component of a path
          Shell,     \* terminals that run workspace commands
          Server,    \* the server
          Nil,      \* no session, no process, no answer
          MaxJwt, MaxVersion, MaxPasses, MaxCalls, MaxChanges \* wbounds

ASSUME UnusableIds == Unusable \subseteq Template

VARIABLES
  token,     \* per workspace: the JWT of its session file, or Nil
  stale,     \* per workspace: is the sentinel .stale_blocked there?
  copy,     \* per workspace and template: the version of the cached text, 0 for none
  etag,      \* per workspace and template: the version its sidecar names, 0 for none
  jwts,    \* JWTs issued so far
  live,      \* those the broker accepts
  member,    \* workspaces the user is a member of
  profile,   \* workspaces that have the profile of the calls
  published, \* per workspace and template: the version at the broker
  mode,      \* of the server: "down", "listed", "local" or "remote"
  bound,     \* its workspace; while it starts, those it has found
  held,      \* the JWT it holds in memory
  call,      \* the call in hand: its next step, its JWT, its answer
  pass,      \* per process: its pass over the templates
  passes, calls, changes, \* counters for the wbounds
  barred,    \* ghost: workspaces whose sentinel no whole pass has lifted
  whole,     \* ghost: per workspace, the list of its last whole pass
  crossed,   \* ghost: workspaces in which two passes were under way at once
  handed     \* ghost: workspaces whose secrets a call has been given

wdisk    == <<token, stale, copy, etag>>
cloud    == <<jwts, live, member, profile, published>>
wserver  == <<mode, bound, held, call>>
wbounds   == <<passes, calls, changes>>
wghosts   == <<barred, whole, crossed, handed>>
wsvars   == <<wdisk, cloud, wserver, pass, wbounds, wghosts>>

Process == Shell \cup {Server}
Nothing == [t \in Template |-> 0]
NoToolCall == [at |-> "none", jwt |-> Nil]
NoPass  == [at |-> "none", ws |-> Nil, jwt |-> Nil, list |-> Nothing,
            todo |-> {}, file |-> Nil, failed |-> FALSE]

(* What the broker makes of a JWT. *)
Admits(jwt) == jwt \in live /\ jwt.ws \in member

(* The bound on what the user and the broker do besides.                   *)
Change == changes < MaxChanges /\ changes' = changes + 1 /\ UNCHANGED <<passes, calls>>

NewJwt(w) == [ws |-> w, n |-> jwts + 1]

WsInit ==
  /\ \E signed_in \in SUBSET Workspace :
       /\ token = [w \in Workspace |-> IF w \in signed_in THEN [ws |-> w, n |-> 0] ELSE Nil]
       /\ live = {[ws |-> w, n |-> 0] : w \in signed_in}
  /\ \E b \in BOOLEAN : stale = [w \in Workspace |-> b]
  /\ copy = [w \in Workspace |-> Nothing] /\ etag = [w \in Workspace |-> Nothing]
  /\ jwts = 0 /\ member = Workspace /\ profile \in {{}, Workspace}
  /\ \E odd \in SUBSET Unusable :
       published = [w \in Workspace |-> [t \in Template |-> IF t \in Unusable \ odd THEN 0 ELSE 1]]
  /\ mode = "down" /\ bound = {} /\ held = Nil /\ call = NoToolCall
  /\ pass = [p \in Process |-> NoPass]
  /\ passes = 0 /\ calls = 0 /\ changes = 0
  /\ barred = {w \in Workspace : stale[w]} /\ whole = [w \in Workspace |-> Nothing]
  /\ crossed = {} /\ handed = {}

------------------------------------------------------------------------------
(* sync_once, one pass over the templates.                                 *)
StartPass(p, w, jwt) ==
  /\ pass[p] = NoPass /\ passes < MaxPasses
  /\ passes' = passes + 1
  /\ pass' = [pass EXCEPT ![p] = [NoPass EXCEPT !.at = "ask", !.ws = w, !.jwt = jwt]]
  /\ UNCHANGED <<calls, changes>>

At(p, step) == pass[p].at = step

EndPass(p) == pass' = [pass EXCEPT ![p] = NoPass]

(* The list is taken as it is when the broker answers.                     *)
Listed(p) ==
  LET w == pass[p].ws
      list == published[w]
  IN /\ At(p, "ask") /\ Admits(pass[p].jwt)
     /\ pass' = [pass EXCEPT ![p].at = "write", ![p].list = list,
                             ![p].todo = {t \in Template : list[t] > 0}]
     /\ crossed' = IF \E q \in Process \ {p} : pass[q].ws = w /\ pass[q].at \in {"write", "etag"}
                   THEN crossed \cup {w} ELSE crossed
     /\ UNCHANGED <<wdisk, cloud, wserver, wbounds, barred, whole, handed>>

(* 304, which only an answer to another question could be: no ETag is sent.*)
NotModified(p) ==
  /\ At(p, "ask") /\ Admits(pass[p].jwt)
  /\ stale' = [stale EXCEPT ![pass[p].ws] = FALSE]
  /\ barred' = barred \ {pass[p].ws}
  /\ EndPass(p)
  /\ UNCHANGED <<token, copy, etag, cloud, wserver, wbounds, whole, crossed, handed>>

(* Refused, or not reached: nothing on disk changes. *)
ListFails(p) ==
  /\ At(p, "ask") /\ EndPass(p)
  /\ UNCHANGED <<wdisk, cloud, wserver, wbounds, wghosts>>

Checked(p, t) == [pass[p] EXCEPT !.todo = @ \ {t}]

(* Variant: a template that is skipped does not count. *)
SkipTemplate(p) == \E t \in pass[p].todo :
  /\ At(p, "write")
  /\ pass' = [pass EXCEPT ![p] = Checked(p, t)]
  /\ UNCHANGED <<wdisk, cloud, wserver, wbounds, wghosts>>

(* An unusable id, and a file that cannot be written, count as failures.   *)
RejectTemplate(p) == \E t \in pass[p].todo :
  /\ At(p, "write")
  /\ pass' = [pass EXCEPT ![p] = [Checked(p, t) EXCEPT !.failed = TRUE]]
  /\ UNCHANGED <<wdisk, cloud, wserver, wbounds, wghosts>>

(* write_template_atomic and write_etag: the text, then what names its version. *)
WriteTemplate(p) == \E t \in pass[p].todo :
  /\ At(p, "write") /\ t \notin Unusable
  /\ copy' = [copy EXCEPT ![pass[p].ws][t] = pass[p].list[t]]
  /\ pass' = [pass EXCEPT ![p] = [Checked(p, t) EXCEPT !.at = "etag", !.file = t]]
  /\ UNCHANGED <<token, stale, etag, cloud, wserver, wbounds, wghosts>>

EtagDone(p) ==
  /\ At(p, "etag")
  /\ pass' = [pass EXCEPT ![p].at = "write", ![p].file = Nil]
  /\ UNCHANGED <<token, stale, copy, cloud, wserver, wbounds, wghosts>>

WriteEtag(p) ==
  /\ EtagDone(p)
  /\ etag' = [etag EXCEPT ![pass[p].ws][pass[p].file] = pass[p].list[pass[p].file]]

(* Its failure is ignored. *)
EtagFails(p) == EtagDone(p) /\ UNCHANGED etag

(* Only a fully successful pass recovers. *)
Recovers(p) == ~pass[p].failed

FinishPass(p) ==
  LET w == pass[p].ws IN
  /\ At(p, "write") /\ pass[p].todo = {}
  /\ stale' = [stale EXCEPT ![w] = @ /\ ~Recovers(p)]
  /\ barred' = IF pass[p].failed THEN barred ELSE barred \ {w}
  /\ whole' = IF pass[p].failed THEN whole ELSE [whole EXCEPT ![w] = pass[p].list]
  /\ EndPass(p)
  /\ UNCHANGED <<token, copy, etag, cloud, wserver, wbounds, crossed, handed>>

(* The process dies; the server with all its tasks. *)
ProcessDies(p) ==
  /\ p \in Shell => pass[p] # NoPass
  /\ p = Server => mode # "down"
  /\ EndPass(p)
  /\ IF p = Server THEN mode' = "down" /\ bound' = {} /\ held' = Nil /\ call' = NoToolCall
                   ELSE UNCHANGED wserver
  /\ UNCHANGED <<wdisk, cloud, wbounds, wghosts>>

------------------------------------------------------------------------------
(* The commands: login, the workspace commands, and logout.                *)

(* A new session is stored, then comes its first pass. *)
SignIn(p, w) ==
  /\ jwts < MaxJwt
  /\ jwts' = jwts + 1 /\ live' = live \cup {NewJwt(w)}
  /\ token' = [token EXCEPT ![w] = NewJwt(w)]
  /\ StartPass(p, w, NewJwt(w))
  /\ UNCHANGED <<stale, copy, etag, member, profile, published, wserver, wghosts>>

SignOut(w) ==
  /\ Change
  /\ token[w] # Nil /\ token' = [token EXCEPT ![w] = Nil]
  /\ UNCHANGED <<stale, copy, etag, cloud, wserver, pass, wghosts>>

(* list_active_sessions. *)
Active == {w \in Workspace : token[w] # Nil}

(* resolve_workspace_id: a workspace that is named, or the only one there is. *)
Resolved(w, named) == token[w] # Nil /\ (named \/ Active = {w})

RefreshAllowlists(p, w) == \E named \in BOOLEAN :
  /\ Resolved(w, named) /\ StartPass(p, w, token[w])
  /\ UNCHANGED <<wdisk, cloud, wserver, wghosts>>

(* The broker stores the profile; its answer changes nothing here.         *)
AddSecret(p, w) ==
  /\ Change
  /\ Resolved(w, TRUE) /\ pass[p] = NoPass
  /\ Admits(token[w]) /\ w \notin profile
  /\ profile' = profile \cup {w}
  /\ UNCHANGED <<wdisk, jwts, live, member, published, wserver, pass, wghosts>>

------------------------------------------------------------------------------
(* The server.  build_resolver lists the sessions and then loads one.      *)
ListSessions ==
  /\ mode = "down" /\ mode' = "listed" /\ bound' = Active
  /\ UNCHANGED <<wdisk, cloud, held, call, pass, wbounds, wghosts>>

Local ==
  /\ mode' = "local" /\ bound' = {} /\ held' = Nil
  /\ UNCHANGED <<wdisk, cloud, call, pass, wbounds, wghosts>>

ResolverFor(w) ==
  /\ token[w] # Nil
  /\ mode' = "remote" /\ bound' = {w} /\ held' = token[w]
  /\ UNCHANGED <<wdisk, cloud, call, pass, wbounds, wghosts>>

(* No session, or the only one has gone since the listing. *)
BindLocal ==
  /\ mode = "listed"
  /\ bound = {} \/ \E w \in Workspace : bound = {w} /\ token[w] = Nil
  /\ Local

(* The only session, or of several the one that the environment names. *)
BindRemote ==
  /\ mode = "listed"
  /\ \E w \in Workspace : (bound = {w} \/ Cardinality(bound) > 1) /\ ResolverFor(w)

(* The session is renewed in memory and on disk. *)
Renew ==
  /\ mode = "remote" /\ jwts < MaxJwt
  /\ \E w \in bound :
       /\ jwts' = jwts + 1 /\ live' = live \cup {NewJwt(w)}
       /\ token' = [token EXCEPT ![w] = NewJwt(w)] /\ held' = NewJwt(w)
  /\ UNCHANGED <<stale, copy, etag, member, profile, published, mode, bound, call,
                 pass, wbounds, wghosts>>

(* At its start and on every tick. *)
SyncTick ==
  /\ mode = "remote"
  /\ \E w \in bound : StartPass(Server, w, held)
  /\ UNCHANGED <<wdisk, cloud, wserver, wghosts>>

------------------------------------------------------------------------------
(* A tools/call that has been approved.                                    *)
CallGoes(step, jwt) ==
  /\ call' = [at |-> step, jwt |-> jwt]
  /\ UNCHANGED <<wdisk, cloud, mode, bound, held, pass, passes, changes>>

BeginCall ==
  /\ mode \in {"local", "remote"} /\ call.at = "none"
  /\ calls < MaxCalls /\ calls' = calls + 1
  /\ CallGoes("sentinel", Nil) /\ UNCHANGED wghosts

(* is_stale_blocked, of the server's workspace. *)
Blocked == \E w \in bound : stale[w]

AllowlistCacheStale ==
  /\ call.at = "sentinel" /\ Blocked
  /\ CallGoes("none", Nil) /\ UNCHANGED <<calls, wghosts>>

(* resolve: in a workspace the JWT is copied out of the shared session. *)
ResolveSecret ==
  /\ call.at = "sentinel" /\ ~Blocked
  /\ CallGoes("issue", held) /\ UNCHANGED <<calls, wghosts>>

GetSecret ==
  /\ call.at = "issue" /\ mode = "local"
  /\ CallGoes("none", Nil) /\ UNCHANGED <<calls, wghosts>>

IssueToken ==
  /\ call.at = "issue" /\ mode = "remote"
  /\ Admits(call.jwt) /\ call.jwt.ws \in profile
  /\ CallGoes("none", Nil)
  /\ handed' = handed \cup {call.jwt.ws}
  /\ UNCHANGED <<calls, barred, whole, crossed>>

(* 401, 403, 404, 410 and 429, an answer that is none, or no answer. *)
IssueRefused ==
  /\ call.at = "issue" /\ mode = "remote"
  /\ CallGoes("none", Nil) /\ UNCHANGED <<calls, wghosts>>

------------------------------------------------------------------------------
(* The broker and the identity provider.                                   *)
Expire(jwt) ==
  /\ Change
  /\ live' = live \ {jwt}
  /\ UNCHANGED <<wdisk, jwts, member, profile, published, wserver, pass, wghosts>>

Dismiss(w) ==
  /\ Change
  /\ member' = member \ {w}
  /\ UNCHANGED <<wdisk, jwts, live, profile, published, wserver, pass, wghosts>>

Publish(w, t) ==
  /\ Change
  /\ published[w][t] \in 1..(MaxVersion - 1)
  /\ published' = [published EXCEPT ![w][t] = @ + 1]
  /\ UNCHANGED <<wdisk, jwts, live, member, profile, wserver, pass, wghosts>>

------------------------------------------------------------------------------
PassStep(p) ==
  \/ Listed(p) \/ NotModified(p) \/ ListFails(p)
  \/ RejectTemplate(p) \/ WriteTemplate(p) \/ WriteEtag(p) \/ EtagFails(p)
  \/ FinishPass(p) \/ ProcessDies(p)

ShellCommand == \E p \in Shell, w \in Workspace :
  SignIn(p, w) \/ RefreshAllowlists(p, w) \/ AddSecret(p, w)

ServerStep ==
  \/ ListSessions \/ BindLocal \/ BindRemote \/ Renew \/ SyncTick
  \/ BeginCall \/ AllowlistCacheStale \/ ResolveSecret
  \/ GetSecret \/ IssueToken \/ IssueRefused

BrokerStep ==
  \/ \E jwt \in live : Expire(jwt)
  \/ \E w \in member : Dismiss(w)
  \/ \E w \in Workspace, t \in Template : Publish(w, t)

WsNext ==
  \/ \E p \in Process : PassStep(p)
  \/ ShellCommand \/ \E w \in Workspace : SignOut(w)
  \/ ServerStep \/ BrokerStep

WsSpec == WsInit /\ [][WsNext]_wsvars

------------------------------------------------------------------------------
(* Properties.                                                             *)

(* A sidecar never names a newer version than that of the text beside it,  *)
(* and the cache is at least as new as the list of the last whole pass,    *)
(* wherever a later pass failed or died, as long as no two passes over the *)
(* workspace crossed (allowlist_sync.rs:187: no lock, and each writes the  *)
(* list it was given).                                                     *)
CacheKeepsUp == \A w \in Workspace \ crossed, t \in Template :
  /\ etag[w][t] <= copy[w][t]
  /\ whole[w][t] <= copy[w][t]

(* In a workspace that was barred no secret is handed out before a pass in *)
(* which every template the broker listed could be used and was written,   *)
(* whichever process made it (allowlist_sync.rs:247-252).                  *)
NoneWhileBarred == handed \cap barred = {}

(* The templates on disk are those of the last whole pass or newer, and    *)
(* only a whole pass lifts the bar on the secrets.                         *)
BarredUntilWhole == CacheKeepsUp /\ NoneWhileBarred
=============================================================================
