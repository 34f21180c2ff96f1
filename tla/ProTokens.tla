------------------------------- MODULE ProTokens -------------------------------
(***************************************************************************)
(* The Pro session (src/auth/pro_refresh.rs): the access, id and refresh   *)
(* tokens and the client's id, a file each.  Every backup or notifs call   *)
(* renews tokens close to expiry first (src/cli/backup.rs,                 *)
(* src/cli/notifs.rs), login --pro replaces all four files                 *)
(* (src/cli/login.rs) and logout removes two of them without the lock      *)
(* (src/cli/logout.rs).                                                    *)
(*                                                                         *)
(* Every file is replaced by a rename of a temporary file of its own, in   *)
(* one step.  A token is abstracted to the login it descends from and, for *)
(* access and id tokens, how far it is from its expiry.                    *)
(***************************************************************************)
EXTENDS Naturals, FiniteSets, Sequences, SequencesExt

CONSTANTS Terminal,    \* terminals running a kvendra command
          Client,      \* OIDC clients the environment may name
          None,        \* no file, no token, nobody
          MaxToken,    \* bound on the refresh tokens issued
          MaxTicks,    \* bound on the passing of time
          MaxLogouts   \* bound on the logouts begun

ASSUME NobodyIsNoTerminal == None \notin Terminal

VARIABLES
  client, refresh, access, id, \* the four files
  holder,      \* who holds the flock on pro.token.lock
  work,        \* per terminal: what its command is doing
  rotates,     \* does the provider replace the refresh token at each exchange?
  issued,      \* number of refresh tokens issued
  alive,       \* refresh tokens the provider accepts
  ticks, logouts, \* so far
  lost,        \* ghost: tokens revoked, or replaced in an answer nobody stored
  half         \* ghost: has a login died with only some of its files written?

files  == <<client, refresh, access, id>>
idp    == <<rotates, issued, alive>>
vars   == <<files, holder, work, idp, ticks, logouts, lost, half>>

Idle == [op |-> "none", at |-> "idle", todo |-> <<>>]

(* jwt_exp is within the lead of now for the access or for the id token.     *)
NeedsRefresh == \E t \in {access, id} : t # None /\ t.age # "fresh"

TokensLeft ==
  issued + Cardinality({p \in Terminal : work[p].op = "refresh"}) < MaxToken

Go(p, at) == work' = [work EXCEPT ![p].at = at]

(* The command ends, and its guard is dropped. *)
Leave(p) ==
  /\ work' = [work EXCEPT ![p] = Idle]
  /\ holder' = IF holder = p THEN None ELSE holder

------------------------------------------------------------------------------
(* refresh_pro_before_call.                                                  *)

(* Nothing happens unless a token is close to expiry and there is one to     *)
(* renew it with.                                                            *)
(* The client is looked up before the lock is asked for; a session without   *)
(* one is renewed with that of the environment.                              *)
BeginRefresh(p) ==
  /\ work[p] = Idle /\ NeedsRefresh /\ refresh # None /\ TokensLeft
  /\ \E c \in IF client = None THEN Client ELSE {client} :
       work' = [work EXCEPT ![p] = [op |-> "refresh", at |-> "lock", todo |-> <<>>, client |-> c, token |-> None]]
  /\ UNCHANGED <<files, holder, idp, ticks, logouts, lost, half>>

Lock(p) ==
  /\ work[p].at = "lock" /\ holder = None
  /\ holder' = p
  /\ Go(p, IF work[p].op = "login" THEN work[p].todo[1] ELSE "reread")
  /\ UNCHANGED <<files, idp, ticks, logouts, lost, half>>

(* A peer has renewed the tokens, or removed the refresh token. *)
Skip(p) ==
  /\ work[p].at = "reread"
  /\ ~NeedsRefresh \/ refresh = None
  /\ Leave(p)
  /\ UNCHANGED <<files, idp, ticks, logouts, lost, half>>

(* Under the lock the token is read again. *)
Reread(p) ==
  /\ work[p].at = "reread" /\ NeedsRefresh /\ refresh # None
  /\ work' = [work EXCEPT ![p].at = "exchange", ![p].token = refresh]
  /\ UNCHANGED <<files, holder, idp, ticks, logouts, lost, half>>

(* Variant: the access token is written before the refresh token. *)
RenewedFilesAccessFirst(new, with_id) ==
  <<"access">> \o (IF new THEN <<"refresh">> ELSE <<>>) \o (IF with_id THEN <<"id">> ELSE <<>>)

(* The files an answer changes: the refresh token if it is a new one, the    *)
(* id token if there is one.                                                 *)
RenewedFiles(new, with_id) ==
  (IF new THEN <<"refresh">> ELSE <<>>) \o <<"access">> \o (IF with_id THEN <<"id">> ELSE <<>>)

(* The provider accepts a token from the client it was issued to.            *)
Accepted(p) == work[p].token \in alive /\ work[p].token.client = work[p].client

NextToken(p) == IF rotates THEN [work[p].token EXCEPT !.n = issued + 1] ELSE work[p].token

Rotate(p) ==
  /\ issued' = IF rotates THEN issued + 1 ELSE issued
  /\ alive' = (alive \ {work[p].token}) \cup {NextToken(p)}
  /\ UNCHANGED rotates

Exchange(p) ==
  /\ work[p].at = "exchange" /\ Accepted(p)
  /\ Rotate(p)
  /\ \E with_id \in BOOLEAN :
       LET todo == RenewedFiles(NextToken(p) # work[p].token, with_id) IN
       work' = [work EXCEPT ![p] = [op |-> "refresh", at |-> todo[1], todo |-> todo, client |-> work[p].client,
                                    token |-> NextToken(p), old |-> work[p].token, all |-> todo]]
  /\ UNCHANGED <<files, holder, ticks, logouts, lost, half>>

(* The provider is out of reach, or its answer is. *)
ExchangeFails(p) ==
  /\ work[p].at = "exchange"
  /\ \/ UNCHANGED <<idp, lost>>
     \/ /\ Accepted(p) /\ Rotate(p)
        /\ lost' = IF rotates THEN lost \cup {work[p].token} ELSE lost
  /\ Leave(p)
  /\ UNCHANGED <<files, ticks, logouts, half>>

(* invalid_grant: the refresh token goes, whatever it is by now. *)
Rejected(p) ==
  /\ work[p].at = "exchange" /\ ~Accepted(p)
  /\ refresh' = None
  /\ Leave(p)
  /\ UNCHANGED <<client, access, id, idp, ticks, logouts, lost, half>>

------------------------------------------------------------------------------
(* login --pro: the provider issues the tokens of a new session, with or     *)
(* without a refresh token.                                                  *)
LoginFiles == <<"client", "refresh", "access", "id">>

Login(p, c) ==
  /\ work[p] = Idle /\ TokensLeft
  /\ issued' = issued + 1
  /\ \E offline \in BOOLEAN :
       LET token == [n |-> issued', grant |-> issued', client |-> c] IN
       /\ alive' = IF offline THEN alive \cup {token} ELSE alive
       /\ work' = [work EXCEPT ![p] = [op |-> "login", at |-> "lock", todo |-> LoginFiles, client |-> c,
                                       token |-> token, offline |-> offline]]
  /\ UNCHANGED <<files, holder, rotates, ticks, logouts, lost, half>>

------------------------------------------------------------------------------
(* A file is written, and the next one is due.                               *)
Written(p) ==
  IF Len(work[p].todo) = 1 THEN Leave(p)
  ELSE /\ work' = [work EXCEPT ![p].at = work[p].todo[2], ![p].todo = Tail(@)]
       /\ UNCHANGED holder

StoreClient(p) ==
  /\ work[p].at = "client"
  /\ client' = work[p].client
  /\ Written(p)
  /\ UNCHANGED <<refresh, access, id, idp, ticks, logouts, lost, half>>

(* A login that got no refresh token removes the one there is. *)
StoreRefresh(p) ==
  /\ work[p].at = "refresh"
  /\ refresh' = IF work[p].op = "login" /\ ~work[p].offline THEN None ELSE work[p].token
  /\ Written(p)
  /\ UNCHANGED <<client, access, id, idp, ticks, logouts, lost, half>>

Jwt(p) == [grant |-> work[p].token.grant, age |-> "fresh"]

StoreAccess(p) ==
  /\ work[p].at = "access"
  /\ access' = Jwt(p)
  /\ Written(p)
  /\ UNCHANGED <<client, refresh, id, idp, ticks, logouts, lost, half>>

StoreId(p) ==
  /\ work[p].at = "id"
  /\ id' = Jwt(p)
  /\ half' = (half /\ work[p].op # "login")
  /\ Written(p)
  /\ UNCHANGED <<client, refresh, access, idp, ticks, logouts, lost>>

(* A file cannot be written, or the process dies: the flock goes with it.    *)
Dies(p) ==
  /\ work[p] # Idle
  /\ Leave(p)
  /\ lost' = IF work[p].op = "refresh" /\ "refresh" \in ToSet(work[p].todo) /\ work[p].todo = work[p].all
             THEN lost \cup {work[p].old} ELSE lost
  /\ half' = (half \/ (work[p].op = "login" /\ work[p].todo # LoginFiles))
  /\ UNCHANGED <<files, idp, ticks, logouts>>

------------------------------------------------------------------------------
(* logout: the id token, then the refresh token; no lock is asked for.       *)
Logout(p) ==
  /\ work[p] = Idle /\ logouts < MaxLogouts
  /\ logouts' = logouts + 1
  /\ id' = None
  /\ work' = [work EXCEPT ![p] = [Idle EXCEPT !.op = "logout", !.at = "remove-refresh"]]
  /\ UNCHANGED <<client, refresh, access, holder, idp, ticks, lost, half>>

RemoveRefresh(p) ==
  /\ work[p].at = "remove-refresh"
  /\ refresh' = None
  /\ Leave(p)
  /\ UNCHANGED <<client, access, id, idp, ticks, logouts, lost, half>>

------------------------------------------------------------------------------
(* Tokens come closer to their expiry; the provider revokes a token.         *)
Older(t) == IF t = None THEN None
            ELSE [t EXCEPT !.age = IF @ = "fresh" THEN "due" ELSE "expired"]

Tick ==
  /\ ticks < MaxTicks /\ ticks' = ticks + 1
  /\ access' = Older(access) /\ id' = Older(id)
  /\ UNCHANGED <<client, refresh, holder, work, idp, logouts, lost, half>>

Revoke ==
  /\ \E t \in alive : alive' = alive \ {t} /\ lost' = lost \cup {t}
  /\ UNCHANGED <<files, holder, work, rotates, issued, ticks, logouts, half>>

Init ==
  /\ client = None /\ refresh = None /\ access = None /\ id = None
  /\ holder = None
  /\ work = [p \in Terminal |-> Idle]
  /\ rotates \in BOOLEAN
  /\ issued = 0 /\ alive = {} /\ ticks = 0 /\ logouts = 0 /\ lost = {} /\ half = FALSE

Next ==
  \/ \E p \in Terminal :
       \/ BeginRefresh(p) \/ Lock(p) \/ Skip(p) \/ Reread(p)
       \/ Exchange(p) \/ ExchangeFails(p) \/ Rejected(p)
       \/ \E c \in Client : Login(p, c)
       \/ StoreClient(p) \/ StoreRefresh(p) \/ StoreAccess(p) \/ StoreId(p) \/ Dies(p)
       \/ Logout(p) \/ RemoveRefresh(p)
  \/ Tick \/ Revoke

Spec == Init /\ [][Next]_vars

------------------------------------------------------------------------------
(* Properties.                                                               *)

Writing(p) == holder = p /\ work[p].todo # <<>>

(* The refresh token on disk is one the provider accepts from the client on  *)
(* disk, or one whose replacement is about to be written or was lost, with   *)
(* the answer or with the process before it wrote any file, or a revoked one.*)
TokenUsable ==
  refresh = None \/ refresh \in lost \/ (refresh \in alive /\ refresh.client = client)
    \/ \E p \in Terminal : Writing(p) /\ "refresh" \in ToSet(work[p].todo)

(* The tokens on disk descend from one login. *)
OneLogin ==
  \/ \A x, y \in {refresh, access, id} \ {None} : x.grant = y.grant
  \/ \E p \in Terminal : Writing(p) /\ work[p].op = "login"

(* Between any refreshes, logins and logouts, in whatever order they wait    *)
(* for the lock and wherever one dies (pro_refresh.rs:217), the four files   *)
(* are one session that can be renewed, until a login stops half way.        *)
SessionWhole == half \/ (TokenUsable /\ OneLogin)
================================================================================
