---------------------------- MODULE WorkspaceTokens ----------------------------
(***************************************************************************)
(* The tokens of one workspace: the session file of src/session/store.rs,  *)
(* the servers that keep a copy of it in memory and renew it in the        *)
(* background (src/auth/refresh.rs), and the login and logout commands     *)
(* that replace and remove it without asking for the lock.                 *)
(*                                                                         *)
(* A session is abstracted to its refresh token and the instant the JWT    *)
(* expires; refresh tokens are numbered in the order the identity provider *)
(* issues them.  The provider either replaces the refresh token at every   *)
(* exchange or never does (parse_token_response accepts both).             *)
(***************************************************************************)
EXTENDS Integers, UnlinkableLock

CONSTANTS NoSession,   \* no session file; no session in memory
          Ttl,         \* life of a JWT
          Lead,        \* how long before its expiry a JWT is renewed
          MaxTime,     \* bound on the clock
          MaxToken     \* bound on the refresh tokens issued

ASSUME TokenConstants ==
  /\ Lead \in Nat /\ Ttl \in Nat /\ Lead < Ttl
  /\ MaxTime \in Nat /\ MaxToken \in Nat

VARIABLES
  now,       \* the wall clock
  rotates,   \* does the provider replace the refresh token at each exchange?
  issued,    \* number of refresh tokens the provider has issued
  alive,     \* refresh tokens it accepts
  lost,      \* tokens it revoked, or replaced in an answer nobody stored
  file,      \* <workspace>.token
  pc,        \* per server: the next step of refresh_if_needed
  held,      \* per server: the session in memory
  began,     \* per server: the clock when the refresh began
  reply,     \* per server: the refresh token of the provider's answer
  cli,       \* the next step of a running login or logout
  fresh,     \* the refresh token of that login
  loggedOut  \* did the last command to finish log out?

Token   == Nat \ {0}
NoToken == 0
Session == [refresh : Token, expires : Int]

ASSUME NoSessionIsNone == NoSession \notin Session

provider == <<rotates, issued, alive, lost>>
servers  == <<pc, held, began, reply>>
command  == <<cli, fresh, loggedOut>>
wvars    == <<now, provider, file, servers, command, lock>>

Busy == {s \in Proc : pc[s] \notin {"down", "idle"}}

(* The bound on tokens, so that no exchange that has begun meets it. *)
TokensLeft ==
  issued + Cardinality(Busy) + (IF cli = "authorize" THEN 1 ELSE 0) < MaxToken

TokensInit ==
  /\ now = 0
  /\ rotates \in BOOLEAN
  /\ issued = 0 /\ alive = {} /\ lost = {}
  /\ file = NoSession
  /\ pc = [s \in Proc |-> "down"]
  /\ held = [s \in Proc |-> NoSession]
  /\ began = [s \in Proc |-> 0]
  /\ reply = [s \in Proc |-> NoToken]
  /\ cli = "idle" /\ fresh = NoToken /\ loggedOut = FALSE
  /\ LockInit

Goto(s, label) == pc' = [pc EXCEPT ![s] = label]

------------------------------------------------------------------------------
(* A server's life and its background refresh.                               *)

(* mcp serve finds the session and loads it; without one it never refreshes. *)
Start(s) ==
  /\ pc[s] = "down"
  /\ file # NoSession
  /\ held' = [held EXCEPT ![s] = file]
  /\ Goto(s, "idle")
  /\ UNCHANGED <<now, provider, file, began, reply, command, lock>>

CloseToExpiry(session, t) == session.expires - t <= Lead

(* The clock is read once, before the lock is asked for. *)
BeginRefresh(s) ==
  /\ pc[s] = "idle"
  /\ CloseToExpiry(held[s], now)
  /\ TokensLeft
  /\ began' = [began EXCEPT ![s] = now]
  /\ Goto(s, "open-lock")
  /\ UNCHANGED <<now, provider, file, held, reply, command, lock>>

TakeLockFile(s) ==
  /\ pc[s] = "open-lock"
  /\ OpenLock(s)
  /\ Goto(s, "flock")
  /\ UNCHANGED <<now, provider, file, held, began, reply, command>>

WaitForLock(s) ==
  /\ pc[s] = "flock"
  /\ Flock(s)
  /\ Goto(s, "reread")
  /\ UNCHANGED <<now, provider, file, held, began, reply, command>>

(* refresh_if_needed returns: its guard is dropped, memory holds session. *)
Return(s, session) ==
  /\ Goto(s, "idle")
  /\ held' = [held EXCEPT ![s] = session]
  /\ began' = [began EXCEPT ![s] = 0]
  /\ reply' = [reply EXCEPT ![s] = NoToken]
  /\ CloseLock(s)

(* Variant: another token in the file is taken for a renewal. *)
PeerChangedToken(s) == file # NoSession /\ file.refresh # held[s].refresh

(* A peer has renewed the session while this server waited. *)
PeerRefreshed(s) == file # NoSession /\ ~ CloseToExpiry(file, began[s])

TakePeers(s) ==
  /\ pc[s] = "reread"
  /\ PeerRefreshed(s)
  /\ Return(s, file)
  /\ UNCHANGED <<now, provider, file, command, lockfile>>

(* No file, or one close to expiry: go to the provider, with the token in    *)
(* memory and not the one in the file.                                       *)
AskProvider(s) ==
  /\ pc[s] = "reread"
  /\ ~ PeerRefreshed(s)
  /\ Goto(s, "exchange")
  /\ UNCHANGED <<now, provider, file, held, began, reply, command, lock>>

(* The provider accepts the token and answers with the next or no new one. *)
Accept(s) ==
  LET presented == held[s].refresh
  IN  /\ pc[s] = "exchange"
      /\ presented \in alive
      /\ IF rotates
           THEN /\ issued' = issued + 1
                /\ alive' = (alive \ {presented}) \cup {issued'}
                /\ reply' = [reply EXCEPT ![s] = issued']
           ELSE /\ reply' = [reply EXCEPT ![s] = NoToken]
                /\ UNCHANGED <<issued, alive>>
      /\ Goto(s, "persist")
      /\ UNCHANGED <<now, rotates, lost, file, held, began, command, lock>>

Reject(s) ==
  /\ pc[s] = "exchange"
  /\ held[s].refresh \notin alive
  /\ Goto(s, "delete")
  /\ UNCHANGED <<now, provider, file, held, began, reply, command, lock>>

(* Variant: the refresh token in memory is carried over in any case. *)
RenewedWithOldToken(s) == [refresh |-> held[s].refresh, expires |-> began[s] + Ttl]

(* from_token_set: an answer without a refresh token keeps the one presented. *)
Renewed(s) ==
  [refresh |-> IF reply[s] = NoToken THEN held[s].refresh ELSE reply[s],
   expires |-> began[s] + Ttl]

Persist(s) ==
  /\ pc[s] = "persist"
  /\ file' = Renewed(s)
  /\ Goto(s, "adopt")
  /\ UNCHANGED <<now, provider, held, began, reply, command, lock>>

(* Between the rename and the copy to memory the file's mode may fail to set. *)
Adopt(s) ==
  /\ pc[s] = "adopt"
  /\ Return(s, Renewed(s))
  /\ UNCHANGED <<now, provider, file, command, lockfile>>

(* invalid_grant: SessionState::delete removes the file, then the lock file. *)
DeleteFile(s) ==
  /\ pc[s] = "delete"
  /\ file' = NoSession
  /\ Goto(s, "delete-lock")
  /\ UNCHANGED <<now, provider, held, began, reply, command, lock>>

(* Variant: the guard is leaked with the early return. *)
DeleteLockHeld(s) ==
  /\ pc[s] = "delete-lock"
  /\ Unlink
  /\ Goto(s, "idle")
  /\ began' = [began EXCEPT ![s] = 0]
  /\ UNCHANGED <<now, provider, file, held, reply, command, opened, flocked>>

DeleteLock(s) ==
  /\ pc[s] = "delete-lock"
  /\ Unlink
  /\ Return(s, held[s])
  /\ UNCHANGED <<now, provider, file, command>>

(* The token a server leaves behind spent when it goes away with the answer  *)
(* not yet stored.                                                           *)
Wasted(s) == IF pc[s] = "persist" /\ rotates THEN {held[s].refresh} ELSE {}

(* Discovery, the exchange or a file operation fails: logged, tried again at *)
(* the next tick.  An answer that gets lost is the failure of "persist".     *)
Fail(s) ==
  /\ s \in Busy
  /\ lost' = lost \cup Wasted(s)
  /\ Return(s, held[s])
  /\ UNCHANGED <<now, rotates, issued, alive, file, command, lockfile>>

(* The server exits or dies, at any step. *)
Stop(s) ==
  /\ pc[s] # "down"
  /\ lost' = lost \cup Wasted(s)
  /\ Goto(s, "down")
  /\ held' = [held EXCEPT ![s] = NoSession]
  /\ began' = [began EXCEPT ![s] = 0]
  /\ reply' = [reply EXCEPT ![s] = NoToken]
  /\ CloseLock(s)
  /\ UNCHANGED <<now, rotates, issued, alive, file, command, lockfile>>

------------------------------------------------------------------------------
(* login and logout, one command at a time; neither takes the lock.          *)

Login ==
  /\ cli = "idle"
  /\ TokensLeft
  /\ cli' = "authorize"
  /\ UNCHANGED <<now, provider, file, servers, fresh, loggedOut, lock>>

Authorize ==
  /\ cli = "authorize"
  /\ issued' = issued + 1
  /\ alive' = alive \cup {issued'}
  /\ fresh' = issued'
  /\ cli' = "login"
  /\ UNCHANGED <<now, rotates, lost, file, servers, loggedOut, lock>>

StoreLogin ==
  /\ cli = "login"
  /\ file' = [refresh |-> fresh, expires |-> now + Ttl]
  /\ cli' = "idle" /\ fresh' = NoToken /\ loggedOut' = FALSE
  /\ UNCHANGED <<now, provider, servers, lock>>

(* SessionState::delete, as in DeleteFile and DeleteLock. *)
Logout ==
  /\ cli = "idle"
  /\ file' = NoSession
  /\ cli' = "logout"
  /\ UNCHANGED <<now, provider, servers, fresh, loggedOut, lock>>

LogoutLock ==
  /\ cli = "logout"
  /\ Unlink
  /\ cli' = "idle" /\ loggedOut' = TRUE
  /\ UNCHANGED <<now, provider, file, servers, fresh, opened, flocked>>

(* The command fails or is interrupted. *)
Interrupt ==
  /\ cli # "idle"
  /\ cli' = "idle" /\ fresh' = NoToken
  /\ UNCHANGED <<now, provider, file, servers, loggedOut, lock>>

------------------------------------------------------------------------------
(* The world outside.                                                        *)

(* An administrator revokes a token, or its thirty days are over. *)
Revoke(t) ==
  /\ t \in alive
  /\ alive' = alive \ {t}
  /\ lost' = lost \cup {t}
  /\ UNCHANGED <<now, rotates, issued, file, servers, command, lock>>

Tick ==
  /\ now < MaxTime
  /\ now' = now + 1
  /\ UNCHANGED <<provider, file, servers, command, lock>>

------------------------------------------------------------------------------
RefreshStep(s) ==
  \/ TakeLockFile(s) \/ WaitForLock(s) \/ TakePeers(s) \/ AskProvider(s)
  \/ Accept(s) \/ Reject(s) \/ Persist(s) \/ Adopt(s) \/ DeleteFile(s) \/ DeleteLock(s)

ServerStep(s) == Start(s) \/ BeginRefresh(s) \/ RefreshStep(s) \/ Fail(s) \/ Stop(s)

CommandStep == Login \/ Authorize \/ StoreLogin \/ Logout \/ LogoutLock \/ Interrupt

TokensNext ==
  \/ \E s \in Proc : ServerStep(s)
  \/ CommandStep
  \/ \E t \in alive : Revoke(t)
  \/ Tick

(* A refresh that has begun goes on: the kernel serves the waiters of a      *)
(* flock in turn, and every request to the provider has a timeout.           *)
TokensSpec ==
  /\ TokensInit /\ [][TokensNext]_wvars
  /\ \A s \in Proc : SF_wvars(RefreshStep(s))
------------------------------------------------------------------------------
(* Properties.                                                               *)

Label == {"down", "idle", "open-lock", "flock", "reread", "exchange", "persist", "adopt",
          "delete", "delete-lock"}

Holding == {"reread", "exchange", "persist", "adopt", "delete", "delete-lock"}

(* Every variable holds a value of its kind: a server that is up has a       *)
(* session, one between re-reading the file and returning holds the flock of *)
(* a lock file it has opened, and no two of them of the same one             *)
(* (store.rs, acquire_lock and SessionLockGuard).                            *)
TokensTypeOK ==
  /\ now \in Nat /\ issued \in Nat
  /\ alive \subseteq 1..issued /\ lost \subseteq 1..issued
  /\ file \in Session \cup {NoSession}
  /\ pc \in [Proc -> Label]
  /\ held \in [Proc -> Session \cup {NoSession}]
  /\ began \in [Proc -> Nat] /\ reply \in [Proc -> Nat]
  /\ cli \in {"idle", "authorize", "login", "logout"} /\ fresh \in Nat
  /\ \A s \in Proc : pc[s] # "down" => held[s] # NoSession
  /\ LockTypeOK
  /\ \A s \in Proc : pc[s] \in Holding <=> s \in flocked
  /\ \A s \in Proc : pc[s] \in Holding \cup {"flock"} <=> opened[s] # NoInode
  /\ HoldersDiffer

(* A renewal never throws the session away: unless the provider revoked it   *)
(* or an answer was lost, the refresh token in the file is one the provider  *)
(* still accepts, or a server is about to replace it by its successor; with  *)
(* the lock file unlinked under the holders as well (refresh.rs:87-101).     *)
TokenOnDiskUsable ==
  file # NoSession =>
    file.refresh \in alive \cup lost \cup {held[s].refresh : s \in {t \in Proc : pc[t] = "persist"}}

(* What a server holds in memory is only ever replaced by a session that     *)
(* expires later: what it takes from a peer or from the provider is newer    *)
(* than what it had, whoever wrote the file last (refresh.rs:61-66, 102).    *)
SessionOnlyRenewed ==
  [][ \A s \in Proc : held[s] # NoSession /\ held'[s] \notin {NoSession, held[s]}
        => held'[s].expires > held[s].expires ]_wvars

(* Every refresh begun comes to an end: no server waits for the flock for    *)
(* ever, whoever else fails, dies or deletes the lock file.                  *)
EveryRefreshEnds == \A s \in Proc : s \in Busy ~> s \notin Busy

(* After a logout the workspace has no session file until somebody logs in   *)
(* again: logout "deletes <workspace>.token" (docs/workspace-mode.md:134-135). *)
LogoutSticks == loggedOut => file = NoSession
===============================================================================
