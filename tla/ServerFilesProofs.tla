--------------------------- MODULE ServerFilesProofs ---------------------------
(***************************************************************************)
(* Proofs about the files that the servers of one home share with the      *)
(* owner's commands.  WorkspaceTokens, for every set of servers and lock   *)
(* files, every life and lead and every number of tokens: the state stays  *)
(* well formed, no renewal leaves a spent refresh token on disk, and no    *)
(* server replaces its session by an older one.  Profiles, for every set   *)
(* of terminals, servers and allowlists: what the owner or a server last   *)
(* decided of a profile holds.  Detection, which decides of a call whether  *)
(* its profile is quarantined, for every text, budget and measure of       *)
(* entropy: the text is redacted exactly.                                  *)
(***************************************************************************)
EXTENDS WorkspaceTokens, Profiles, Detection, SequenceTheorems, FiniteSetTheorems,
        WellFoundedInduction, TLAPS

(* What the tokens, sessions and control points are. *)
ValuesOK ==
  /\ now \in Nat /\ issued \in Nat
  /\ alive \subseteq 1..issued /\ lost \subseteq 1..issued
  /\ file \in Session \cup {NoSession}
  /\ pc \in [Proc -> Label]
  /\ held \in [Proc -> Session \cup {NoSession}]
  /\ began \in [Proc -> Nat] /\ reply \in [Proc -> Nat]
  /\ cli \in {"idle", "authorize", "login", "logout"} /\ fresh \in Nat
  /\ \A s \in Proc : pc[s] # "down" => held[s] # NoSession

(* Who has opened and who holds a lock file. *)
LockOK ==
  /\ pc \in [Proc -> Label]
  /\ LockTypeOK
  /\ \A s \in Proc : pc[s] \in Holding <=> s \in flocked
  /\ \A s \in Proc : pc[s] \in Holding \cup {"flock"} <=> opened[s] # NoInode
  /\ HoldersDiffer

(* The session in memory was close to expiry when the refresh began, and a   *)
(* server that is down has none.                                             *)
BegunInTime ==
  /\ \A s \in Busy : held[s].expires - began[s] <= Lead
  /\ \A s \in Proc : pc[s] = "down" => held[s] = NoSession

(* Every refresh token in use is one that was issued. *)
TokensIssued ==
  /\ file # NoSession => file.refresh <= issued
  /\ \A s \in Proc : held[s] # NoSession => held[s].refresh <= issued
  /\ \A s \in Proc : reply[s] <= issued
  /\ fresh <= issued

(* A token the provider has issued and the asker not stored yet: accepted,   *)
(* unless revoked, and known to nobody else.                                 *)
NewToken(t) ==
  /\ t \in alive \cup lost
  /\ file # NoSession => file.refresh # t
  /\ \A s \in Proc : held[s] # NoSession => held[s].refresh # t

AnswersGood ==
  \A s \in Proc : pc[s] = "persist" =>
    IF rotates
      THEN /\ NewToken(reply[s])
           /\ \A t \in Proc \ {s} : reply[t] # reply[s]
      ELSE reply[s] = NoToken /\ held[s].refresh \in alive \cup lost

LoginGood ==
  cli = "login" => /\ fresh \in Token /\ NewToken(fresh)
                   /\ \A s \in Proc : reply[s] # fresh

TokensInv ==
  /\ ValuesOK
  /\ LockOK
  /\ BegunInTime
  /\ TokensIssued
  /\ AnswersGood
  /\ LoginGood
  /\ TokenOnDiskUsable

------------------------------------------------------------------------------
(* The lock.                                                                 *)

(* Steps that move a server without touching the lock. *)
SameSide(l, m) == /\ l \in Holding <=> m \in Holding
                  /\ l = "flock" <=> m = "flock"

LEMMA MoveKeepsLock ==
  ASSUME LockOK, NEW s \in Proc, NEW label \in Label, Goto(s, label),
         SameSide(pc[s], label), UNCHANGED <<opened, flocked>>,
         lockfile' \in Inode \cup {NoInode}
  PROVE  LockOK'
BY DEF LockOK, Goto, SameSide, LockTypeOK, HoldersDiffer

(* A server that opened a lock file gives it back, or one that holds none    *)
(* stays as it is.                                                           *)
LEMMA CloseKeepsLock ==
  ASSUME LockOK, NEW s \in Proc, NEW label \in {"idle", "down"}, Goto(s, label),
         CloseLock(s), lockfile' \in Inode \cup {NoInode}
  PROVE  LockOK'
BY LockConstants DEF LockOK, Goto, CloseLock, LockTypeOK, HoldersDiffer, Holding, Label

LEMMA TakeKeepsLock ==
  ASSUME LockOK, NEW s \in Proc, TakeLockFile(s)
  PROVE  LockOK'
<1>1. lockfile' \in Inode
  BY DEF TakeLockFile, OpenLock, Unused, LockOK, LockTypeOK
<1> QED
  BY <1>1, LockConstants
  DEF TakeLockFile, OpenLock, LockOK, Goto, LockTypeOK, HoldersDiffer, Holding, Label

LEMMA WaitKeepsLock ==
  ASSUME LockOK, NEW s \in Proc, WaitForLock(s)
  PROVE  LockOK'
BY DEF WaitForLock, Flock, LockOK, Goto, LockTypeOK, HoldersDiffer, Holding, Label

LEMMA LockKept ==
  ASSUME LockOK, [TokensNext]_wvars
  PROVE  LockOK'
<1> USE DEF lock
<1>0. lockfile \in Inode \cup {NoInode}
  BY DEF LockOK, LockTypeOK
<1>1. ASSUME NEW s \in Proc, ServerStep(s)
      PROVE  LockOK'
  <2>1. CASE Start(s)
    BY <1>0, <2>1, MoveKeepsLock DEF Start, SameSide, Label, Holding
  <2>2. CASE BeginRefresh(s)
    BY <1>0, <2>2, MoveKeepsLock DEF BeginRefresh, SameSide, Label, Holding
  <2>3. CASE TakeLockFile(s)
    BY <2>3, TakeKeepsLock
  <2>4. CASE WaitForLock(s)
    BY <2>4, WaitKeepsLock
  <2>5. CASE TakePeers(s)
    BY <1>0, <2>5, CloseKeepsLock DEF TakePeers, Return
  <2>6. CASE AskProvider(s)
    BY <1>0, <2>6, MoveKeepsLock DEF AskProvider, SameSide, Label, Holding
  <2>7. CASE Accept(s)
    BY <1>0, <2>7, MoveKeepsLock DEF Accept, SameSide, Label, Holding
  <2>8. CASE Reject(s)
    BY <1>0, <2>8, MoveKeepsLock DEF Reject, SameSide, Label, Holding
  <2>9. CASE Persist(s)
    BY <1>0, <2>9, MoveKeepsLock DEF Persist, SameSide, Label, Holding
  <2>10. CASE Adopt(s)
    BY <1>0, <2>10, CloseKeepsLock DEF Adopt, Return
  <2>11. CASE DeleteFile(s)
    BY <1>0, <2>11, MoveKeepsLock DEF DeleteFile, SameSide, Label, Holding
  <2>12. CASE DeleteLock(s)
    BY <2>12, CloseKeepsLock DEF DeleteLock, Return, Unlink
  <2>13. CASE Fail(s)
    BY <1>0, <2>13, CloseKeepsLock DEF Fail, Return
  <2>14. CASE Stop(s)
    BY <1>0, <2>14, CloseKeepsLock DEF Stop
  <2> QED
    BY <1>1, <2>1, <2>2, <2>3, <2>4, <2>5, <2>6, <2>7, <2>8, <2>9, <2>10, <2>11, <2>12,
       <2>13, <2>14 DEF ServerStep, RefreshStep
<1>2. CASE CommandStep
  <2>1. pc' = pc /\ opened' = opened /\ flocked' = flocked
        /\ lockfile' \in Inode \cup {NoInode}
    BY <1>0, <1>2
    DEF CommandStep, Login, Authorize, StoreLogin, Logout, LogoutLock, Interrupt, Unlink,
        servers
  <2> QED
    BY <2>1 DEF LockOK, LockTypeOK, HoldersDiffer
<1>3. CASE Tick \/ (\E t \in alive : Revoke(t)) \/ UNCHANGED wvars
  <2>1. pc' = pc /\ UNCHANGED lock
    BY <1>3 DEF Tick, Revoke, wvars, servers
  <2> QED
    BY <2>1 DEF LockOK, LockTypeOK, HoldersDiffer
<1> QED
  BY <1>1, <1>2, <1>3 DEF TokensNext

------------------------------------------------------------------------------
(* Tokens and sessions, step by step.                                        *)

SafeInv == ValuesOK /\ BegunInTime /\ TokensIssued /\ AnswersGood /\ LoginGood /\ TokenOnDiskUsable

(* Before the first login there is no token and no session.                  *)
LEMMA InitTokensInv == TokensInit => TokensInv
<1> SUFFICES ASSUME TokensInit PROVE TokensInv
  OBVIOUS
<1>1. ValuesOK
  BY TokenConstants DEF TokensInit, ValuesOK, Label, NoToken
<1>2. LockOK
  BY DEF TokensInit, LockInit, LockOK, LockTypeOK, HoldersDiffer, Label, Holding
<1>3. BegunInTime /\ TokensIssued /\ AnswersGood /\ LoginGood /\ TokenOnDiskUsable
  BY DEF TokensInit, BegunInTime, Busy, TokensIssued, NoToken, AnswersGood, LoginGood,
         TokenOnDiskUsable
<1> QED
  BY <1>1, <1>2, <1>3 DEF TokensInv

(* A server starts with the file's session. *)
LEMMA StartSafe ==
  ASSUME SafeInv, NEW s \in Proc, Start(s)
  PROVE  SafeInv'
<1> USE DEF SafeInv, ValuesOK, Start, Goto, provider, command
<1>1. ValuesOK'
  BY DEF Label
<1>2. BegunInTime' /\ TokensIssued'
  BY DEF BegunInTime, Busy, TokensIssued
<1>3. AnswersGood' /\ LoginGood'
  BY DEF AnswersGood, LoginGood, NewToken
<1>4. TokenOnDiskUsable'
  BY DEF TokenOnDiskUsable
<1> QED
  BY <1>1, <1>2, <1>3, <1>4

(* A step of a refresh that changes neither tokens nor sessions. *)
Quiet(s, from, to) ==
  /\ pc[s] = from /\ Goto(s, to)
  /\ UNCHANGED <<now, provider, file, held, reply, command>>

LEMMA QuietSafe ==
  ASSUME SafeInv, NEW s \in Proc, NEW from \in Label \ {"down", "persist"},
         NEW to \in Label \ {"down", "persist", "idle"}, Quiet(s, from, to),
         began' \in [Proc -> Nat], \A t \in Proc \ {s} : began'[t] = began[t],
         held[s].expires - began'[s] <= Lead
  PROVE  SafeInv'
<1> USE DEF SafeInv, ValuesOK, Quiet, Goto, provider, command
<1>1. ValuesOK'
  OBVIOUS
<1>2. BegunInTime' /\ TokensIssued'
  BY DEF BegunInTime, Busy, TokensIssued
<1>3. AnswersGood' /\ LoginGood'
  BY DEF AnswersGood, LoginGood, NewToken
<1>4. TokenOnDiskUsable'
  BY DEF TokenOnDiskUsable
<1> QED
  BY <1>1, <1>2, <1>3, <1>4

LEMMA BeginSafe ==
  ASSUME SafeInv, NEW s \in Proc, BeginRefresh(s)
  PROVE  SafeInv'
<1>1. Quiet(s, "idle", "open-lock")
  BY DEF BeginRefresh, Quiet
<1>2. began' \in [Proc -> Nat] /\ began'[s] = now /\ \A t \in Proc \ {s} : began'[t] = began[t]
  BY DEF BeginRefresh, SafeInv, ValuesOK
<1>3. held[s].expires - now <= Lead
  BY DEF BeginRefresh, CloseToExpiry
<1> QED
  BY <1>1, <1>2, <1>3, QuietSafe DEF Label

LEMMA WaitingSafe ==
  ASSUME SafeInv, NEW s \in Proc,
         TakeLockFile(s) \/ WaitForLock(s) \/ AskProvider(s) \/ Reject(s)
  PROVE  SafeInv'
<1>1. held[s].expires - began[s] <= Lead
  BY DEF TakeLockFile, WaitForLock, AskProvider, Reject, SafeInv, BegunInTime, Busy
<1>2. began' = began /\ began \in [Proc -> Nat]
  BY DEF TakeLockFile, WaitForLock, AskProvider, Reject, SafeInv, ValuesOK
<1>3. \/ Quiet(s, "open-lock", "flock") \/ Quiet(s, "flock", "reread")
      \/ Quiet(s, "reread", "exchange") \/ Quiet(s, "exchange", "delete")
  BY DEF TakeLockFile, WaitForLock, AskProvider, Reject, Quiet
<1> QED
  BY <1>1, <1>2, <1>3, QuietSafe DEF Label

(* A peer's renewal is taken over: memory and file hold the same session. *)
LEMMA TakePeersSafe ==
  ASSUME SafeInv, NEW s \in Proc, TakePeers(s)
  PROVE  SafeInv'
<1> USE DEF SafeInv, ValuesOK, TakePeers, PeerRefreshed, Return, Goto, provider, command
<1>1. ValuesOK'
  BY DEF Label, NoToken
<1>2. BegunInTime' /\ TokensIssued'
  BY DEF BegunInTime, Busy, TokensIssued, NoToken
<1>3. AnswersGood' /\ LoginGood'
  BY DEF AnswersGood, LoginGood, NewToken, NoToken, Token
<1>4. TokenOnDiskUsable'
  BY DEF TokenOnDiskUsable
<1> QED
  BY <1>1, <1>2, <1>3, <1>4

(* The provider accepts: the token it replaces is spent, and the asker is    *)
(* the only one to know its successor.                                       *)
LEMMA AcceptSafe ==
  ASSUME SafeInv, NEW s \in Proc, Accept(s)
  PROVE  SafeInv'
<1> USE DEF SafeInv, ValuesOK, Accept, Goto, command
<1>1. CASE rotates
  <2>1. /\ issued' = issued + 1 /\ alive' = (alive \ {held[s].refresh}) \cup {issued + 1}
        /\ reply' = [reply EXCEPT ![s] = issued + 1]
    BY <1>1
  <2>2. ValuesOK'
    <3>1. issued \in Nat /\ issued' \in Nat /\ 1..issued \subseteq 1..(issued + 1)
      BY <2>1
    <3>3. alive' \subseteq 1..issued'
      <4>1. issued + 1 \in 1..(issued + 1)
        BY <3>1
      <4> QED
        BY <2>1, <3>1, <4>1
    <3>4. lost' \subseteq 1..issued'
      BY <2>1, <3>1 DEF provider
    <3>2. pc' \in [Proc -> Label] /\ reply' \in [Proc -> Nat]
      BY <2>1 DEF Label
    <3> QED
      BY <3>1, <3>2, <3>3, <3>4
  <2>3. BegunInTime' /\ TokensIssued'
    BY <2>1 DEF BegunInTime, Busy, TokensIssued, Session, Token
  <2>4. LoginGood'
    BY <2>1 DEF LoginGood, NewToken, TokensIssued, Session, Token
  <2>5. NewToken(issued)'
    <3>1. \A t \in Session \cup {NoSession} :
            t # NoSession /\ t.refresh <= issued => t.refresh # issued'
      BY <2>1 DEF Session, Token
    <3> QED
      BY <2>1, <3>1 DEF NewToken, TokensIssued
  <2>6. AnswersGood'
    <3> SUFFICES ASSUME NEW t \in Proc, pc'[t] = "persist"
                 PROVE  NewToken(reply[t])' /\ \A u \in Proc \ {t} : reply'[u] # reply'[t]
      BY <1>1 DEF AnswersGood
    <3>1. CASE t = s
      <4>1. reply'[s] = issued'
        BY <2>1
      <4>2. \A u \in Proc \ {s} : reply'[u] # issued'
        BY <2>1 DEF TokensIssued
      <4> QED
        BY <3>1, <2>5, <4>1, <4>2 DEF NewToken
    <3>2. CASE t # s
      <4>1. pc[t] = "persist" /\ reply'[t] = reply[t]
        BY <3>2, <2>1
      <4>2. NewToken(reply[t]) /\ \A u \in Proc \ {t} : reply[u] # reply[t]
        BY <1>1, <4>1 DEF AnswersGood
      <4>3. reply[t] # issued + 1
        BY DEF TokensIssued
      <4>4. held[s] # NoSession
        OBVIOUS
      <4>5. NewToken(reply[t])'
        BY <2>1, <4>1, <4>2, <4>4 DEF NewToken
      <4> QED
        BY <2>1, <4>1, <4>2, <4>3, <4>5
    <3> QED
      BY <3>1, <3>2
  <2>7. TokenOnDiskUsable'
    BY <2>1 DEF TokenOnDiskUsable
  <2> QED
    BY <2>2, <2>3, <2>4, <2>6, <2>7
<1>2. CASE ~rotates
  <2>1. UNCHANGED <<issued, alive>> /\ reply' = [reply EXCEPT ![s] = NoToken]
    BY <1>2
  <2>2. ValuesOK'
    BY <2>1 DEF Label, NoToken
  <2>3. BegunInTime' /\ TokensIssued'
    BY <2>1 DEF BegunInTime, Busy, TokensIssued, NoToken
  <2>4. LoginGood'
    BY <2>1 DEF LoginGood, NewToken, NoToken, Token
  <2>5. AnswersGood'
    BY <1>2, <2>1 DEF AnswersGood
  <2>6. TokenOnDiskUsable'
    BY <2>1 DEF TokenOnDiskUsable
  <2> QED
    BY <2>2, <2>3, <2>4, <2>5, <2>6
<1> QED
  BY <1>1, <1>2

(* The session a server has renewed carries a token the provider accepts     *)
(* unless it was revoked, is known to no other server, and expires later     *)
(* than the one it replaces.                                                 *)
LEMMA RenewedGood ==
  ASSUME SafeInv, NEW s \in Proc, pc[s] \in {"persist", "adopt"}
  PROVE  /\ Renewed(s) \in Session
         /\ Renewed(s).refresh <= issued
         /\ Renewed(s).refresh = IF reply[s] = NoToken THEN held[s].refresh ELSE reply[s]
         /\ pc[s] = "persist" => Renewed(s).refresh \in alive \cup lost
         /\ Renewed(s).expires > held[s].expires
<1>1. held[s] \in Session /\ reply[s] \in Nat /\ began[s] \in Nat
  BY DEF SafeInv, ValuesOK
<1>2. Renewed(s).refresh \in Token /\ Renewed(s).expires \in Int
  BY <1>1, TokenConstants DEF Renewed, NoToken, Token, Session
<1>3. Renewed(s) \in Session
  BY <1>2 DEF Renewed, Session
<1>4. Renewed(s).refresh <= issued
  <2>1. held[s] # NoSession
    BY DEF SafeInv, ValuesOK
  <2>2. held[s].refresh <= issued /\ reply[s] <= issued
    BY <2>1 DEF SafeInv, TokensIssued
  <2> QED
    BY <2>2 DEF Renewed
<1>5. Renewed(s).refresh = IF reply[s] = NoToken THEN held[s].refresh ELSE reply[s]
  BY DEF Renewed
<1>6. pc[s] = "persist" => Renewed(s).refresh \in alive \cup lost
  <2> SUFFICES ASSUME pc[s] = "persist" PROVE Renewed(s).refresh \in alive \cup lost
    OBVIOUS
  <2>1. CASE rotates
    <3>1. reply[s] \in alive \cup lost
      BY <2>1 DEF SafeInv, AnswersGood, NewToken
    <3>2. reply[s] # NoToken
      BY <3>1 DEF SafeInv, ValuesOK, NoToken
    <3> QED
      BY <3>1, <3>2, <1>5
  <2>2. CASE ~rotates
    BY <2>2, <1>5 DEF SafeInv, AnswersGood
  <2> QED
    BY <2>1, <2>2
<1>7. Renewed(s).expires > held[s].expires
  <2>1. held[s].expires - began[s] <= Lead /\ held[s].expires \in Int
    BY <1>1 DEF SafeInv, BegunInTime, Busy, Session
  <2>2. Renewed(s).expires = began[s] + Ttl
    BY DEF Renewed
  <2> QED
    BY <1>1, <2>1, <2>2, TokenConstants
<1> QED
  BY <1>3, <1>4, <1>5, <1>6, <1>7

(* The renewed session reaches the file. *)
LEMMA PersistSafe ==
  ASSUME SafeInv, NEW s \in Proc, Persist(s)
  PROVE  SafeInv'
<1> DEFINE new == Renewed(s)
<1>0. /\ pc[s] = "persist" /\ file' = new
      /\ new \in Session /\ new.refresh <= issued /\ new.refresh \in alive \cup lost
      /\ new.refresh = IF reply[s] = NoToken THEN held[s].refresh ELSE reply[s]
  BY RenewedGood DEF Persist
<1> HIDE DEF new
<1> USE DEF SafeInv, ValuesOK, Persist, Goto, provider, command
<1>1. ValuesOK'
  BY <1>0 DEF Label
<1>2. BegunInTime' /\ TokensIssued'
  BY <1>0 DEF BegunInTime, Busy, TokensIssued
<1>3. AnswersGood'
  <2> SUFFICES ASSUME NEW t \in Proc, pc'[t] = "persist", rotates
               PROVE  NewToken(reply[t])' /\ \A u \in Proc \ {t} : reply'[u] # reply'[t]
    BY <1>0 DEF AnswersGood
  <2>1. t # s /\ pc[t] = "persist"
    OBVIOUS
  <2>2. NewToken(reply[t]) /\ \A u \in Proc \ {t} : reply[u] # reply[t]
    BY <2>1 DEF AnswersGood
  <2>3. new.refresh # reply[t]
    BY <1>0, <2>1, <2>2, NoSessionIsNone DEF NewToken
  <2> QED
    BY <1>0, <2>2, <2>3 DEF NewToken
<1>4. LoginGood'
  BY <1>0, NoSessionIsNone DEF LoginGood, NewToken
<1>5. TokenOnDiskUsable'
  BY <1>0 DEF TokenOnDiskUsable
<1> QED
  BY <1>1, <1>2, <1>3, <1>4, <1>5

(* A refresh returns; memory holds what it held, or the renewed session.     *)
LEMMA AdoptSafe ==
  ASSUME SafeInv, NEW s \in Proc, Adopt(s)
  PROVE  SafeInv'
<1> DEFINE new == Renewed(s)
<1>0. /\ pc[s] = "adopt" /\ held' = [held EXCEPT ![s] = new]
      /\ new \in Session /\ new.refresh <= issued
      /\ new.refresh = IF reply[s] = NoToken THEN held[s].refresh ELSE reply[s]
  BY RenewedGood DEF Adopt, Return
<1> HIDE DEF new
<1> USE DEF SafeInv, ValuesOK, Adopt, Return, Goto, provider, command
<1>1. ValuesOK'
  <2>1. pc' \in [Proc -> Label] /\ reply' \in [Proc -> Nat] /\ began' \in [Proc -> Nat]
    BY <1>0 DEF Label, NoToken
  <2>2. held' \in [Proc -> Session \cup {NoSession}]
    BY <1>0
  <2>3. \A t \in Proc : pc'[t] # "down" => held'[t] # NoSession
    BY <1>0, NoSessionIsNone
  <2> QED
    BY <2>1, <2>2, <2>3
<1>2. BegunInTime' /\ TokensIssued'
  BY <1>0 DEF BegunInTime, Busy, TokensIssued, NoToken
<1>3. AnswersGood'
  <2> SUFFICES ASSUME NEW t \in Proc, pc'[t] = "persist", rotates
               PROVE  NewToken(reply[t])' /\ \A u \in Proc \ {t} : reply'[u] # reply'[t]
    BY <1>0 DEF AnswersGood
  <2>1. t # s /\ pc[t] = "persist" /\ reply'[t] = reply[t]
    OBVIOUS
  <2>2. NewToken(reply[t]) /\ \A u \in Proc \ {t} : reply[u] # reply[t]
    BY <2>1 DEF AnswersGood
  <2>3. new.refresh # reply[t] /\ reply[t] # NoToken
    BY <1>0, <2>1, <2>2 DEF NewToken, NoToken
  <2> QED
    BY <1>0, <2>1, <2>2, <2>3 DEF NewToken
<1>4. LoginGood'
  BY <1>0 DEF LoginGood, NewToken, NoToken, Token
<1>5. TokenOnDiskUsable'
  BY <1>0 DEF TokenOnDiskUsable
<1> QED
  BY <1>1, <1>2, <1>3, <1>4, <1>5

(* The provider's refusal removes the file; logout does, too. *)
LEMMA DeleteFileSafe ==
  ASSUME SafeInv, NEW s \in Proc, DeleteFile(s)
  PROVE  SafeInv'
<1> USE DEF SafeInv, ValuesOK, DeleteFile, Goto, provider, command
<1>1. ValuesOK'
  BY DEF Label
<1>2. BegunInTime' /\ TokensIssued'
  BY DEF BegunInTime, Busy, TokensIssued
<1>3. AnswersGood' /\ LoginGood'
  BY DEF AnswersGood, LoginGood, NewToken
<1>4. TokenOnDiskUsable'
  BY DEF TokenOnDiskUsable
<1> QED
  BY <1>1, <1>2, <1>3, <1>4

(* A refresh ends without a new session, or its server goes away: a token    *)
(* that was spent for an answer nobody stored is lost.                       *)
GivesUp(s, label, session) ==
  /\ pc' = [pc EXCEPT ![s] = label]
  /\ held' = [held EXCEPT ![s] = session]
  /\ began' = [began EXCEPT ![s] = 0]
  /\ reply' = [reply EXCEPT ![s] = NoToken]
  /\ lost' = lost \cup Wasted(s)
  /\ UNCHANGED <<now, rotates, issued, alive, file, command>>

LEMMA GivesUpSafe ==
  ASSUME SafeInv, NEW s \in Proc, NEW label, NEW session, GivesUp(s, label, session),
         \/ label = "idle" /\ session = held[s] /\ session # NoSession
         \/ label = "down" /\ session = NoSession
  PROVE  SafeInv'
<1> USE DEF SafeInv, ValuesOK, GivesUp, command
<1>0. Wasted(s) \subseteq 1..issued
  BY DEF Wasted, TokensIssued, Session, Token
<1>1. ValuesOK'
  BY <1>0 DEF Label, NoToken
<1>2. BegunInTime' /\ TokensIssued'
  BY DEF BegunInTime, Busy, TokensIssued, NoToken
<1>3. AnswersGood'
  <2> SUFFICES ASSUME NEW t \in Proc, pc'[t] = "persist"
               PROVE  IF rotates THEN /\ NewToken(reply[t])'
                                      /\ \A u \in Proc \ {t} : reply'[u] # reply'[t]
                                 ELSE reply'[t] = NoToken /\ held'[t].refresh \in (alive \cup lost)'
    BY DEF AnswersGood
  <2>1. t # s /\ pc[t] = "persist" /\ reply'[t] = reply[t] /\ held'[t] = held[t]
    OBVIOUS
  <2>2. CASE rotates
    <3>1. NewToken(reply[t]) /\ \A u \in Proc \ {t} : reply[u] # reply[t]
      BY <2>1, <2>2 DEF AnswersGood
    <3>2. reply[t] # NoToken
      BY <3>1 DEF NewToken, NoToken
    <3> QED
      BY <2>1, <2>2, <3>1, <3>2 DEF NewToken
  <2>3. CASE ~rotates
    BY <2>1, <2>3 DEF AnswersGood
  <2> QED
    BY <2>2, <2>3
<1>4. LoginGood'
  BY DEF LoginGood, NewToken, NoToken, Token
<1>5. TokenOnDiskUsable'
  <2> SUFFICES ASSUME file # NoSession
               PROVE file.refresh \in alive \cup lost' \cup
                       {held'[u].refresh : u \in {t \in Proc : pc'[t] = "persist"}}
    BY DEF TokenOnDiskUsable
  <2>1. CASE file.refresh \in alive \cup lost
    BY <2>1
  <2>2. CASE \E u \in Proc : pc[u] = "persist" /\ file.refresh = held[u].refresh
    <3> PICK u \in Proc : pc[u] = "persist" /\ file.refresh = held[u].refresh
      BY <2>2
    <3>1. CASE u = s /\ rotates
      BY <3>1 DEF Wasted
    <3>2. CASE ~rotates
      BY <3>2 DEF AnswersGood
    <3>3. CASE u # s
      BY <3>3
    <3> QED
      BY <3>1, <3>2, <3>3
  <2> QED
    BY <2>1, <2>2 DEF TokenOnDiskUsable
<1> QED
  BY <1>1, <1>2, <1>3, <1>4, <1>5

LEMMA EndsSafe ==
  ASSUME SafeInv, NEW s \in Proc, DeleteLock(s) \/ Fail(s) \/ Stop(s)
  PROVE  SafeInv'
<1>1. CASE DeleteLock(s) \/ Fail(s)
  <2>1. held[s] # NoSession
    BY <1>1 DEF DeleteLock, Fail, Busy, SafeInv, ValuesOK
  <2>2. GivesUp(s, "idle", held[s])
    BY <1>1 DEF DeleteLock, Fail, Return, Goto, GivesUp, Wasted, provider
  <2> QED
    BY <2>1, <2>2, GivesUpSafe
<1>2. CASE Stop(s)
  <2>1. GivesUp(s, "down", NoSession)
    BY <1>2 DEF Stop, Goto, GivesUp
  <2> QED
    BY <2>1, GivesUpSafe
<1> QED
  BY <1>1, <1>2

(* login and logout. *)
LEMMA CommandSafe ==
  ASSUME SafeInv, CommandStep
  PROVE  SafeInv'
<1> USE DEF SafeInv, ValuesOK, servers, provider
<1>1. CASE Authorize
  <2> USE <1>1 DEF Authorize
  <2>1. issued \in Nat /\ issued' = issued + 1 /\ alive' = alive \cup {issued + 1} /\ lost' = lost
    OBVIOUS
  <2>2. ValuesOK'
    <3>1. 1..issued \subseteq 1..(issued + 1) /\ issued + 1 \in 1..(issued + 1)
      BY <2>1
    <3>2. alive' \subseteq 1..issued' /\ lost' \subseteq 1..issued'
      BY <2>1, <3>1
    <3> QED
      BY <3>2
  <2>3. BegunInTime' /\ TokensIssued'
    BY DEF BegunInTime, Busy, TokensIssued, Session, Token
  <2>4. AnswersGood'
    BY <2>1 DEF AnswersGood, NewToken
  <2>5. LoginGood'
    <3>1. \A t \in Session \cup {NoSession} :
            t # NoSession /\ t.refresh <= issued => t.refresh # issued'
      BY <2>1 DEF Session, Token
    <3>2. NewToken(issued)'
      BY <2>1, <3>1 DEF NewToken, TokensIssued
    <3>3. fresh' = issued' /\ issued' \in Token /\ \A s \in Proc : reply'[s] # issued'
      BY <2>1 DEF TokensIssued, Token
    <3> QED
      BY <3>2, <3>3 DEF LoginGood, NewToken
  <2>6. TokenOnDiskUsable'
    BY DEF TokenOnDiskUsable
  <2> QED
    BY <2>2, <2>3, <2>4, <2>5, <2>6
<1>2. CASE StoreLogin
  <2> USE <1>2 DEF StoreLogin
  <2>1. /\ fresh \in Token /\ NewToken(fresh) /\ file' = [refresh |-> fresh, expires |-> now + Ttl]
        /\ \A s \in Proc : reply[s] # fresh
    BY DEF LoginGood
  <2>2. file' \in Session /\ file'.refresh = fresh
    BY <2>1, TokenConstants DEF Session
  <2>3. ValuesOK'
    BY <2>2 DEF NoToken
  <2>4. BegunInTime' /\ TokensIssued'
    BY <2>2 DEF BegunInTime, Busy, TokensIssued, NoToken
  <2>5. AnswersGood'
    BY <2>1, <2>2 DEF AnswersGood, NewToken
  <2>6. LoginGood' /\ TokenOnDiskUsable'
    BY <2>1, <2>2 DEF LoginGood, TokenOnDiskUsable, NewToken
  <2> QED
    BY <2>3, <2>4, <2>5, <2>6
<1>3. CASE Login \/ Logout \/ LogoutLock \/ Interrupt
  <2>1. /\ UNCHANGED <<now, provider, servers>> /\ file' \in {file, NoSession}
        /\ cli' \in {"idle", "authorize", "logout"} /\ fresh' \in {fresh, NoToken}
    BY <1>3 DEF Login, Logout, LogoutLock, Interrupt
  <2>2. ValuesOK'
    BY <2>1 DEF NoToken
  <2>3. BegunInTime' /\ TokensIssued'
    BY <2>1 DEF BegunInTime, Busy, TokensIssued, NoToken
  <2>4. AnswersGood' /\ LoginGood'
    BY <2>1 DEF AnswersGood, LoginGood, NewToken
  <2>5. TokenOnDiskUsable'
    BY <2>1 DEF TokenOnDiskUsable
  <2> QED
    BY <2>2, <2>3, <2>4, <2>5
<1> QED
  BY <1>1, <1>2, <1>3 DEF CommandStep

(* Revocation only moves a token from alive to lost; time passes. *)
LEMMA OutsideSafe ==
  ASSUME SafeInv, (\E t \in alive : Revoke(t)) \/ Tick \/ UNCHANGED wvars
  PROVE  SafeInv'
<1> USE DEF SafeInv, ValuesOK, servers, provider, command
<1>1. /\ UNCHANGED <<issued, rotates, file, servers, command>> /\ now' \in Nat
      /\ alive' \subseteq alive /\ alive' \cup lost' = alive \cup lost
      /\ alive' \cup lost' \subseteq 1..issued
  <2>1. CASE \E t \in alive : Revoke(t)
    BY <2>1 DEF Revoke
  <2>2. CASE Tick
    BY <2>2 DEF Tick
  <2>3. CASE UNCHANGED wvars
    BY <2>3 DEF wvars
  <2> QED
    BY <2>1, <2>2, <2>3
<1>2. ValuesOK'
  BY <1>1
<1>3. BegunInTime' /\ TokensIssued'
  BY <1>1 DEF BegunInTime, Busy, TokensIssued
<1>4. AnswersGood' /\ LoginGood'
  BY <1>1 DEF AnswersGood, LoginGood, NewToken
<1>5. TokenOnDiskUsable'
  BY <1>1 DEF TokenOnDiskUsable
<1> QED
  BY <1>2, <1>3, <1>4, <1>5

(* Every step keeps the invariant. *)
LEMMA SafeKept ==
  ASSUME SafeInv, [TokensNext]_wvars
  PROVE  SafeInv'
<1>1. ASSUME NEW s \in Proc, ServerStep(s) PROVE SafeInv'
  BY <1>1, StartSafe, BeginSafe, WaitingSafe, TakePeersSafe, AcceptSafe, PersistSafe, AdoptSafe,
     DeleteFileSafe, EndsSafe DEF ServerStep, RefreshStep
<1>2. CASE CommandStep
  BY <1>2, CommandSafe
<1>3. CASE (\E t \in alive : Revoke(t)) \/ Tick \/ UNCHANGED wvars
  BY <1>3, OutsideSafe
<1> QED
  BY <1>1, <1>2, <1>3 DEF TokensNext

------------------------------------------------------------------------------
(* The theorems.                                                             *)

LEMMA TokensInvariance == TokensSpec => []TokensInv
<1>1. TokensInv /\ [TokensNext]_wvars => TokensInv'
  BY LockKept, SafeKept DEF TokensInv, SafeInv
<1> QED
  BY <1>1, InitTokensInv, PTL DEF TokensSpec

(* The state is well formed and no two servers hold the flock of one lock    *)
(* file, however often the lock file is unlinked under them (store.rs,       *)
(* acquire_lock and delete).                                                 *)
THEOREM TokensTypeCorrect == TokensSpec => []TokensTypeOK
<1>1. TokensInv => TokensTypeOK
  BY DEF TokensInv, ValuesOK, LockOK, TokensTypeOK
<1> QED
  BY <1>1, TokensInvariance, PTL

(* No renewal leaves a spent refresh token in the session file: what is      *)
(* there is accepted by the provider, was revoked or lost, or is about to be *)
(* replaced, with or without rotation (refresh.rs:81-101).                   *)
THEOREM NoSpentTokenOnDisk == TokensSpec => []TokenOnDiskUsable
<1>1. TokensInv => TokenOnDiskUsable
  BY DEF TokensInv
<1> QED
  BY <1>1, TokensInvariance, PTL

(* A server's session is only ever replaced by one that expires later, even  *)
(* when the file was written by a peer whose clock reading is old            *)
(* (refresh.rs:61-67, 101-102).                                              *)
THEOREM SessionsOnlyRenewed == TokensSpec => SessionOnlyRenewed
<1> DEFINE Later == \A s \in Proc : held[s] # NoSession /\ held'[s] \notin {NoSession, held[s]}
                      => held'[s].expires > held[s].expires
<1>1. TokensInv /\ [TokensNext]_wvars => [Later]_wvars
  <2> SUFFICES ASSUME TokensInv, TokensNext, NEW s \in Proc,
                      held[s] # NoSession, held'[s] # NoSession, held'[s] # held[s]
               PROVE  held'[s].expires > held[s].expires
    BY DEF TokensInv
  <2>1. SafeInv
    BY DEF TokensInv, SafeInv
  <2>2. held \in [Proc -> Session \cup {NoSession}]
    BY <2>1 DEF SafeInv, ValuesOK
  <2>3. CASE TakePeers(s)
    <3>1. held'[s] = file /\ file.expires - began[s] > Lead /\ file \in Session
      BY <2>1, <2>2, <2>3, TokenConstants
      DEF TakePeers, Return, PeerRefreshed, CloseToExpiry, SafeInv, ValuesOK, Session
    <3>2. held[s].expires - began[s] <= Lead /\ held[s] \in Session /\ began[s] \in Nat
      BY <2>1, <2>2, <2>3 DEF TakePeers, SafeInv, BegunInTime, Busy, ValuesOK
    <3> QED
      BY <3>1, <3>2, TokenConstants DEF Session
  <2>4. CASE Adopt(s)
    BY <2>1, <2>2, <2>4, RenewedGood DEF Adopt, Return
  <2>5. TakePeers(s) \/ Adopt(s)
    <3>1. CASE \E p \in Proc : ServerStep(p)
      <4> PICK p \in Proc : ServerStep(p)
        BY <3>1
      <4>1. CASE p # s
        BY <2>2, <4>1
        DEF ServerStep, RefreshStep, Start, BeginRefresh, TakeLockFile, WaitForLock, TakePeers,
            AskProvider, Accept, Reject, Persist, Adopt, DeleteFile, DeleteLock, Fail, Stop, Return
      <4>2. CASE p = s
        <5>1. ~ Start(s)
          BY <2>1 DEF Start, SafeInv, BegunInTime
        <5> QED
          BY <2>2, <4>2, <5>1
          DEF ServerStep, RefreshStep, BeginRefresh, TakeLockFile, WaitForLock, AskProvider,
              Accept, Reject, Persist, DeleteFile, DeleteLock, Fail, Stop, Return
      <4> QED
        BY <4>1, <4>2
    <3>2. CASE CommandStep \/ (\E t \in alive : Revoke(t)) \/ Tick
      BY <3>2 DEF CommandStep, Login, Authorize, StoreLogin, Logout, LogoutLock, Interrupt,
                  Revoke, Tick, servers
    <3> QED
      BY <3>1, <3>2 DEF TokensNext
  <2> QED
    BY <2>3, <2>4, <2>5
<1> QED
  BY <1>1, TokensInvariance, PTL DEF TokensSpec, SessionOnlyRenewed

------------------------------------------------------------------------------
(* The files of a profile.                                                   *)
Errand == {"none", "add", "rotate", "set-allowlist", "revoke", "primitive", "raw-token", "quarantine"}
Place  == {"idle", "truncate-blob", "write-blob", "truncate-meta", "write-meta", "truncate-yaml",
           "write-yaml", "load-meta", "remove-blob", "remove-meta", "remove-yaml", "read-yaml",
           "verify", "resolve", "hand-out", "load-to-quarantine"}

(* What a process has read and is about to write. *)
Job == [op : Errand, text : Text \cup {NoText, Absent, Torn}, meta : Profile \cup {Absent}]

(* The metadata is what add leaves of it. *)
Fresh(m) == m \in Profile /\ m.allowlist_hmac = NoText /\ ~m.quarantined

ProfileFiles ==
  /\ meta \in Profile \cup {Absent, Torn}
  /\ yaml \in Text \cup {Absent, Torn}
  /\ ppc \in [Process -> Place]
  /\ work \in [Process -> Job]
  /\ crowd \in BOOLEAN

(* The command a process runs, by its next step. *)
OnItsWay(p) ==
  /\ ppc[p] \in {"truncate-blob", "write-blob"} =>
       \/ work[p].op = "rotate"
       \/ work[p].op = "add" /\ Fresh(work[p].meta)
  /\ ppc[p] \in {"truncate-yaml", "write-yaml", "load-meta"} =>
       work[p].op = "set-allowlist" /\ work[p].text \in Text
  /\ ppc[p] = "load-to-quarantine" => work[p].op = "quarantine"

(* Unless two had it in hand, the metadata a process is about to write says  *)
(* what the owner and the servers last decided, with its own change.         *)
Adding(p) ==
  /\ work[p].op = "add" /\ Fresh(work[p].meta)
  /\ ppc[p] = "write-meta" /\ ~crowd => granted = NoText /\ blocked = FALSE
Signing(p) ==
  /\ work[p].op = "set-allowlist" /\ work[p].meta \in Profile
  /\ work[p].meta.allowlist_hmac = work[p].text
  /\ ~crowd /\ blocked => work[p].meta.quarantined
Quarantining(p) ==
  /\ work[p].op = "quarantine" /\ work[p].meta \in Profile /\ work[p].meta.quarantined
  /\ ~crowd => work[p].meta.allowlist_hmac = granted

MetaInHand(p) == ppc[p] \in InHand => Adding(p) \/ Signing(p) \/ Quarantining(p)

OneInHand == ~crowd => \A p, q \in Process : ppc[p] \in InHand /\ ppc[q] \in InHand => p = q

(* Metadata on disk is what was last decided.                                *)
MetaDecided ==
  ~crowd /\ Readable(meta) => /\ meta.allowlist_hmac = granted
                              /\ blocked => meta.quarantined

ProfilesInv ==
  /\ ProfileFiles
  /\ \A p \in Process : OnItsWay(p) /\ MetaInHand(p)
  /\ OneInHand /\ MetaDecided
  /\ AcceptedIsLatest /\ QuarantineSticks

LEMMA NoWorkIsJob == NoWork \in Job
BY DEF NoWork, Job, Errand

LEMMA ProfilesInitInv == ProfilesInit => ProfilesInv
<1> SUFFICES ASSUME ProfilesInit PROVE ProfilesInv
  OBVIOUS
<1>1. ProfileFiles
  BY NoWorkIsJob DEF ProfilesInit, ProfileFiles, Place
<1>2. \A p \in Process : ppc[p] = "idle"
  BY DEF ProfilesInit
<1>3. \A p \in Process : OnItsWay(p) /\ MetaInHand(p)
  BY <1>2 DEF OnItsWay, MetaInHand, InHand
<1>4. OneInHand
  BY <1>2 DEF OneInHand, InHand
<1> QED
  BY <1>1, <1>3, <1>4 DEF ProfilesInit, ProfilesInv, MetaDecided, Readable, AcceptedIsLatest, QuarantineSticks

(* A step of p leaves the rest as it is if p is as it should be afterwards,  *)
(* and if p takes the metadata in hand, or decides anything without having   *)
(* it in hand, only where nobody else has or a crowd is noted.               *)
LEMMA StepKeepsProfiles ==
  ASSUME ProfilesInv, NEW p \in Process,
         ProfileFiles', OnItsWay(p)', MetaInHand(p)',
         \A q \in Process \ {p} : ppc'[q] = ppc[q] /\ work'[q] = work[q],
         crowd => crowd',
         ppc'[p] \in InHand => ppc[p] \in InHand \/ crowd' = Crowded(p),
         (granted' = granted /\ blocked' = blocked) \/ ppc[p] \in InHand \/ crowd' = Crowded(p),
         MetaDecided', AcceptedIsLatest', QuarantineSticks'
  PROVE  ProfilesInv'
<1>1. ASSUME NEW q \in Process PROVE OnItsWay(q)' /\ MetaInHand(q)'
  <2>1. CASE q = p
    BY <2>1
  <2>2. CASE q # p
    <3>1. ppc'[q] = ppc[q] /\ work'[q] = work[q]
      BY <2>2
    <3>2. OnItsWay(q) /\ MetaInHand(q)
      BY DEF ProfilesInv
    <3>3. OnItsWay(q)'
      BY <3>1, <3>2 DEF OnItsWay
    <3>4. ppc[q] \in InHand => crowd' \/ (~crowd /\ granted' = granted /\ blocked' = blocked)
      BY <2>2 DEF ProfilesInv, OneInHand, Crowded
    <3>5. MetaInHand(q)'
      BY <3>1, <3>2, <3>4 DEF MetaInHand, Adding, Signing, Quarantining
    <3> QED
      BY <3>3, <3>5
  <2> QED
    BY <2>1, <2>2
<1>2. OneInHand'
  BY DEF ProfilesInv, OneInHand, Crowded
<1> QED
  BY <1>1, <1>2 DEF ProfilesInv

(* A step of p that touches neither the metadata nor any decision, and does  *)
(* not take the metadata in hand.                                            *)
LEMMA QuietStepKeepsProfiles ==
  ASSUME ProfilesInv, NEW p \in Process, NEW l \in Place, NEW j \in Job,
         ppc' = [ppc EXCEPT ![p] = l], work' = [work EXCEPT ![p] = j],
         l \notin InHand, OnItsWay(p)',
         yaml' \in Text \cup {Absent, Torn},
         UNCHANGED <<meta, granted, blocked, crowd, stale, leaked>>
  PROVE  ProfilesInv'
<1>1. ProfileFiles'
  BY DEF ProfilesInv, ProfileFiles
<1>2. ppc'[p] = l /\ work'[p] = j /\ \A q \in Process \ {p} : ppc'[q] = ppc[q] /\ work'[q] = work[q]
  BY DEF ProfilesInv, ProfileFiles
<1>3. MetaInHand(p)'
  BY <1>2 DEF MetaInHand
<1>4. MetaDecided' /\ AcceptedIsLatest' /\ QuarantineSticks'
  BY DEF ProfilesInv, MetaDecided, Readable, AcceptedIsLatest, QuarantineSticks
<1> QED
  BY <1>1, <1>2, <1>3, <1>4, StepKeepsProfiles

(* Beginning a command or a call. *)
LEMMA BeginKeepsProfiles ==
  ASSUME ProfilesInv, NEW p \in Process, NEW l \in Place, NEW j \in Job,
         Step(p, "idle", l), work' = [work EXCEPT ![p] = j],
         l = "truncate-blob" => \/ j.op = "rotate"
                                \/ j.op = "add" /\ Fresh(j.meta),
         l \in {"truncate-yaml", "load-meta"} => j.op = "set-allowlist" /\ j.text \in Text,
         l = "load-to-quarantine" => j.op = "quarantine",
         l \notin InHand \cup {"write-blob", "write-yaml"},
         UNCHANGED <<files, pghosts>>
  PROVE  ProfilesInv'
<1>1. ppc' = [ppc EXCEPT ![p] = l]
  BY DEF Step
<1>2. ppc'[p] = l /\ work'[p] = j
  BY <1>1 DEF ProfilesInv, ProfileFiles
<1>3. OnItsWay(p)'
  BY <1>2 DEF OnItsWay
<1>4. yaml' \in Text \cup {Absent, Torn} /\ UNCHANGED <<meta, granted, blocked, crowd, stale, leaked>>
  BY DEF files, pghosts, ProfilesInv, ProfileFiles
<1> QED
  BY <1>1, <1>3, <1>4, QuietStepKeepsProfiles

LEMMA CommandKeepsProfiles ==
  ASSUME ProfilesInv, NEW p \in Owner, Command(p)
  PROVE  ProfilesInv'
<1>0. p \in Process
  BY DEF Process
<1>1. ASSUME NEW raw \in BOOLEAN, Add(p, raw) PROVE ProfilesInv'
  <2> DEFINE m == [allowlist_hmac |-> NoText, quarantined |-> FALSE, unsafe_raw_token_enabled |-> raw]
             j == [op |-> "add", text |-> NoText, meta |-> m]
  <2>1. m \in Profile /\ Fresh(m)
    BY DEF Profile, Fresh
  <2>2. j \in Job /\ j.op = "add" /\ Fresh(j.meta)
    BY <2>1 DEF Job, Errand
  <2>3. /\ Step(p, "idle", "truncate-blob") /\ work' = [work EXCEPT ![p] = j]
        /\ UNCHANGED <<files, pghosts>>
    BY <1>1 DEF Add, BeginCommand
  <2> HIDE DEF m, j
  <2> QED
    BY <1>0, <2>2, <2>3, BeginKeepsProfiles DEF Place, InHand
<1>2. CASE Rotate(p)
  <2> DEFINE j == [op |-> "rotate", text |-> NoText, meta |-> Absent]
  <2>1. j \in Job /\ j.op = "rotate"
    BY DEF Job, Errand
  <2>2. /\ Step(p, "idle", "truncate-blob") /\ work' = [work EXCEPT ![p] = j]
        /\ UNCHANGED <<files, pghosts>>
    BY <1>2 DEF Rotate, BeginCommand
  <2> HIDE DEF j
  <2> QED
    BY <1>0, <2>1, <2>2, BeginKeepsProfiles DEF Place, InHand
<1>3. CASE RevokeProfile(p)
  <2> DEFINE j == [op |-> "revoke", text |-> NoText, meta |-> Absent]
  <2>1. j \in Job
    BY DEF Job, Errand
  <2>2. /\ Step(p, "idle", "remove-blob") /\ work' = [work EXCEPT ![p] = j]
        /\ UNCHANGED <<files, pghosts>>
    BY <1>3 DEF RevokeProfile, BeginCommand
  <2> HIDE DEF j
  <2> QED
    BY <1>0, <2>1, <2>2, BeginKeepsProfiles DEF Place, InHand
<1>4. ASSUME NEW t \in Text, SetAllowlist(p, t) PROVE ProfilesInv'
  <2> DEFINE j == [op |-> "set-allowlist", text |-> t, meta |-> Absent]
  <2>1. j \in Job /\ j.op = "set-allowlist" /\ j.text \in Text
    BY DEF Job, Errand
  <2>2. /\ Step(p, "idle", "truncate-yaml") /\ work' = [work EXCEPT ![p] = j]
        /\ UNCHANGED <<files, pghosts>>
    BY <1>4 DEF SetAllowlist, BeginCommand
  <2> HIDE DEF j
  <2> QED
    BY <1>0, <2>1, <2>2, BeginKeepsProfiles DEF Place, InHand
<1> QED
  BY <1>1, <1>2, <1>3, <1>4 DEF Command

LEMMA CallKeepsProfiles ==
  ASSUME ProfilesInv, NEW s \in Server, NEW o \in Errand, NEW l \in Place, BeginCall(s, o, l),
         l = "read-yaml" \/ (l = "load-to-quarantine" /\ o = "quarantine")
  PROVE  ProfilesInv'
<1> DEFINE j == [NoWork EXCEPT !.op = o]
<1>1. j \in Job /\ j.op = o
  BY DEF NoWork, Job, Errand
<1>2. /\ Step(s, "idle", l) /\ work' = [work EXCEPT ![s] = j] /\ UNCHANGED <<files, pghosts>>
  BY DEF BeginCall
<1> HIDE DEF j
<1> QED
  BY <1>1, <1>2, BeginKeepsProfiles DEF Process, InHand

(* A step that ends a command or a call and leaves metadata and decisions    *)
(* alone.                                                                    *)
LEMMA QuietEndKeepsProfiles ==
  ASSUME ProfilesInv, NEW p \in Process, NEW from, Finish(p, from),
         yaml' \in Text \cup {Absent, Torn},
         UNCHANGED <<meta, granted, blocked, crowd, stale, leaked>>
  PROVE  ProfilesInv'
<1>1. ppc' = [ppc EXCEPT ![p] = "idle"] /\ work' = [work EXCEPT ![p] = NoWork]
  BY DEF Finish, Step
<1>2. ppc'[p] = "idle"
  BY <1>1 DEF ProfilesInv, ProfileFiles
<1>3. OnItsWay(p)'
  BY <1>2 DEF OnItsWay
<1>4. "idle" \in Place /\ "idle" \notin InHand
  BY DEF Place, InHand
<1> QED
  BY <1>1, <1>3, <1>4, NoWorkIsJob, QuietStepKeepsProfiles

(* A step from one place to the next with the work as it is. *)
LEMMA QuietAdvanceKeepsProfiles ==
  ASSUME ProfilesInv, NEW p \in Process, NEW from, NEW to \in Place,
         Step(p, from, to), UNCHANGED work,
         to \notin InHand \cup {"write-yaml", "load-meta", "load-to-quarantine", "truncate-blob", "truncate-yaml"},
         to = "write-blob" => from = "truncate-blob",
         yaml' \in Text \cup {Absent, Torn},
         UNCHANGED <<meta, granted, blocked, crowd, stale, leaked>>
  PROVE  ProfilesInv'
<1>1. ppc' = [ppc EXCEPT ![p] = to] /\ ppc[p] = from
  BY DEF Step
<1>2. work' = [work EXCEPT ![p] = work[p]] /\ work[p] \in Job
  BY DEF ProfilesInv, ProfileFiles
<1>3. ppc'[p] = to /\ work'[p] = work[p]
  BY <1>1 DEF ProfilesInv, ProfileFiles
<1>4. OnItsWay(p)'
  BY <1>1, <1>3 DEF OnItsWay, ProfilesInv
<1> QED
  BY <1>1, <1>2, <1>4, QuietStepKeepsProfiles

(* Who takes the metadata in hand: what it has, and that a crowd is noted.   *)
LEMMA TakeInHandKeepsProfiles ==
  ASSUME ProfilesInv, NEW p \in Process, NEW j \in Job,
         ppc' = [ppc EXCEPT ![p] = "truncate-meta"], work' = [work EXCEPT ![p] = j],
         crowd' = Crowded(p),
         \/ j.op = "add" /\ Fresh(j.meta)
         \/ /\ j.op = "set-allowlist" /\ j.meta \in Profile /\ j.meta.allowlist_hmac = j.text
            /\ ~crowd /\ blocked => j.meta.quarantined
         \/ /\ j.op = "quarantine" /\ j.meta \in Profile /\ j.meta.quarantined
            /\ ~crowd => j.meta.allowlist_hmac = granted,
         UNCHANGED <<meta, yaml, granted, blocked, stale, leaked>>
  PROVE  ProfilesInv'
<1>1. crowd \in BOOLEAN /\ crowd' \in BOOLEAN /\ (crowd => crowd')
  BY DEF ProfilesInv, ProfileFiles, Crowded
<1>2. ProfileFiles'
  BY <1>1 DEF ProfilesInv, ProfileFiles, Place
<1>3. /\ ppc'[p] = "truncate-meta" /\ work'[p] = j
      /\ \A q \in Process \ {p} : ppc'[q] = ppc[q] /\ work'[q] = work[q]
  BY DEF ProfilesInv, ProfileFiles
<1>4. OnItsWay(p)'
  BY <1>3 DEF OnItsWay
<1>5. MetaInHand(p)'
  <2>1. CASE j.op = "add" /\ Fresh(j.meta)
    <3>1. Adding(p)'
      BY <1>3, <2>1 DEF Adding
    <3> QED
      BY <3>1 DEF MetaInHand
  <2>2. CASE /\ j.op = "set-allowlist" /\ j.meta \in Profile /\ j.meta.allowlist_hmac = j.text
             /\ ~crowd /\ blocked => j.meta.quarantined
    <3>1. Signing(p)'
      BY <1>1, <1>3, <2>2 DEF Signing
    <3> QED
      BY <3>1 DEF MetaInHand
  <2>3. CASE /\ j.op = "quarantine" /\ j.meta \in Profile /\ j.meta.quarantined
             /\ ~crowd => j.meta.allowlist_hmac = granted
    <3>1. Quarantining(p)'
      BY <1>1, <1>3, <2>3 DEF Quarantining
    <3> QED
      BY <3>1 DEF MetaInHand
  <2> QED
    BY <2>1, <2>2, <2>3
<1>6. MetaDecided' /\ AcceptedIsLatest' /\ QuarantineSticks'
  BY <1>1 DEF ProfilesInv, MetaDecided, Readable, AcceptedIsLatest, QuarantineSticks
<1> QED
  BY <1>1, <1>2, <1>3, <1>4, <1>5, <1>6, StepKeepsProfiles

(* save_profile_meta, by whoever has the metadata in hand. *)
LEMMA TruncateMetaKeepsProfiles ==
  ASSUME ProfilesInv, NEW p \in Process, TruncateMeta(p)
  PROVE  ProfilesInv'
<1>1. /\ ppc[p] = "truncate-meta" /\ ppc' = [ppc EXCEPT ![p] = "write-meta"] /\ meta' = Torn
      /\ UNCHANGED <<yaml, work, crowd, stale, leaked>>
  BY DEF TruncateMeta, Step
<1>2. /\ ppc'[p] = "write-meta" /\ \A q \in Process \ {p} : ppc'[q] = ppc[q]
  BY <1>1 DEF ProfilesInv, ProfileFiles
<1>3. ProfileFiles'
  BY <1>1 DEF ProfilesInv, ProfileFiles, Place
<1>4. OnItsWay(p)'
  BY <1>2 DEF OnItsWay
<1>5. MetaInHand(p)'
  <2>1. ppc[p] \in InHand
    BY <1>1 DEF InHand
  <2>2. CASE Adding(p)
    <3>1. work[p].op = "add"
      BY <2>2 DEF Adding
    <3>2. granted' = NoText /\ blocked' = FALSE
      BY <3>1 DEF TruncateMeta
    <3>3. Adding(p)'
      BY <1>1, <1>2, <2>2, <3>2 DEF Adding
    <3> QED
      BY <3>3 DEF MetaInHand
  <2>3. CASE Signing(p)
    <3>1. work[p].op = "set-allowlist"
      BY <2>3 DEF Signing
    <3>2. granted' = granted /\ blocked' = blocked
      BY <3>1 DEF TruncateMeta
    <3>3. Signing(p)'
      BY <1>1, <2>3, <3>2 DEF Signing
    <3> QED
      BY <3>3 DEF MetaInHand
  <2>4. CASE Quarantining(p)
    <3>1. work[p].op = "quarantine"
      BY <2>4 DEF Quarantining
    <3>2. granted' = granted /\ blocked' = blocked
      BY <3>1 DEF TruncateMeta
    <3>3. Quarantining(p)'
      BY <1>1, <2>4, <3>2 DEF Quarantining
    <3> QED
      BY <3>3 DEF MetaInHand
  <2> QED
    BY <2>1, <2>2, <2>3, <2>4 DEF ProfilesInv, MetaInHand
<1>6. MetaDecided' /\ AcceptedIsLatest' /\ QuarantineSticks'
  BY <1>1 DEF ProfilesInv, MetaDecided, Readable, AcceptedIsLatest, QuarantineSticks
<1> QED
  BY <1>1, <1>2, <1>3, <1>4, <1>5, <1>6, StepKeepsProfiles DEF InHand

LEMMA WriteMetaKeepsProfiles ==
  ASSUME ProfilesInv, NEW p \in Process, WriteMeta(p)
  PROVE  ProfilesInv'
<1>1. /\ ppc[p] = "write-meta" /\ ppc' = [ppc EXCEPT ![p] = "idle"]
      /\ work' = [work EXCEPT ![p] = NoWork] /\ meta' = work[p].meta
      /\ UNCHANGED <<yaml, crowd, stale, leaked>>
  BY DEF WriteMeta, Finish, Step
<1>2. /\ ppc'[p] = "idle"
      /\ \A q \in Process \ {p} : ppc'[q] = ppc[q] /\ work'[q] = work[q]
  BY <1>1 DEF ProfilesInv, ProfileFiles
<1>3. ppc[p] \in InHand
  BY <1>1 DEF InHand
<1>4. Adding(p) \/ Signing(p) \/ Quarantining(p)
  BY <1>3 DEF ProfilesInv, MetaInHand
<1>5. work[p].meta \in Profile
  BY <1>4 DEF Adding, Signing, Quarantining, Fresh
<1>6. ProfileFiles'
  BY <1>1, <1>5, NoWorkIsJob DEF ProfilesInv, ProfileFiles, Place
<1>7. OnItsWay(p)' /\ MetaInHand(p)'
  BY <1>2 DEF OnItsWay, MetaInHand, InHand
<1>8. MetaDecided'
  <2>1. CASE Adding(p)
    <3>1. granted' = granted /\ blocked' = blocked
      BY <2>1 DEF Adding, WriteMeta
    <3> QED
      BY <1>1, <2>1, <3>1 DEF Adding, Fresh, MetaDecided
  <2>2. CASE Signing(p)
    <3>1. granted' = work[p].text /\ blocked' = blocked
      BY <2>2 DEF Signing, WriteMeta
    <3> QED
      BY <1>1, <2>2, <3>1 DEF Signing, MetaDecided
  <2>3. CASE Quarantining(p)
    <3>1. granted' = granted /\ blocked' = TRUE
      BY <2>3 DEF Quarantining, WriteMeta
    <3> QED
      BY <1>1, <2>3, <3>1 DEF Quarantining, MetaDecided
  <2> QED
    BY <1>4, <2>1, <2>2, <2>3
<1>9. AcceptedIsLatest' /\ QuarantineSticks'
  BY <1>1 DEF ProfilesInv, AcceptedIsLatest, QuarantineSticks
<1> QED
  BY <1>1, <1>2, <1>3, <1>6, <1>7, <1>8, <1>9, StepKeepsProfiles DEF InHand

LEMMA FileStepKeepsProfiles ==
  ASSUME ProfilesInv, NEW p \in Process, FileStep(p)
  PROVE  ProfilesInv'
<1> USE DEF files, pghosts
<1>0. /\ yaml \in Text \cup {Absent, Torn} /\ work[p] \in Job
      /\ ppc \in [Process -> Place] /\ work \in [Process -> Job]
  BY DEF ProfilesInv, ProfileFiles
<1>1. CASE TruncateBlob(p)
  BY <1>0, <1>1, QuietAdvanceKeepsProfiles DEF TruncateBlob, Place, InHand
<1>2. CASE WriteBlob(p)
  <2>1. CASE work[p].op = "rotate"
    <3>1. Finish(p, "write-blob") /\ UNCHANGED <<meta, yaml, granted, blocked, crowd, stale, leaked>>
      BY <1>2, <2>1 DEF WriteBlob
    <3> QED
      BY <1>0, <3>1, QuietEndKeepsProfiles
  <2>2. CASE work[p].op # "rotate"
    <3>1. /\ ppc[p] = "write-blob" /\ ppc' = [ppc EXCEPT ![p] = "truncate-meta"]
          /\ work' = work /\ crowd' = Crowded(p)
          /\ UNCHANGED <<meta, yaml, granted, blocked, stale, leaked>>
      BY <1>2, <2>2 DEF WriteBlob, Step
    <3>2. work[p].op = "add" /\ Fresh(work[p].meta)
      BY <2>2, <3>1 DEF ProfilesInv, OnItsWay
    <3>3. work' = [work EXCEPT ![p] = work[p]]
      BY <1>0, <3>1
    <3> QED
      BY <1>0, <3>1, <3>2, <3>3, TakeInHandKeepsProfiles
  <2> QED
    BY <2>1, <2>2
<1>3. CASE TruncateMeta(p)
  BY <1>3, TruncateMetaKeepsProfiles
<1>4. CASE WriteMeta(p)
  BY <1>4, WriteMetaKeepsProfiles
<1>5. ASSUME TruncateYaml(p) \/ WriteYaml(p) PROVE ProfilesInv'
  <2>1. PICK l \in {"write-yaml", "load-meta"} : ppc' = [ppc EXCEPT ![p] = l]
    BY <1>5 DEF TruncateYaml, WriteYaml, Step
  <2>2. work[p].op = "set-allowlist" /\ work[p].text \in Text
    BY <1>5 DEF TruncateYaml, WriteYaml, Step, ProfilesInv, OnItsWay
  <2>3. /\ yaml' \in Text \cup {Absent, Torn} /\ work' = work
        /\ UNCHANGED <<meta, granted, blocked, crowd, stale, leaked>>
    BY <1>5, <2>2 DEF TruncateYaml, WriteYaml
  <2>4. work' = [work EXCEPT ![p] = work[p]]
    BY <1>0, <2>3
  <2>5. ppc'[p] = l /\ l \in Place /\ l \notin InHand
    BY <1>0, <2>1 DEF Place, InHand
  <2>6. OnItsWay(p)'
    BY <2>2, <2>3, <2>5 DEF OnItsWay
  <2> QED
    BY <1>0, <2>1, <2>3, <2>4, <2>5, <2>6, QuietStepKeepsProfiles
<1>6. CASE LoadMetaToSign(p)
  <2> DEFINE m == Signed(work[p].text)
             j == [work[p] EXCEPT !.meta = m]
  <2>1. /\ ppc[p] = "load-meta" /\ ppc' = [ppc EXCEPT ![p] = "truncate-meta"] /\ Readable(meta)
        /\ crowd' = Crowded(p) /\ UNCHANGED <<meta, yaml, granted, blocked, stale, leaked>>
    BY <1>6 DEF LoadMetaToSign, Step
  <2>2. work[p].op = "set-allowlist" /\ work[p].text \in Text
    BY <2>1 DEF ProfilesInv, OnItsWay
  <2>3. meta \in Profile
    BY <2>1 DEF ProfilesInv, ProfileFiles, Readable
  <2>4. m \in Profile /\ m.allowlist_hmac = work[p].text /\ m.quarantined = meta.quarantined
    BY <2>2, <2>3 DEF Signed, Profile
  <2>5. ~crowd /\ blocked => meta.quarantined
    BY <2>1 DEF ProfilesInv, MetaDecided
  <2>6. work' = [work EXCEPT ![p] = j]
    BY <1>6, <1>0 DEF LoadMetaToSign
  <2> HIDE DEF m
  <2>7. j \in Job /\ j.op = "set-allowlist" /\ j.text = work[p].text /\ j.meta = m
    BY <1>0, <2>2, <2>4 DEF Job, Errand
  <2> HIDE DEF j
  <2> QED
    BY <2>1, <2>4, <2>5, <2>6, <2>7, TakeInHandKeepsProfiles
<1>7. CASE NoMetaToSign(p)
  BY <1>0, <1>7, QuietEndKeepsProfiles DEF NoMetaToSign
<1>8. CASE RemoveBlob(p)
  BY <1>0, <1>8, QuietAdvanceKeepsProfiles DEF RemoveBlob, Place, InHand
<1>9. CASE RemoveMeta(p)
  <2>1. /\ ppc[p] = "remove-meta" /\ ppc' = [ppc EXCEPT ![p] = "remove-yaml"]
        /\ meta' \in {meta, Absent} /\ crowd' = Crowded(p) /\ work' = work
        /\ UNCHANGED <<yaml, stale, leaked>>
    BY <1>9 DEF RemoveMeta, Step
  <2>2. /\ ppc'[p] = "remove-yaml"
        /\ \A q \in Process \ {p} : ppc'[q] = ppc[q] /\ work'[q] = work[q]
    BY <1>0, <2>1
  <2>3. crowd \in BOOLEAN /\ crowd' \in BOOLEAN /\ (crowd => crowd')
    BY <2>1 DEF ProfilesInv, ProfileFiles, Crowded
  <2>4. ProfileFiles'
    BY <1>0, <2>1, <2>3 DEF ProfilesInv, ProfileFiles, Place
  <2>5. OnItsWay(p)' /\ MetaInHand(p)'
    BY <2>2 DEF OnItsWay, MetaInHand, InHand
  <2>6. MetaDecided'
    <3>1. CASE meta' = Absent
      BY <3>1 DEF MetaDecided, Readable
    <3>2. CASE meta' # Absent
      <4>1. meta' = meta /\ granted' = granted /\ blocked' = blocked
        BY <1>9, <2>1, <3>2 DEF RemoveMeta
      <4> QED
        BY <2>3, <4>1 DEF ProfilesInv, MetaDecided, Readable
    <3> QED
      BY <3>1, <3>2
  <2>7. AcceptedIsLatest' /\ QuarantineSticks'
    BY <2>1, <2>3 DEF ProfilesInv, AcceptedIsLatest, QuarantineSticks
  <2> QED
    BY <2>1, <2>2, <2>3, <2>4, <2>5, <2>6, <2>7, StepKeepsProfiles DEF InHand
<1>10. CASE RemoveYaml(p)
  BY <1>0, <1>10, QuietEndKeepsProfiles DEF RemoveYaml
<1>11. CASE CommandDies(p)
  BY <1>0, <1>11, QuietEndKeepsProfiles DEF CommandDies
<1> QED
  BY <1>1, <1>2, <1>3, <1>4, <1>5, <1>6, <1>7, <1>8, <1>9, <1>10, <1>11 DEF FileStep

(* A call that is refused leaves the files and what was decided alone. *)
LEMMA RefuseKeepsProfiles ==
  ASSUME ProfilesInv, NEW s \in Process, NEW from, Refuse(s, from)
  PROVE  ProfilesInv'
<1>1. yaml' \in Text \cup {Absent, Torn} /\ UNCHANGED <<meta, granted, blocked, crowd, stale, leaked>>
  BY DEF Refuse, files, pghosts, ProfilesInv, ProfileFiles
<1> QED
  BY <1>1, QuietEndKeepsProfiles DEF Refuse

LEMMA ServeStepKeepsProfiles ==
  ASSUME ProfilesInv, NEW s \in Server, ServeStep(s)
  PROVE  ProfilesInv'
<1> USE DEF files, pghosts
<1>0. /\ s \in Process /\ yaml \in Text \cup {Absent, Torn} /\ work[s] \in Job
      /\ ppc \in [Process -> Place] /\ work \in [Process -> Job] /\ crowd \in BOOLEAN
  BY DEF ProfilesInv, ProfileFiles, Process
<1>1. ASSUME NEW raw \in BOOLEAN, Call(s, raw) PROVE ProfilesInv'
  <2>1. PICK o \in Errand : o = IF raw THEN "raw-token" ELSE "primitive"
    BY DEF Errand
  <2>2. PICK l \in Place : l = "read-yaml"
    BY DEF Place
  <2>3. BeginCall(s, o, l)
    BY <1>1, <2>1, <2>2 DEF Call
  <2> QED
    BY <2>2, <2>3, CallKeepsProfiles
<1>2. CASE ReadYaml(s)
  <2> DEFINE j == [work[s] EXCEPT !.text = yaml]
  <2>1. /\ ppc' = [ppc EXCEPT ![s] = "verify"] /\ work' = [work EXCEPT ![s] = j]
        /\ UNCHANGED <<meta, yaml, granted, blocked, crowd, stale, leaked>>
    BY <1>0, <1>2 DEF ReadYaml, Step
  <2>2. j \in Job
    BY <1>0 DEF Job
  <2> HIDE DEF j
  <2>3. ppc'[s] = "verify"
    BY <1>0, <2>1
  <2>4. OnItsWay(s)'
    BY <2>3 DEF OnItsWay
  <2> QED
    BY <1>0, <2>1, <2>2, <2>4, QuietStepKeepsProfiles DEF Place, InHand
<1>3. CASE MissingAllowlist(s)
  BY <1>0, <1>3, RefuseKeepsProfiles DEF MissingAllowlist
<1>4. CASE Verify(s)
  <2>1. /\ ppc[s] = "verify" /\ ppc' = [ppc EXCEPT ![s] = "resolve"] /\ work' = work
        /\ UNCHANGED <<meta, yaml, granted, blocked, crowd, leaked>>
    BY <1>4 DEF Verify, Step
  <2>2. /\ ppc'[s] = "resolve"
        /\ \A q \in Process \ {s} : ppc'[q] = ppc[q] /\ work'[q] = work[q]
    BY <1>0, <2>1
  <2>3. ProfileFiles'
    BY <1>0, <2>1 DEF ProfilesInv, ProfileFiles, Place
  <2>4. OnItsWay(s)' /\ MetaInHand(s)'
    BY <2>2 DEF OnItsWay, MetaInHand, InHand
  <2>5. ~crowd => work[s].text = granted
    BY <1>4 DEF Verify, Verified, ProfilesInv, MetaDecided
  <2>6. AcceptedIsLatest'
    <3>1. stale' <=> stale \/ work[s].text # granted
      BY <1>4 DEF Verify
    <3> QED
      BY <2>1, <2>5, <3>1 DEF ProfilesInv, AcceptedIsLatest
  <2>7. MetaDecided' /\ QuarantineSticks'
    BY <2>1 DEF ProfilesInv, MetaDecided, Readable, QuarantineSticks
  <2> QED
    BY <1>0, <2>1, <2>2, <2>3, <2>4, <2>6, <2>7, StepKeepsProfiles DEF InHand
<1>5. CASE AllowlistTampered(s)
  BY <1>0, <1>5, RefuseKeepsProfiles DEF AllowlistTampered
<1>6. CASE GetSecret(s)
  <2>1. UNCHANGED <<meta, yaml, granted, blocked, crowd, stale, leaked>>
    BY <1>6 DEF GetSecret
  <2>2. CASE work[s].op = "raw-token"
    BY <1>0, <1>6, <2>1, <2>2, QuietAdvanceKeepsProfiles DEF GetSecret, Place, InHand
  <2>3. CASE work[s].op # "raw-token"
    BY <1>0, <1>6, <2>1, <2>3, QuietEndKeepsProfiles DEF GetSecret
  <2> QED
    BY <2>2, <2>3
<1>7. CASE NoSecret(s)
  BY <1>0, <1>7, RefuseKeepsProfiles DEF NoSecret
<1>8. CASE HandOut(s)
  <2>1. /\ ppc[s] = "hand-out" /\ ppc' = [ppc EXCEPT ![s] = "idle"]
        /\ work' = [work EXCEPT ![s] = NoWork]
        /\ UNCHANGED <<meta, yaml, granted, blocked, crowd, stale>>
    BY <1>8 DEF HandOut, Finish, Step
  <2>2. /\ ppc'[s] = "idle"
        /\ \A q \in Process \ {s} : ppc'[q] = ppc[q] /\ work'[q] = work[q]
    BY <1>0, <2>1
  <2>3. ProfileFiles'
    BY <1>0, <2>1, NoWorkIsJob DEF ProfilesInv, ProfileFiles, Place
  <2>4. OnItsWay(s)' /\ MetaInHand(s)'
    BY <2>2 DEF OnItsWay, MetaInHand, InHand
  <2>5. ~crowd => ~blocked
    BY <1>8 DEF HandOut, MayHandOut, ProfilesInv, MetaDecided
  <2>6. QuarantineSticks'
    <3>1. leaked' <=> leaked \/ blocked
      BY <1>8, Zenon DEF HandOut
    <3> QED
      BY <2>1, <2>5, <3>1 DEF ProfilesInv, QuarantineSticks
  <2>7. MetaDecided' /\ AcceptedIsLatest'
    BY <2>1 DEF ProfilesInv, MetaDecided, Readable, AcceptedIsLatest
  <2> QED
    BY <1>0, <2>1, <2>2, <2>3, <2>4, <2>6, <2>7, StepKeepsProfiles DEF InHand
<1>9. CASE NoHandOut(s)
  BY <1>0, <1>9, RefuseKeepsProfiles DEF NoHandOut
<1>10. CASE LoadToQuarantine(s)
  <2> DEFINE m == [meta EXCEPT !.quarantined = TRUE]
             j == [work[s] EXCEPT !.meta = m]
  <2>1. /\ ppc[s] = "load-to-quarantine" /\ ppc' = [ppc EXCEPT ![s] = "truncate-meta"]
        /\ Readable(meta) /\ crowd' = Crowded(s)
        /\ UNCHANGED <<meta, yaml, granted, blocked, stale, leaked>>
    BY <1>10 DEF LoadToQuarantine, Step
  <2>2. work[s].op = "quarantine"
    BY <1>0, <2>1 DEF ProfilesInv, OnItsWay
  <2>3. meta \in Profile
    BY <2>1 DEF ProfilesInv, ProfileFiles, Readable
  <2>4. m \in Profile /\ m.allowlist_hmac = meta.allowlist_hmac /\ m.quarantined
    BY <2>3 DEF Profile
  <2>5. ~crowd => meta.allowlist_hmac = granted
    BY <2>1 DEF ProfilesInv, MetaDecided
  <2>6. work' = [work EXCEPT ![s] = j]
    BY <1>0, <1>10 DEF LoadToQuarantine
  <2> HIDE DEF m
  <2>7. j \in Job /\ j.op = "quarantine" /\ j.meta = m
    BY <1>0, <2>2, <2>4 DEF Job, Errand
  <2> HIDE DEF j
  <2> QED
    BY <1>0, <2>1, <2>4, <2>5, <2>6, <2>7, TakeInHandKeepsProfiles
<1>11. CASE NothingToQuarantine(s)
  <2>1. /\ ppc[s] = "load-to-quarantine" /\ ppc' = [ppc EXCEPT ![s] = "idle"]
        /\ work' = [work EXCEPT ![s] = NoWork] /\ ~Readable(meta) /\ crowd' = Crowded(s)
        /\ UNCHANGED <<meta, yaml, granted, stale, leaked>>
    BY <1>11 DEF NothingToQuarantine, Finish, Step
  <2>2. /\ ppc'[s] = "idle"
        /\ \A q \in Process \ {s} : ppc'[q] = ppc[q] /\ work'[q] = work[q]
    BY <1>0, <2>1
  <2>3. crowd' \in BOOLEAN /\ (crowd => crowd')
    BY <2>1 DEF Crowded
  <2>4. ProfileFiles'
    BY <1>0, <2>1, <2>3, NoWorkIsJob DEF ProfilesInv, ProfileFiles, Place
  <2>5. OnItsWay(s)' /\ MetaInHand(s)'
    BY <2>2 DEF OnItsWay, MetaInHand, InHand
  <2>6. MetaDecided'
    BY <2>1 DEF MetaDecided, Readable
  <2>7. AcceptedIsLatest' /\ QuarantineSticks'
    BY <2>1, <2>3 DEF ProfilesInv, AcceptedIsLatest, QuarantineSticks
  <2> QED
    BY <1>0, <2>1, <2>2, <2>3, <2>4, <2>5, <2>6, <2>7, StepKeepsProfiles DEF InHand
<1>12. CASE ServerDies(s)
  BY <1>0, <1>12, QuietEndKeepsProfiles DEF ServerDies
<1> QED
  BY <1>1, <1>2, <1>3, <1>4, <1>5, <1>6, <1>7, <1>8, <1>9, <1>10, <1>11, <1>12 DEF ServeStep

LEMMA NextKeepsProfiles == ProfilesInv /\ [ProfilesNext]_pvars => ProfilesInv'
<1> SUFFICES ASSUME ProfilesInv, [ProfilesNext]_pvars PROVE ProfilesInv'
  OBVIOUS
<1>1. CASE \E p \in Owner : Command(p)
  BY <1>1, CommandKeepsProfiles
<1>2. CASE \E p \in Process : FileStep(p)
  BY <1>2, FileStepKeepsProfiles
<1>3. CASE \E s \in Server : ServeStep(s)
  BY <1>3, ServeStepKeepsProfiles
<1>4. CASE \E s \in Server : Block(s)
  BY <1>4, CallKeepsProfiles DEF Block, Place, Errand
<1>5. CASE UNCHANGED pvars
  BY <1>5 DEF pvars, files, pghosts, ProfilesInv, ProfileFiles, OnItsWay, MetaInHand, Adding, Signing,
     Quarantining, OneInHand, MetaDecided, Readable, AcceptedIsLatest, QuarantineSticks
<1> QED
  BY <1>1, <1>2, <1>3, <1>4, <1>5 DEF ProfilesNext

(* What the owner or a server last decided of a profile holds: a call is     *)
(* admitted only under the text of the last set-allowlist that came to its   *)
(* end, and a quarantine that was answered is kept, for any number of        *)
(* commands and servers that may fail or die at every step, as long as no    *)
(* two of them have the metadata in hand at once.                            *)
THEOREM TheLastWordStands == ProfilesSpec => []LastWordStands
<1>1. ProfilesInv => LastWordStands
  BY DEF ProfilesInv, LastWordStands
<1> QED
  BY <1>1, ProfilesInitInv, NextKeepsProfiles, PTL DEF ProfilesSpec

------------------------------------------------------------------------------
(* The redaction of a text.                                                *)

(* Every set of numbers has a least one.                                     *)
LEMMA LeastOf ==
  ASSUME NEW S \in SUBSET Nat, S # {}
  PROVE  \E k \in S : \A j \in S : k <= j
<1>1. PICK k \in S : \A j \in S : ~(<<j, k>> \in OpToRel(<, Nat))
  BY NatLessThanWellFounded, WFMin
<1>2. \A j \in S : ~(j < k)
  BY <1>1 DEF OpToRel
<1> QED  BY <1>2

(* The run of letters that begins at i ends, at the last one of L or at the  *)
(* end of the text.                                                          *)
LEMMA RunEndIs ==
  ASSUME NEW s \in Seq(Letter), NEW L, NEW i \in 1..(Len(s) + 1)
  PROVE  /\ RunEnd(s, L, i) \in (i - 1)..Len(s)
         /\ \A n \in i..RunEnd(s, L, i) : s[n] \in L
         /\ RunEnd(s, L, i) = Len(s) \/ s[RunEnd(s, L, i) + 1] \notin L
<1> DEFINE B == {n \in i..Len(s) : s[n] \notin L}
           P(j) == (\A n \in i..j : s[n] \in L) /\ (j = Len(s) \/ s[j + 1] \notin L)
<1>0. Len(s) \in Nat /\ i \in Nat
  BY LenProperties
<1>1. \E j \in (i - 1)..Len(s) : P(j)
  <2>1. CASE B = {}
    <3>1. P(Len(s)) /\ Len(s) \in (i - 1)..Len(s)
      BY <1>0, <2>1
    <3> QED BY <3>1
  <2>2. CASE B # {}
    <3>1. B \in SUBSET Nat
      BY <1>0
    <3>2. PICK k \in B : \A n \in B : k <= n
      BY <2>2, <3>1, LeastOf
    <3>3. k \in i..Len(s) /\ s[k] \notin L /\ k - 1 \in (i - 1)..Len(s) /\ k - 1 + 1 = k
      BY <1>0, <3>2
    <3>4. ASSUME NEW n \in i..(k - 1) PROVE s[n] \in L
      BY <1>0, <3>2, <3>3
    <3>5. P(k - 1)
      BY <3>3, <3>4
    <3> QED BY <3>3, <3>5
  <2> QED BY <2>1, <2>2
<1>2. RunEnd(s, L, i) = CHOOSE j \in (i - 1)..Len(s) : P(j)
  BY DEF RunEnd
<1>3. RunEnd(s, L, i) \in (i - 1)..Len(s) /\ P(RunEnd(s, L, i))
  BY <1>1, <1>2
<1> QED BY <1>3

(* A match lies in the text, and its letters are in the alphabet of its      *)
(* pattern.                                                                  *)
LEMMA MatchEndIs ==
  ASSUME NEW s \in Seq(Letter), NEW p \in Provider, NEW i \in 1..Len(s), MatchEnd(s, p, i) # 0
  PROVE  MatchEnd(s, p, i) \in i..Len(s) /\ \A n \in i..MatchEnd(s, p, i) : s[n] \in Alphabet(p)
<1>0. Len(s) \in Nat /\ i \in Nat /\ i + 1 \in Nat /\ i + 2 \in Nat /\ \A n \in 1..Len(s) : s[n] \in Letter
  BY LenProperties
<1>1. CASE p = BoundedKey
  <2>1. MatchEnd(s, p, i) = i + 2 /\ RunEnd(s, Word, i) >= i + 2
    BY <1>1 DEF MatchEnd, Segments, BoundedKey, KeyBlock
  <2>2. RunEnd(s, Word, i) \in (i - 1)..Len(s) /\ \A n \in i..RunEnd(s, Word, i) : s[n] \in Word
    <3>1. i \in 1..(Len(s) + 1)
      BY <1>0
    <3> QED BY <3>1, RunEndIs
  <2>3. Word \subseteq Alphabet(p)
    BY <1>1 DEF Alphabet, BoundedKey, KeyBlock
  <2> QED BY <1>0, <2>1, <2>2, <2>3
<1>2. CASE p = Segments
  <2>1. s[i] = "k" /\ i + 2 <= Len(s) /\ s[i + 1] = "." /\ s[i + 2] \in Word
        /\ MatchEnd(s, p, i) = RunEnd(s, Word, i + 2)
    BY <1>2 DEF MatchEnd, Segments, BoundedKey, KeyBlock
  <2>2. /\ RunEnd(s, Word, i + 2) \in (i + 2 - 1)..Len(s)
        /\ \A n \in (i + 2)..RunEnd(s, Word, i + 2) : s[n] \in Word
    <3>1. i + 2 \in 1..(Len(s) + 1)
      BY <1>0, <2>1
    <3> QED BY <3>1, RunEndIs
  <2>3. Alphabet(p) = Word \cup {"."} /\ "k" \in Word
    BY <1>2 DEF Alphabet, Segments, KeyBlock, Word
  <2>4. ASSUME NEW n \in i..MatchEnd(s, p, i) PROVE s[n] \in Alphabet(p)
    <3>1. n = i \/ n = i + 1 \/ n \in (i + 2)..RunEnd(s, Word, i + 2)
      BY <1>0, <2>1, <2>2
    <3> QED BY <3>1, <2>1, <2>2, <2>3
  <2>5. MatchEnd(s, p, i) \in i..Len(s)
    BY <1>0, <2>1, <2>2
  <2> QED BY <2>4, <2>5
<1>3. CASE p = KeyBlock
  <2> DEFINE L == Alphabet(KeyBlock) \ {"]"}
             e == RunEnd(s, L, i)
  <2>1. s[i] = "[" /\ MatchEnd(s, p, i) = IF e = Len(s) THEN e ELSE e + 1
    BY <1>3 DEF MatchEnd, Segments, BoundedKey, KeyBlock
  <2>2. Alphabet(p) = Letter /\ "[" \in L
    BY <1>3 DEF Alphabet, KeyBlock, Letter
  <2>3. /\ e \in (i - 1)..Len(s)
        /\ e = Len(s) \/ s[e + 1] \notin L
    <3>1. i \in 1..(Len(s) + 1)
      BY <1>0
    <3> HIDE DEF L
    <3> QED BY <3>1, RunEndIs
  <2>4. e # i - 1
    <3>1. i - 1 # Len(s) /\ i - 1 + 1 = i
      BY <1>0
    <3> QED BY <3>1, <2>1, <2>2, <2>3
  <2>5. MatchEnd(s, p, i) \in i..Len(s)
    <3> HIDE DEF L, e
    <3> QED BY <1>0, <2>1, <2>3, <2>4
  <2>6. \A n \in i..MatchEnd(s, p, i) : s[n] \in Letter
    BY <1>0, <2>5
  <2> QED BY <2>2, <2>5, <2>6
<1> QED BY <1>1, <1>2, <1>3 DEF Provider, BoundedKey, Segments, KeyBlock

------------------------------------------------------------------------------
(* The scan.                                                                 *)
SpanOf(s) == {m \in [start : 1..Len(s), end : 1..Len(s), idx : Provider] : m.start <= m.end}

Passed(m) == m.idx < pattern \/ (m.idx = pattern /\ m.start < pos)

Covers(n, m) == n.idx = m.idx /\ n.start <= m.start /\ m.end <= n.end

(* Every token that the scan has passed lies in a span of its provider, and  *)
(* while the budget lasts those tokens are all that was found.               *)
ScanInv ==
  /\ text \in Seq(Letter) /\ pattern \in 1..4 /\ pos \in 1..(Len(text) + 1)
  /\ spans \subseteq SpanOf(text)
  /\ \A m \in Tokens(text) : Passed(m) => \E n \in spans : Covers(n, m)
  /\ ~exhausted => spans = {m \in Tokens(text) : Passed(m)}

LEMMA TokenIs ==
  ASSUME NEW s \in Seq(Letter), NEW m
  PROVE  m \in Tokens(s) <=>
           /\ m \in SpanOf(s) /\ m.end = MatchEnd(s, m.idx, m.start)
           /\ Accepted(SubSeq(s, m.start, m.end), m.idx)
<1>1. ASSUME m \in Tokens(s)
      PROVE  /\ m \in SpanOf(s) /\ m.end = MatchEnd(s, m.idx, m.start)
             /\ Accepted(SubSeq(s, m.start, m.end), m.idx)
  <2>1. PICK i \in 1..Len(s), p \in Provider : m = [start |-> i, end |-> MatchEnd(s, p, i), idx |-> p]
    BY <1>1 DEF Tokens
  <2>2. m.end # 0 /\ Accepted(SubSeq(s, m.start, m.end), m.idx)
    BY <1>1 DEF Tokens
  <2>3. MatchEnd(s, p, i) # 0 /\ Len(s) \in Nat
    BY <2>1, <2>2, LenProperties
  <2>4. MatchEnd(s, p, i) \in i..Len(s)
    BY <2>3, MatchEndIs
  <2>5. m \in SpanOf(s)
    BY <2>1, <2>3, <2>4 DEF SpanOf
  <2> QED BY <2>1, <2>2, <2>5
<1>2. ASSUME m \in SpanOf(s), m.end = MatchEnd(s, m.idx, m.start),
             Accepted(SubSeq(s, m.start, m.end), m.idx)
      PROVE  m \in Tokens(s)
  <2>1. m.start \in 1..Len(s) /\ m.idx \in Provider /\ m.end # 0
    BY <1>2 DEF SpanOf
  <2>2. m = [start |-> m.start, end |-> MatchEnd(s, m.idx, m.start), idx |-> m.idx]
    BY <1>2 DEF SpanOf
  <2>3. m \in {[start |-> i, end |-> MatchEnd(s, p, i), idx |-> p] : i \in 1..Len(s), p \in Provider}
    BY <2>1, <2>2
  <2> QED BY <1>2, <2>1, <2>3 DEF Tokens
<1> QED BY <1>1, <1>2

(* The match found is the first that the scan has not passed.                *)
LEMMA FoundIs ==
  ASSUME ScanInv, Scanning
  PROVE  /\ Found \in SpanOf(text) /\ Found.idx = pattern /\ pos <= Found.start
         /\ Found.end = MatchEnd(text, pattern, Found.start)
         /\ \A n \in Found.start..Found.end : text[n] \in Alphabet(pattern)
         /\ \A m \in Tokens(text) : m.idx = pattern /\ pos <= m.start => Found.start <= m.start
<1>0. Len(text) \in Nat /\ pos \in Nat /\ pos >= 1 /\ text \in Seq(Letter)
  BY LenProperties DEF ScanInv
<1>1. Starts \in SUBSET Nat /\ Starts # {} /\ pattern \in Provider
  BY <1>0 DEF Starts, Scanning
<1>2. \E k \in Starts : \A j \in Starts : k <= j
  BY <1>1, LeastOf
<1>3. find_at \in Starts /\ \A j \in Starts : find_at <= j
  BY <1>2 DEF find_at
<1>4. find_at \in pos..Len(text) /\ find_at \in 1..Len(text) /\ MatchEnd(text, pattern, find_at) # 0
  BY <1>0, <1>3 DEF Starts
<1>5. /\ MatchEnd(text, pattern, find_at) \in find_at..Len(text)
      /\ \A n \in find_at..MatchEnd(text, pattern, find_at) : text[n] \in Alphabet(pattern)
  BY <1>0, <1>1, <1>4, MatchEndIs
<1>6. Found.start = find_at /\ Found.end = MatchEnd(text, pattern, find_at) /\ Found.idx = pattern
  BY DEF Found
<1>7. Found \in SpanOf(text)
  BY <1>0, <1>1, <1>4, <1>5 DEF SpanOf, Found
<1>8. ASSUME NEW m \in Tokens(text), m.idx = pattern, pos <= m.start PROVE find_at <= m.start
  <2>1. m \in SpanOf(text) /\ m.end = MatchEnd(text, pattern, m.start)
    BY <1>0, <1>8, TokenIs
  <2>2. m.start \in Starts
    BY <1>0, <1>8, <2>1 DEF Starts, SpanOf
  <2> QED BY <1>3, <2>2
<1> QED BY <1>4, <1>5, <1>6, <1>7, <1>8

(* A token that the next turn passes begins where the match found does, or   *)
(* within its run.                                                           *)
LEMMA FoundToken ==
  ASSUME ScanInv, Scanning
  PROVE  /\ Found \in Tokens(text) <=> Accepted(SubSeq(text, Found.start, Found.end), pattern)
         /\ ~Passed(Found)
         /\ \A m \in Tokens(text) :
              ~Passed(m) /\ m.idx = pattern /\ m.start < Found.start + 1 => m = Found
<1>0. text \in Seq(Letter) /\ Len(text) \in Nat /\ pos \in Nat /\ pattern \in Nat
  BY LenProperties DEF ScanInv
<1>1. Found \in Tokens(text) <=> Accepted(SubSeq(text, Found.start, Found.end), pattern)
  BY <1>0, FoundIs, TokenIs
<1>2. ~Passed(Found)
  BY <1>0, FoundIs DEF Passed, SpanOf
<1>3. ASSUME NEW m \in Tokens(text), ~Passed(m), m.idx = pattern, m.start < Found.start + 1
      PROVE  m = Found
  <2>1. m \in SpanOf(text) /\ m.end = MatchEnd(text, pattern, m.start)
    BY <1>0, <1>3, TokenIs
  <2>2. m.start \in Nat /\ Found.start \in Nat
    BY <1>0, <2>1, FoundIs DEF SpanOf
  <2>3. pos <= m.start
    BY <1>0, <1>3, <2>2 DEF Passed
  <2>4. m.start = Found.start
    BY <1>3, <2>2, <2>3, FoundIs
  <2> QED BY <1>3, <2>1, <2>4, FoundIs DEF SpanOf
<1> QED BY <1>1, <1>2, <1>3

LEMMA SelectScans ==
  ASSUME ScanInv, Select
  PROVE  ScanInv'
<1>0. Scanning /\ pattern \in Nat /\ Len(text) \in Nat /\ pos \in Nat /\ text \in Seq(Letter)
  BY LenProperties DEF Select, ScanInv
<1>1. /\ text' = text /\ pattern' = pattern /\ exhausted' = exhausted /\ pos' = Found.start + 1
      /\ spans' = IF Found \in Tokens(text) THEN spans \cup {Found} ELSE spans
  BY <1>0, FoundToken DEF Select
<1>2. Found.start \in 1..Len(text) /\ pos <= Found.start /\ Found \in SpanOf(text) /\ Found.idx = pattern
  BY <1>0, FoundIs DEF SpanOf
<1>3. ASSUME NEW m \in Tokens(text)
      PROVE  Passed(m)' <=> Passed(m) \/ m = Found
  <2>1. m \in SpanOf(text)
    BY <1>0, TokenIs
  <2>2. m.start \in Nat /\ m.idx \in Nat
    BY <2>1 DEF SpanOf, Provider
  <2>3. Passed(m)' <=> m.idx < pattern \/ (m.idx = pattern /\ m.start < Found.start + 1)
    BY <1>1 DEF Passed
  <2>4. Passed(m) => Passed(m)'
    BY <1>0, <1>2, <2>2, <2>3 DEF Passed
  <2>5. Passed(m)' => Passed(m) \/ m = Found
    <3>1. SUFFICES ASSUME Passed(m)', ~Passed(m) PROVE m = Found
      OBVIOUS
    <3>2. m.idx = pattern /\ m.start < Found.start + 1
      BY <1>0, <1>1, <2>2, <2>3, <3>1 DEF Passed
    <3> QED BY <1>0, <3>1, <3>2, FoundToken
  <2>6. m = Found => Passed(m)'
    BY <1>2, <2>3
  <2> QED BY <2>4, <2>5, <2>6
<1>4. text' \in Seq(Letter) /\ pattern' \in 1..4 /\ pos' \in 1..(Len(text') + 1) /\ spans' \subseteq SpanOf(text')
  BY <1>0, <1>1, <1>2 DEF ScanInv
<1>5. ASSUME NEW m \in Tokens(text'), Passed(m)' PROVE \E n \in spans' : Covers(n, m)
  <2>1. m \in Tokens(text) /\ m \in SpanOf(text)
    BY <1>0, <1>1, TokenIs
  <2>2. CASE Passed(m)
    BY <1>1, <2>1, <2>2 DEF ScanInv
  <2>3. CASE m = Found
    <3>1. m \in spans'
      BY <1>1, <2>1, <2>3
    <3>2. Covers(m, m)
      BY <2>1 DEF Covers, SpanOf
    <3> QED BY <3>1, <3>2
  <2> QED BY <1>3, <1>5, <2>1, <2>2, <2>3
<1>6. ASSUME ~exhausted' PROVE spans' = {m \in Tokens(text') : Passed(m)'}
  <2>1. spans = {m \in Tokens(text) : Passed(m)}
    BY <1>1, <1>6 DEF ScanInv
  <2>2. \A m \in Tokens(text) : Passed(m)' <=> Passed(m) \/ m = Found
    BY <1>3
  <2>3. spans' = {m \in Tokens(text) : Passed(m) \/ m = Found}
    BY <1>1, <2>1
  <2>4. {m \in Tokens(text) : Passed(m) \/ m = Found} = {m \in Tokens(text) : Passed(m)'}
    BY <2>2
  <2> QED BY <1>1, <2>3, <2>4
<1> QED BY <1>4, <1>5, <1>6 DEF ScanInv, Covers

(* A token that begins in the run ends in it, for its letters are in the     *)
(* alphabet and the letter after the run is not.                             *)
LEMMA SelectClosedScans ==
  ASSUME ScanInv, SelectClosed
  PROVE  ScanInv'
<1>0. Scanning /\ pattern \in Provider /\ Len(text) \in Nat /\ pos \in Nat /\ text \in Seq(Letter) /\ pattern \in Nat
  BY LenProperties DEF SelectClosed, ScanInv, Scanning, Provider
<1> DEFINE w == [Found EXCEPT !.end = run_end]
<1>1. /\ text' = text /\ pattern' = pattern /\ exhausted' /\ pos' = run_end + 1
      /\ spans' = spans \cup {w}
  BY DEF SelectClosed
<1>2. /\ Found.start \in 1..Len(text) /\ pos <= Found.start /\ Found \in SpanOf(text) /\ Found.idx = pattern
      /\ Found.end \in Found.start..Len(text)
  BY <1>0, FoundIs DEF SpanOf
<1>3. /\ run_end \in Found.end..Len(text)
      /\ run_end = Len(text) \/ text[run_end + 1] \notin Alphabet(pattern)
  <2>1. Found.end + 1 \in 1..(Len(text) + 1) /\ Found.end + 1 - 1 = Found.end
    BY <1>0, <1>2
  <2>2. PICK i \in 1..(Len(text) + 1) : i = Found.end + 1
    BY <2>1
  <2>3. run_end = RunEnd(text, Alphabet(pattern), i)
    BY <2>2 DEF run_end
  <2>4. /\ run_end \in (i - 1)..Len(text)
        /\ run_end = Len(text) \/ text[run_end + 1] \notin Alphabet(pattern)
    BY <1>0, <2>3, RunEndIs
  <2> QED BY <1>0, <1>2, <2>1, <2>2, <2>4
<1>4. w.start = Found.start /\ w.end = run_end /\ w.idx = pattern /\ w \in SpanOf(text)
  <2>1. w = [start |-> Found.start, end |-> run_end, idx |-> pattern]
    BY DEF Found
  <2> HIDE DEF w
  <2>2. run_end \in 1..Len(text) /\ Found.start <= run_end
    BY <1>0, <1>2, <1>3
  <2> QED BY <1>0, <1>2, <2>1, <2>2 DEF SpanOf
<1> HIDE DEF w
<1>5. text' \in Seq(Letter) /\ pattern' \in 1..4 /\ pos' \in 1..(Len(text') + 1) /\ spans' \subseteq SpanOf(text')
  BY <1>0, <1>1, <1>2, <1>3, <1>4 DEF ScanInv
<1>6. ASSUME NEW m \in Tokens(text'), Passed(m)' PROVE \E n \in spans' : Covers(n, m)
  <2>1. m \in Tokens(text) /\ m \in SpanOf(text) /\ m.end = MatchEnd(text, m.idx, m.start)
    BY <1>0, <1>1, TokenIs
  <2>2. m.start \in 1..Len(text) /\ m.end \in m.start..Len(text) /\ m.idx \in Provider
    BY <1>0, <2>1 DEF SpanOf
  <2>3. m.idx < pattern \/ (m.idx = pattern /\ m.start < run_end + 1)
    BY <1>1, <1>6 DEF Passed
  <2>4. CASE Passed(m)
    BY <1>1, <2>1, <2>4 DEF ScanInv
  <2>5. CASE ~Passed(m)
    <3>1. m.idx = pattern /\ pos <= m.start /\ m.start <= run_end
      BY <1>0, <1>2, <1>3, <2>2, <2>3, <2>5 DEF Passed, Provider
    <3>2. Found.start <= m.start
      BY <1>0, <2>1, <3>1, FoundIs
    <3>3. \A n \in m.start..m.end : text[n] \in Alphabet(pattern)
      <4>1. MatchEnd(text, pattern, m.start) # 0
        BY <1>0, <2>1, <2>2, <3>1
      <4> QED BY <1>0, <2>1, <2>2, <3>1, <4>1, MatchEndIs
    <3>4. m.end <= run_end
      <4>1. SUFFICES ASSUME m.end > run_end PROVE FALSE
        BY <1>0, <1>2, <1>3, <2>2
      <4>2. run_end + 1 \in m.start..m.end /\ run_end # Len(text)
        BY <1>0, <1>2, <1>3, <2>2, <3>1, <4>1
      <4> QED BY <1>3, <3>3, <4>2
    <3>5. Covers(w, m)
      BY <1>4, <3>1, <3>2, <3>4 DEF Covers
    <3> QED BY <1>1, <3>5
  <2> QED BY <2>4, <2>5
<1> QED BY <1>1, <1>5, <1>6 DEF ScanInv, Covers

LEMMA NextProviderScans ==
  ASSUME ScanInv, NextProvider
  PROVE  ScanInv'
<1>0. pattern \in Provider /\ Starts = {} /\ Len(text) \in Nat /\ pos \in Nat /\ text \in Seq(Letter) /\ pattern \in 1..3
  BY LenProperties DEF NextProvider, ScanInv, Provider
<1>1. text' = text /\ pattern' = pattern + 1 /\ exhausted' = exhausted /\ pos' = 1 /\ spans' = spans
  BY DEF NextProvider
<1>2. ASSUME NEW m \in Tokens(text)
      PROVE  Passed(m)' <=> Passed(m)
  <2>1. m \in SpanOf(text) /\ m.end = MatchEnd(text, m.idx, m.start)
    BY <1>0, TokenIs
  <2>2. m.start \in 1..Len(text) /\ m.idx \in 1..3 /\ m.end # 0
    BY <2>1 DEF SpanOf, Provider
  <2>3. m.idx = pattern => m.start < pos
    BY <1>0, <2>1, <2>2 DEF Starts
  <2>4. Passed(m)' <=> m.idx < pattern + 1 \/ (m.idx = pattern + 1 /\ m.start < 1)
    BY <1>1 DEF Passed
  <2>5. Passed(m) <=> m.idx < pattern \/ (m.idx = pattern /\ m.start < pos)
    BY DEF Passed
  <2>6. m.start \in Nat /\ m.idx \in Nat /\ pattern \in Nat /\ m.start >= 1
    BY <1>0, <2>2
  <2> QED BY <2>3, <2>4, <2>5, <2>6
<1>3. text' \in Seq(Letter) /\ pattern' \in 1..4 /\ pos' \in 1..(Len(text') + 1) /\ spans' \subseteq SpanOf(text')
  BY <1>0, <1>1 DEF ScanInv
<1>4. \A m \in Tokens(text') : Passed(m)' => \E n \in spans' : Covers(n, m)
  BY <1>1, <1>2 DEF ScanInv
<1>5. ASSUME ~exhausted' PROVE spans' = {m \in Tokens(text') : Passed(m)'}
  <2>1. {m \in Tokens(text) : Passed(m)'} = {m \in Tokens(text) : Passed(m)}
    BY <1>2
  <2> QED BY <1>1, <1>5, <2>1 DEF ScanInv
<1> QED BY <1>3, <1>4, <1>5 DEF ScanInv, Covers
------------------------------------------------------------------------------
(* The text written so far: the positions kept rise, all before c, and the   *)
(* rest are k markers.                                                       *)
Positives(o) == {n \in Range(o) : n > 0}

Rising(o) == \A i, j \in DOMAIN o : i < j /\ o[i] > 0 /\ o[j] > 0 => o[i] < o[j]

OutOK(o, c, k) ==
  /\ o \in Seq(Int) /\ Rising(o) /\ \A n \in Positives(o) : n < c
  /\ Len(o) = Cardinality(Positives(o)) + k

LEMMA PositivesFinite ==
  ASSUME NEW o \in Seq(Int), NEW c \in Nat, \A n \in Positives(o) : n < c
  PROVE  IsFiniteSet(Positives(o)) /\ Cardinality(Positives(o)) \in Nat /\ Positives(o) \subseteq 1..(c - 1)
<1>1. Range(o) \subseteq Int
  BY LenProperties DEF Range
<1>2. Positives(o) \subseteq 1..(c - 1)
  BY <1>1 DEF Positives
<1>3. IsFiniteSet(1..(c - 1))
  BY FS_Interval
<1> QED BY <1>2, <1>3, FS_Subset, FS_CardinalityType

(* The text before the next span is kept.                                    *)
LEMMA KeepAdds ==
  ASSUME NEW o, NEW c \in Nat \ {0}, NEW d \in Nat, c <= d + 1, NEW k \in Nat, OutOK(o, c, k)
  PROVE  /\ OutOK(o \o Kept(c, d), d + 1, k)
         /\ Positives(o \o Kept(c, d)) = Positives(o) \cup (c..d)
         /\ Range(o) \subseteq Range(o \o Kept(c, d))
<1>0. o \in Seq(Int) /\ Len(o) \in Nat /\ DOMAIN o = 1..Len(o) /\ \A i \in 1..Len(o) : o[i] \in Int
  BY LenProperties DEF OutOK
<1>1. PICK m \in Nat : m = d + 1 - c
  OBVIOUS
<1>2. Kept(c, d) = [n \in 1..m |-> c + n - 1]
  BY <1>1 DEF Kept
<1>3. PICK v : v = Kept(c, d)
  OBVIOUS
<1>4. v \in Seq(Int) /\ Len(v) = m /\ \A n \in 1..m : v[n] = c + n - 1
  BY <1>1, <1>2, <1>3
<1>5. PICK q : q = o \o v
  OBVIOUS
<1>6. /\ q \in Seq(Int) /\ Len(q) = Len(o) + m /\ DOMAIN q = 1..(Len(o) + m)
      /\ \A i \in 1..(Len(o) + m) : q[i] = IF i <= Len(o) THEN o[i] ELSE v[i - Len(o)]
  <2>1. /\ q \in Seq(Int) /\ Len(q) = Len(o) + m
        /\ \A i \in 1..(Len(o) + m) : q[i] = IF i <= Len(o) THEN o[i] ELSE v[i - Len(o)]
    BY <1>0, <1>4, <1>5, ConcatProperties
  <2> QED BY <2>1, LenProperties
<1>7. \A i \in 1..Len(o) : i \in DOMAIN q /\ q[i] = o[i]
  BY <1>0, <1>1, <1>6
<1>8. \A i \in (Len(o) + 1)..(Len(o) + m) : q[i] = c + (i - Len(o)) - 1
  <2>1. SUFFICES ASSUME NEW i \in (Len(o) + 1)..(Len(o) + m) PROVE q[i] = c + (i - Len(o)) - 1
    OBVIOUS
  <2>2. i \in 1..(Len(o) + m) /\ ~(i <= Len(o)) /\ i - Len(o) \in 1..m
    BY <1>0, <1>1
  <2> QED BY <1>4, <1>6, <2>2
<1>9. Range(o) \subseteq Range(q)
  BY <1>0, <1>7 DEF Range
<1>10. Positives(q) = Positives(o) \cup (c..d)
  <2>1. ASSUME NEW n \in Positives(q) PROVE n \in Positives(o) \cup (c..d)
    <3>1. PICK i \in 1..(Len(o) + m) : n = q[i] /\ n > 0
      BY <1>6 DEF Positives, Range
    <3>2. CASE i <= Len(o)
      <4>1. i \in DOMAIN o /\ n = o[i]
        BY <1>0, <1>7, <3>1, <3>2
      <4> QED BY <3>1, <4>1 DEF Positives, Range
    <3>3. CASE ~(i <= Len(o))
      <4>1. i \in (Len(o) + 1)..(Len(o) + m)
        BY <1>0, <3>1, <3>3
      <4>2. n = c + (i - Len(o)) - 1
        BY <1>8, <3>1, <4>1
      <4> QED BY <1>0, <1>1, <4>1, <4>2
    <3> QED BY <3>2, <3>3
  <2>2. Positives(o) \subseteq Positives(q)
    BY <1>9 DEF Positives
  <2>3. ASSUME NEW n \in c..d PROVE n \in Positives(q)
    <3>1. Len(o) + (n - c + 1) \in (Len(o) + 1)..(Len(o) + m)
      BY <1>0, <1>1, <2>3
    <3>2. PICK i \in (Len(o) + 1)..(Len(o) + m) : i = Len(o) + (n - c + 1)
      BY <3>1
    <3>3. q[i] = c + (i - Len(o)) - 1
      BY <1>8
    <3>4. q[i] = n
      BY <1>0, <2>3, <3>2, <3>3
    <3>5. i \in DOMAIN q
      BY <1>0, <1>1, <1>6
    <3>6. n \in Range(q) /\ n > 0
      BY <2>3, <3>4, <3>5 DEF Range
    <3> QED BY <3>6 DEF Positives
  <2> QED BY <2>1, <2>2, <2>3
<1>11. \A n \in Positives(o) : n \in Int /\ n < c
  BY <1>0 DEF OutOK, Positives, Range
<1>12. \A n \in Positives(q) : n < d + 1
  BY <1>10, <1>11
<1>13. Rising(q)
  <2>1. SUFFICES ASSUME NEW i \in DOMAIN q, NEW j \in DOMAIN q, i < j, q[i] > 0, q[j] > 0 PROVE q[i] < q[j]
    BY DEF Rising
  <2>2. i \in 1..(Len(o) + m) /\ j \in 1..(Len(o) + m)
    BY <1>6, <2>1
  <2>3. CASE j <= Len(o)
    <3>1. i \in DOMAIN o /\ j \in DOMAIN o /\ q[i] = o[i] /\ q[j] = o[j]
      BY <1>0, <1>7, <2>1, <2>2, <2>3
    <3> QED BY <2>1, <3>1 DEF OutOK, Rising
  <2>4. CASE i <= Len(o) /\ ~(j <= Len(o))
    <3>1. i \in DOMAIN o /\ q[i] = o[i] /\ j \in (Len(o) + 1)..(Len(o) + m)
      BY <1>0, <1>7, <2>2, <2>4
    <3>2. o[i] \in Positives(o)
      BY <2>1, <3>1 DEF Positives, Range
    <3>3. q[j] = c + (j - Len(o)) - 1
      BY <1>8, <3>1
    <3> QED BY <1>0, <1>11, <3>1, <3>2, <3>3
  <2>5. CASE ~(i <= Len(o))
    <3>1. i \in (Len(o) + 1)..(Len(o) + m) /\ j \in (Len(o) + 1)..(Len(o) + m)
      BY <1>0, <2>1, <2>2, <2>5
    <3>2. q[i] = c + (i - Len(o)) - 1 /\ q[j] = c + (j - Len(o)) - 1
      BY <1>8, <3>1
    <3> QED BY <1>0, <2>1, <3>1, <3>2
  <2> QED BY <2>3, <2>4, <2>5
<1>14. Len(q) = Cardinality(Positives(q)) + k
  <2>1. IsFiniteSet(Positives(o)) /\ Cardinality(Positives(o)) \in Nat
    BY <1>0, <1>11, PositivesFinite
  <2>2. IsFiniteSet(c..d) /\ Cardinality(c..d) = m
    <3>1. IsFiniteSet(c..d) /\ Cardinality(c..d) = IF c > d THEN 0 ELSE d - c + 1
      BY FS_Interval
    <3> QED BY <1>1, <3>1
  <2>3. Positives(o) \cap (c..d) = {}
    BY <1>11
  <2>4. Cardinality(Positives(q)) = Cardinality(Positives(o)) + m
    <3> DEFINE A == Positives(o)
               B == c..d
    <3>1. IsFiniteSet(A) /\ IsFiniteSet(B) /\ A \cap B = {} /\ Positives(q) = A \cup B
      BY <1>10, <2>1, <2>2, <2>3
    <3>2. Cardinality(A) \in Nat /\ Cardinality(B) = m
      BY <2>1, <2>2
    <3> HIDE DEF A, B
    <3>3. Cardinality(A \cup B) = Cardinality(A) + Cardinality(B) - Cardinality(A \cap B)
      BY <3>1, FS_Union
    <3>4. Cardinality(A \cap B) = 0
      BY <3>1, FS_EmptySet
    <3>5. Cardinality(Positives(q)) = Cardinality(A) + m
      BY <1>1, <3>1, <3>2, <3>3, <3>4
    <3> QED BY <3>5 DEF A
  <2>5. Len(o) = Cardinality(Positives(o)) + k
    BY DEF OutOK
  <2> QED BY <1>1, <1>6, <2>1, <2>4, <2>5
<1> QED BY <1>3, <1>5, <1>6, <1>9, <1>10, <1>12, <1>13, <1>14 DEF OutOK

(* A span is replaced by a marker.                                           *)
LEMMA MarkerAdds ==
  ASSUME NEW o, NEW c \in Nat, NEW k \in Nat, OutOK(o, c, k), NEW p \in Provider
  PROVE  /\ OutOK(o \o <<Marker(p)>>, c, k + 1)
         /\ Positives(o \o <<Marker(p)>>) = Positives(o)
         /\ Range(o) \subseteq Range(o \o <<Marker(p)>>)
         /\ Marker(p) \in Range(o \o <<Marker(p)>>)
<1>0. /\ o \in Seq(Int) /\ Len(o) \in Nat /\ DOMAIN o = 1..Len(o) /\ \A i \in 1..Len(o) : o[i] \in Int
      /\ \A n \in Positives(o) : n < c
  BY LenProperties DEF OutOK
<1>1. PICK x \in Int : x = Marker(p) /\ ~(x > 0)
  BY DEF Marker, Provider
<1>2. PICK q : q = o \o <<x>>
  OBVIOUS
<1>3. /\ q \in Seq(Int) /\ Len(q) = Len(o) + 1 /\ DOMAIN q = 1..(Len(o) + 1)
      /\ \A i \in 1..Len(o) : q[i] = o[i]
      /\ q[Len(o) + 1] = x
  <2>1. q = Append(o, x)
    BY <1>0, <1>2, AppendIsConcat
  <2> QED BY <1>0, <2>1, AppendProperties, LenProperties
<1>4. \A i \in 1..Len(o) : i \in DOMAIN q /\ q[i] = o[i]
  BY <1>0, <1>3
<1>5. Range(o) \subseteq Range(q)
  BY <1>0, <1>4 DEF Range
<1>6. x \in Range(q)
  <2>1. Len(o) + 1 \in DOMAIN q
    BY <1>0, <1>3
  <2> QED BY <1>3, <2>1 DEF Range
<1>7. \A i \in DOMAIN q : q[i] > 0 => i \in DOMAIN o /\ q[i] = o[i]
  <2>1. \A i \in 1..(Len(o) + 1) : i \in 1..Len(o) \/ i = Len(o) + 1
    BY <1>0
  <2> QED BY <1>0, <1>1, <1>3, <2>1
<1>8. Positives(q) = Positives(o)
  <2>1. Positives(o) \subseteq Positives(q)
    BY <1>5 DEF Positives
  <2>2. Positives(q) \subseteq Positives(o)
    BY <1>7 DEF Positives, Range
  <2> QED BY <2>1, <2>2
<1>9. Rising(q)
  BY <1>7 DEF Rising, OutOK
<1>10. Len(q) = Cardinality(Positives(q)) + (k + 1)
  <2>1. Cardinality(Positives(o)) \in Nat
    BY <1>0, PositivesFinite
  <2>2. Len(o) = Cardinality(Positives(o)) + k
    BY DEF OutOK
  <2> QED BY <1>0, <1>3, <1>8, <2>1, <2>2
<1> QED BY <1>0, <1>1, <1>2, <1>3, <1>5, <1>6, <1>8, <1>9, <1>10 DEF OutOK
------------------------------------------------------------------------------
(* The order in which the spans are spliced out.                             *)
LEMMA SpanFields ==
  ASSUME NEW s \in Seq(Letter), NEW m \in SpanOf(s)
  PROVE  /\ m.start \in Nat /\ m.end \in Nat /\ m.idx \in Nat /\ m.start >= 1 /\ m.start <= m.end
         /\ m.end <= Len(s) /\ Len(s) \in Nat /\ m.idx \in Provider
         /\ m = [start |-> m.start, end |-> m.end, idx |-> m.idx]
BY LenProperties DEF SpanOf, Provider

LEMMA BeforeOrder ==
  ASSUME NEW s \in Seq(Letter), NEW a \in SpanOf(s), NEW b \in SpanOf(s)
  PROVE  /\ Before(a, b) => a.start <= b.start /\ ~Before(b, a) /\ a # b
         /\ a = b \/ Before(a, b) \/ Before(b, a)
BY SpanFields DEF Before

LEMMA FirstIs ==
  ASSUME NEW s \in Seq(Letter), sorted \subseteq SpanOf(s), sorted # {}
  PROVE  First \in sorted /\ \A n \in sorted : n = First \/ Before(First, n)
<1> DEFINE S1 == {m.start : m \in sorted}
<1>1. PICK k \in S1 : \A j \in S1 : k <= j
  <2>1. S1 \in SUBSET Nat /\ S1 # {}
    BY SpanFields
  <2> HIDE DEF S1
  <2> QED BY <2>1, LeastOf
<1> DEFINE A == {m \in sorted : m.start = k}
           S2 == {Len(s) - m.end : m \in A}
<1>2. A # {} /\ A \subseteq SpanOf(s) /\ \A n \in sorted : k <= n.start
  BY <1>1
<1>3. PICK e \in S2 : \A j \in S2 : e <= j
  <2>1. \A m \in A : Len(s) - m.end \in Nat
    BY <1>2, SpanFields
  <2>2. S2 \in SUBSET Nat /\ S2 # {}
    BY <1>2, <2>1
  <2> HIDE DEF S2
  <2> QED BY <2>2, LeastOf
<1> DEFINE B == {m \in A : Len(s) - m.end = e}
           S3 == {m.idx : m \in B}
<1>4. B # {} /\ B \subseteq SpanOf(s)
  BY <1>2, <1>3
<1>5. PICK i \in S3 : \A j \in S3 : i <= j
  <2>1. S3 \in SUBSET Nat /\ S3 # {}
    BY <1>4, SpanFields
  <2> HIDE DEF S3
  <2> QED BY <2>1, LeastOf
<1>6. PICK d \in B : d.idx = i
  BY <1>5
<1>7. d \in sorted /\ d.start = k /\ Len(s) - d.end = e /\ d \in SpanOf(s)
  BY <1>6
<1>8. ASSUME NEW n \in sorted PROVE n = d \/ Before(d, n)
  <2>1. n \in SpanOf(s) /\ k <= n.start
    BY <1>2
  <2>2. n.start = k => e <= Len(s) - n.end
    BY <1>3
  <2>3. n.start = k /\ Len(s) - n.end = e => i <= n.idx
    BY <1>5
  <2> HIDE DEF A, B, S1, S2, S3
  <2> QED BY <1>6, <1>7, <2>1, <2>2, <2>3, SpanFields DEF Before
<1> QED BY <1>7, <1>8 DEF First

------------------------------------------------------------------------------
(* Chains of spans.                                                          *)
Leaders(S) == {m \in Chains(S) : Leads(m, S)}

Firstling(g, G) == g \in G /\ \A m \in G : m = g \/ Before(g, m)

(* The span o is what the chain G becomes when it is merged.                 *)
Merges(o, G) ==
  /\ \E g \in G : Firstling(g, G) /\ g.start = o.start /\ g.idx = o.idx
  /\ \A m \in G : m.start > o.start => \E n \in G : n.start < m.start /\ m.start <= n.end
  /\ \E m \in G : m.end = o.end
  /\ Covered(G) = o.start..o.end

LEMMA InCovered ==
  ASSUME NEW S, NEW n
  PROVE  n \in Covered(S) <=> \E m \in S : n \in m.start..m.end
BY DEF Covered

LEMMA MergesOne ==
  ASSUME NEW s \in Seq(Letter), NEW x \in SpanOf(s)
  PROVE  Merges(x, {x})
<1>1. Firstling(x, {x})
  BY DEF Firstling
<1>2. Covered({x}) = x.start..x.end
  BY DEF Covered
<1>3. ~(x.start > x.start)
  BY SpanFields
<1> QED BY <1>1, <1>2, <1>3 DEF Merges

(* A span that begins in a chain belongs to it.                              *)
LEMMA MergesMore ==
  ASSUME NEW s \in Seq(Letter), NEW o \in SpanOf(s), NEW G \in SUBSET SpanOf(s), Merges(o, G),
         NEW x \in SpanOf(s), x.start <= o.end, \A m \in G : Before(m, x),
         NEW e, e = IF x.end > o.end THEN x.end ELSE o.end
  PROVE  Merges([o EXCEPT !.end = e], G \cup {x}) /\ [o EXCEPT !.end = e] \in SpanOf(s)
<1>0. /\ o.start \in Nat /\ o.end \in Nat /\ x.start \in Nat /\ x.end \in Nat /\ x.start <= x.end /\ o.start <= o.end
      /\ e \in Nat /\ e >= o.end /\ e >= x.end
  BY SpanFields
<1>1. PICK r : r = [o EXCEPT !.end = e]
  OBVIOUS
<1>2. r.start = o.start /\ r.end = e /\ r.idx = o.idx /\ r \in SpanOf(s)
  <2>1. r = [start |-> o.start, end |-> e, idx |-> o.idx]
    BY <1>1 DEF SpanOf
  <2>2. e \in 1..Len(s) /\ o.start <= e
    BY <1>0, SpanFields
  <2> QED BY <2>1, <2>2 DEF SpanOf
<1>3. PICK g \in G : Firstling(g, G) /\ g.start = o.start /\ g.idx = o.idx
  BY DEF Merges
<1>4. Firstling(g, G \cup {x})
  BY <1>3 DEF Firstling
<1>5. o.start <= x.start
  BY <1>3, BeforeOrder
<1>6. ASSUME NEW m \in G \cup {x}, m.start > r.start
      PROVE  \E n \in G \cup {x} : n.start < m.start /\ m.start <= n.end
  <2>1. CASE m \in G
    BY <1>2, <1>6, <2>1 DEF Merges
  <2>2. CASE m = x
    <3>1. x.start \in Covered(G)
      BY <1>0, <1>5 DEF Merges
    <3>2. PICK n \in G : x.start \in n.start..n.end
      BY <3>1, InCovered
    <3>3. n.start \in Nat /\ n.end \in Nat /\ n.start <= x.start /\ x.start <= n.end
      BY <1>0, <3>2, SpanFields
    <3>4. CASE n.start < x.start
      BY <2>2, <3>3, <3>4
    <3>5. CASE n.start = x.start
      <4>1. n.start > o.start
        BY <1>2, <1>6, <2>2, <3>5
      <4>2. PICK l \in G : l.start < n.start /\ n.start <= l.end
        BY <4>1 DEF Merges
      <4> QED BY <2>2, <3>5, <4>2
    <3> QED BY <1>0, <3>3, <3>4, <3>5
  <2> QED BY <2>1, <2>2
<1>7. \E m \in G \cup {x} : m.end = r.end
  BY <1>2 DEF Merges
<1>8. Covered(G \cup {x}) = r.start..r.end
  <2>1. Covered(G \cup {x}) = Covered(G) \cup (x.start..x.end)
    BY DEF Covered
  <2>2. Covered(G) = o.start..o.end
    BY DEF Merges
  <2>3. (o.start..o.end) \cup (x.start..x.end) = o.start..e
    BY <1>0, <1>5
  <2> QED BY <1>2, <2>1, <2>2, <2>3
<1> QED BY <1>1, <1>2, <1>3, <1>4, <1>6, <1>7, <1>8 DEF Merges

(* A chain after all others has one leader, its first span.                  *)
LEMMA OneLeader ==
  ASSUME NEW s \in Seq(Letter), NEW o \in SpanOf(s), NEW c \in Nat,
         NEW W \in SUBSET SpanOf(s), \A m \in W : m.end < c,
         NEW G \in SUBSET SpanOf(s), \A m \in G : m.start >= c, Merges(o, G)
  PROVE  \E g \in G : g.idx = o.idx /\ g \notin W /\ Leaders(W \cup G) = Leaders(W) \cup {g}
<1>1. PICK g \in G : Firstling(g, G) /\ g.start = o.start /\ g.idx = o.idx
  BY DEF Merges
<1>2. \A m \in W : m.start \in Nat /\ m.end \in Nat /\ m.start <= m.end /\ m.end < c
  BY SpanFields
<1>3. \A m \in G : m.start \in Nat /\ m.end \in Nat /\ m.start <= m.end /\ m.start >= c
  BY SpanFields
<1>4. ASSUME NEW m \in W PROVE m \in Leaders(W \cup G) <=> m \in Leaders(W)
  <2>1. \A n \in G : n.start >= m.start /\ n.start # m.start
    BY <1>2, <1>3
  <2>2. m \in Chains(W \cup G) <=> m \in Chains(W)
    BY <2>1 DEF Chains
  <2>3. Leads(m, W \cup G) <=> Leads(m, W)
    BY <2>1 DEF Leads
  <2> QED BY <2>2, <2>3 DEF Leaders
<1>5. g \in Leaders(W \cup G)
  <2>1. \A n \in W : n.end < g.start /\ n.start # g.start
    BY <1>2, <1>3
  <2>2. \A n \in G : n = g \/ Before(g, n)
    BY <1>1 DEF Firstling
  <2>3. \A n \in G : n.start >= g.start
    BY <1>3, <2>2, BeforeOrder
  <2>4. g \in Chains(W \cup G)
    BY <2>1, <2>3 DEF Chains
  <2>5. Leads(g, W \cup G)
    BY <2>1, <2>2 DEF Leads
  <2> QED BY <2>4, <2>5 DEF Leaders
<1>6. ASSUME NEW m \in G, m # g PROVE m \notin Leaders(W \cup G)
  <2>1. Before(g, m)
    BY <1>1, <1>6 DEF Firstling
  <2>2. g.start <= m.start /\ ~Before(m, g)
    BY <2>1, BeforeOrder
  <2>3. CASE m.start = g.start
    <3>1. ~Leads(m, W \cup G)
      BY <1>6, <2>2, <2>3 DEF Leads
    <3> QED BY <3>1 DEF Leaders
  <2>4. CASE m.start # g.start
    <3>1. m.start > o.start
      BY <1>1, <1>3, <2>2, <2>4
    <3>2. PICK n \in G : n.start < m.start /\ m.start <= n.end
      BY <3>1 DEF Merges
    <3>3. ~(n.start >= m.start) /\ ~(n.end < m.start)
      BY <1>3, <3>2
    <3>4. m \notin Chains(W \cup G)
      BY <3>3 DEF Chains
    <3> QED BY <3>4 DEF Leaders
  <2> QED BY <2>3, <2>4
<1>7. g \notin W
  BY <1>2, <1>3
<1>8. Leaders(W \cup G) \subseteq W \cup G /\ Leaders(W) \subseteq W
  BY DEF Leaders, Chains
<1>9. Leaders(W \cup G) = Leaders(W) \cup {g}
  BY <1>4, <1>5, <1>6, <1>8
<1> QED BY <1>1, <1>7, <1>9

(* What has been written of the spans W, all before c, is the rest of the    *)
(* text up to there with one marker for each chain.                          *)
WrittenOK(W, c, u) ==
  /\ \A m \in W : m.end < c
  /\ Positives(u) = (1..(c - 1)) \ Covered(W)
  /\ OutOK(u, c, Cardinality(Leaders(W)))
  /\ \A m \in Leaders(W) : Marker(m.idx) \in Range(u)

WrittenOf(H, c) == {m \in H : m.start < c}
PendingOf(H, c) == {m \in H : m.start >= c}

(* The spans H have been taken and q have not: those of H before the cursor  *)
(* are written and the others are what the open span merges.                 *)
SpliceOK(s, H, q, o, c, u) ==
  /\ H \subseteq SpanOf(s) /\ q \subseteq SpanOf(s) /\ c \in 1..(Len(s) + 1)
  /\ \A m \in H, n \in q : Before(m, n)
  /\ WrittenOK(WrittenOf(H, c), c, u)
  /\ o = NoSpan => PendingOf(H, c) = {} /\ \A m \in q : m.start >= c
  /\ o # NoSpan => o \in SpanOf(s) /\ Merges(o, PendingOf(H, c))

FirstOf(x, q) == x \in q /\ \A n \in q : n = x \/ Before(x, n)

LEMMA SpansFinite ==
  ASSUME NEW s \in Seq(Letter)
  PROVE  IsFiniteSet(SpanOf(s))
<1> DEFINE A == 1..Len(s)
           B == Provider
           R == [start : A, end : A, idx : B]
           P == (A \X A) \X B
           f == [t \in P |-> [start |-> t[1][1], end |-> t[1][2], idx |-> t[2]]]
<1>1. IsFiniteSet(A) /\ IsFiniteSet(B)
  <2>1. Len(s) \in Int /\ 1 \in Int /\ 3 \in Int
    BY LenProperties
  <2>2. IsFiniteSet(A)
    BY <2>1, FS_Interval
  <2>3. IsFiniteSet(B)
    BY <2>1, FS_Interval DEF Provider
  <2> QED BY <2>2, <2>3
<1>2. IsFiniteSet(P)
  <2> HIDE DEF A, B
  <2>1. IsFiniteSet(A \X A)
    BY <1>1, FS_Product
  <2> QED BY <1>1, <2>1, FS_Product
<1>3. f \in Surjection(P, R)
  <2> HIDE DEF A, B
  <2>1. f \in [P -> R]
    OBVIOUS
  <2>2. ASSUME NEW r \in R PROVE \E t \in P : f[t] = r
    <3>1. <<<<r.start, r.end>>, r.idx>> \in P
      OBVIOUS
    <3>2. f[<<<<r.start, r.end>>, r.idx>>] = r
      BY <3>1
    <3> QED BY <3>1, <3>2
  <2> HIDE DEF f, P, R
  <2> QED BY <2>1, <2>2 DEF Surjection
<1>4. IsFiniteSet(R)
  <2> HIDE DEF f, P, R
  <2> QED BY <1>2, <1>3, FS_Surjection
<1> QED BY <1>4, FS_Subset DEF SpanOf

LEMMA LeadersCounted ==
  ASSUME NEW s \in Seq(Letter), NEW W \in SUBSET SpanOf(s)
  PROVE  IsFiniteSet(Leaders(W)) /\ Cardinality(Leaders(W)) \in Nat
<1>1. Leaders(W) \in SUBSET SpanOf(s)
  BY DEF Leaders, Chains
<1> QED BY <1>1, SpansFinite, FS_Subset, FS_CardinalityType

LEMMA SpliceStarts ==
  ASSUME NEW s \in Seq(Letter), NEW q \in SUBSET SpanOf(s)
  PROVE  SpliceOK(s, {}, q, NoSpan, 1, <<>>)
<1>1. WrittenOf({}, 1) = {} /\ PendingOf({}, 1) = {} /\ Leaders({}) = {} /\ Covered({}) = {}
  BY DEF WrittenOf, PendingOf, Leaders, Chains, Covered
<1>2. Positives(<<>>) = {}
  BY DEF Positives, Range
<1>3. OutOK(<<>>, 1, 0)
  <2>1. <<>> \in Seq(Int) /\ Len(<<>>) = 0 /\ Rising(<<>>)
    BY DEF Rising
  <2>2. Cardinality(Positives(<<>>)) = 0
    BY <1>2, FS_EmptySet
  <2> QED BY <1>2, <2>1, <2>2 DEF OutOK
<1>4. WrittenOK({}, 1, <<>>)
  <2>1. Cardinality(Leaders({})) = 0
    BY <1>1, FS_EmptySet
  <2>2. 1..(1 - 1) = {}
    OBVIOUS
  <2> QED BY <1>1, <1>2, <1>3, <2>1, <2>2 DEF WrittenOK
<1>5. \A m \in q : m.start >= 1
  BY SpanFields
<1>6. 1 \in 1..(Len(s) + 1)
  BY LenProperties
<1> QED BY <1>1, <1>4, <1>5, <1>6 DEF SpliceOK

LEMMA SpanNotNoSpan ==
  ASSUME NEW s \in Seq(Letter), NEW x \in SpanOf(s)
  PROVE  x # NoSpan
<1>1. NoSpan.idx = 0
  BY DEF NoSpan
<1> QED BY <1>1, SpanFields DEF Provider

LEMMA SpliceOpens ==
  ASSUME NEW s \in Seq(Letter), NEW H, NEW q, NEW c, NEW u, SpliceOK(s, H, q, NoSpan, c, u),
         NEW x, FirstOf(x, q)
  PROVE  SpliceOK(s, H \cup {x}, q \ {x}, x, c, u)
<1>1. x \in SpanOf(s) /\ x \in q /\ x.start >= c /\ PendingOf(H, c) = {} /\ c \in Nat
  BY LenProperties DEF SpliceOK, FirstOf
<1>2. WrittenOf(H \cup {x}, c) = WrittenOf(H, c)
  BY <1>1, SpanFields DEF WrittenOf
<1>3. PendingOf(H \cup {x}, c) = {x}
  BY <1>1 DEF PendingOf
<1>4. Merges(x, {x})
  BY <1>1, MergesOne
<1>5. x # NoSpan
  BY <1>1, SpanNotNoSpan
<1>6. \A m \in H \cup {x}, n \in q \ {x} : Before(m, n)
  BY DEF SpliceOK, FirstOf
<1> QED BY <1>1, <1>2, <1>3, <1>4, <1>5, <1>6 DEF SpliceOK

LEMMA SpliceMerges ==
  ASSUME NEW s \in Seq(Letter), NEW H, NEW q, NEW c, NEW u, NEW o, SpliceOK(s, H, q, o, c, u), o # NoSpan,
         NEW x, FirstOf(x, q), x.start <= o.end,
         NEW e, e = IF x.end > o.end THEN x.end ELSE o.end
  PROVE  SpliceOK(s, H \cup {x}, q \ {x}, [o EXCEPT !.end = e], c, u)
<1>1. /\ x \in SpanOf(s) /\ x \in q /\ c \in Nat /\ o \in SpanOf(s) /\ Merges(o, PendingOf(H, c))
      /\ \A m \in H : m \in SpanOf(s) /\ Before(m, x)
  BY LenProperties DEF SpliceOK, FirstOf
<1>2. PICK g \in PendingOf(H, c) : g.start = o.start
  BY <1>1 DEF Merges
<1>3. g \in SpanOf(s) /\ Before(g, x) /\ g.start >= c
  BY <1>1, <1>2 DEF PendingOf
<1>4. x.start >= c
  <2>1. g.start <= x.start
    BY <1>1, <1>3, BeforeOrder
  <2> QED BY <1>1, <1>3, <2>1, SpanFields
<1>5. WrittenOf(H \cup {x}, c) = WrittenOf(H, c)
  BY <1>1, <1>4, SpanFields DEF WrittenOf
<1>6. PendingOf(H \cup {x}, c) = PendingOf(H, c) \cup {x}
  BY <1>4 DEF PendingOf
<1>7. Merges([o EXCEPT !.end = e], PendingOf(H, c) \cup {x}) /\ [o EXCEPT !.end = e] \in SpanOf(s)
  <2>1. PendingOf(H, c) \in SUBSET SpanOf(s) /\ \A m \in PendingOf(H, c) : Before(m, x)
    BY <1>1 DEF PendingOf
  <2> QED BY <1>1, <2>1, MergesMore
<1>8. [o EXCEPT !.end = e] # NoSpan
  BY <1>7, SpanNotNoSpan
<1>9. \A m \in H \cup {x}, n \in q \ {x} : Before(m, n)
  BY DEF SpliceOK, FirstOf
<1> QED BY <1>1, <1>5, <1>6, <1>7, <1>8, <1>9 DEF SpliceOK

LEMMA WrittenMore ==
  ASSUME NEW s \in Seq(Letter), NEW o \in SpanOf(s), NEW c \in Nat \ {0}, NEW u,
         NEW W \in SUBSET SpanOf(s), WrittenOK(W, c, u),
         NEW G \in SUBSET SpanOf(s), \A m \in G : m.start >= c, Merges(o, G)
  PROVE  WrittenOK(W \cup G, o.end + 1, u \o Kept(c, o.start - 1) \o <<Marker(o.idx)>>)
<1>0. /\ o.start \in Nat /\ o.end \in Nat /\ o.start <= o.end /\ o.idx \in Provider /\ o.end + 1 \in Nat
      /\ \A m \in W : m.start \in Nat /\ m.end \in Nat /\ m.end < c
      /\ \A m \in G : m.start \in Nat /\ m.end \in Nat /\ m.start <= m.end /\ m.start >= c
  BY SpanFields DEF WrittenOK
<1>1. PICK g \in G : g.idx = o.idx /\ g \notin W /\ Leaders(W \cup G) = Leaders(W) \cup {g}
  <2>1. c \in Nat /\ (\A m \in W : m.end < c) /\ \A m \in G : m.start >= c
    BY <1>0
  <2> QED BY <2>1, OneLeader
<1>2. Covered(G) = o.start..o.end /\ \E m \in G : m.start = o.start
  BY DEF Merges
<1>3. c <= o.start
  BY <1>2
<1>4. \A m \in G : m.end < o.end + 1
  <2>1. SUFFICES ASSUME NEW m \in G PROVE m.end < o.end + 1
    OBVIOUS
  <2>2. m.end \in Covered(G)
    BY <1>0, InCovered
  <2> QED BY <1>0, <1>2, <2>2
<1>5. \A m \in W \cup G : m.end < o.end + 1
  BY <1>0, <1>3, <1>4
<1>6. PICK d \in Nat : d = o.start - 1 /\ d + 1 = o.start
  BY <1>0, <1>3
<1>7. PICK k \in Nat : k = Cardinality(Leaders(W)) /\ OutOK(u, c, k)
  BY LeadersCounted DEF WrittenOK
<1>8. PICK v : v = u \o Kept(c, d)
  OBVIOUS
<1>9. OutOK(v, d + 1, k) /\ Positives(v) = Positives(u) \cup (c..d) /\ Range(u) \subseteq Range(v)
  <2>1. c <= d + 1
    BY <1>3, <1>6
  <2> QED BY <1>7, <1>8, <2>1, KeepAdds
<1>10. PICK w : w = v \o <<Marker(o.idx)>>
  OBVIOUS
<1>11. /\ OutOK(w, d + 1, k + 1) /\ Positives(w) = Positives(v)
       /\ Range(v) \subseteq Range(w) /\ Marker(o.idx) \in Range(w)
  <2>1. PICK b \in Nat : b = d + 1
    BY <1>6
  <2>2. OutOK(v, b, k)
    BY <1>9, <2>1
  <2> QED BY <1>0, <1>10, <2>1, <2>2, MarkerAdds
<1>12. Cardinality(Leaders(W \cup G)) = k + 1
  <2>1. IsFiniteSet(Leaders(W)) /\ g \notin Leaders(W)
    BY <1>1, LeadersCounted DEF Leaders, Chains
  <2> QED BY <1>1, <1>7, <2>1, FS_AddElement
<1>13. Positives(w) = (1..o.end) \ Covered(W \cup G)
  <2>1. Positives(w) = ((1..(c - 1)) \ Covered(W)) \cup (c..d)
    BY <1>9, <1>11 DEF WrittenOK
  <2>2. Covered(W \cup G) = Covered(W) \cup (o.start..o.end)
    BY <1>2 DEF Covered
  <2>3. \A n \in Covered(W) : n \in Int /\ n < c
    <3>1. SUFFICES ASSUME NEW n \in Covered(W) PROVE n \in Int /\ n < c
      OBVIOUS
    <3>2. PICK m \in W : n \in m.start..m.end
      BY InCovered
    <3> QED BY <1>0, <3>2
  <2>5. ASSUME NEW n \in Int
        PROVE  n \in ((1..(c - 1)) \ Covered(W)) \cup (c..d)
                 <=> n \in (1..o.end) \ (Covered(W) \cup (o.start..o.end))
    BY <1>0, <1>3, <1>6, <2>3
  <2>6. ((1..(c - 1)) \ Covered(W)) \cup (c..d) = (1..o.end) \ (Covered(W) \cup (o.start..o.end))
    BY <1>0, <2>5
  <2> QED BY <2>1, <2>2, <2>6
<1>14. OutOK(w, o.end + 1, k + 1)
  <2>1. \A n \in Positives(w) : n \in 1..o.end
    BY <1>13
  <2>2. \A n \in Positives(w) : n < o.end + 1
    BY <1>0, <2>1
  <2> QED BY <1>11, <2>2 DEF OutOK
<1>15. \A m \in Leaders(W \cup G) : Marker(m.idx) \in Range(w)
  <2>1. \A m \in Leaders(W) : Marker(m.idx) \in Range(u)
    BY DEF WrittenOK
  <2> QED BY <1>1, <1>9, <1>11, <2>1
<1>16. w = u \o Kept(c, o.start - 1) \o <<Marker(o.idx)>>
  BY <1>6, <1>8, <1>10
<1>17. WrittenOK(W \cup G, o.end + 1, w)
  <2>1. OutOK(w, o.end + 1, Cardinality(Leaders(W \cup G)))
    BY <1>12, <1>14
  <2>2. PICK z \in Nat : z = o.end + 1 /\ z - 1 = o.end
    BY <1>0
  <2>3. PICK M : M = W \cup G
    OBVIOUS
  <2>4. \A m \in M : m.end < z
    BY <1>5, <2>2, <2>3
  <2>5. Positives(w) = (1..(z - 1)) \ Covered(M)
    <3>1. Positives(w) = (1..o.end) \ Covered(M)
      BY <1>13, <2>3
    <3> QED BY <2>2, <3>1
  <2>6. OutOK(w, z, Cardinality(Leaders(M)))
    BY <2>1, <2>2, <2>3
  <2>7. \A m \in Leaders(M) : Marker(m.idx) \in Range(w)
    BY <1>15, <2>3
  <2>8. WrittenOK(M, z, w)
    BY <2>4, <2>5, <2>6, <2>7 DEF WrittenOK
  <2> QED BY <2>2, <2>3, <2>8
<1> QED BY <1>16, <1>17

LEMMA SpliceSplices ==
  ASSUME NEW s \in Seq(Letter), NEW H, NEW q, NEW c, NEW u, NEW o, SpliceOK(s, H, q, o, c, u), o # NoSpan,
         \A m \in q : m.start > o.end
  PROVE  SpliceOK(s, H, q, NoSpan, o.end + 1, u \o Kept(c, o.start - 1) \o <<Marker(o.idx)>>)
<1> DEFINE W == WrittenOf(H, c)
           G == PendingOf(H, c)
<1>1. /\ c \in Nat \ {0} /\ o \in SpanOf(s) /\ Merges(o, G) /\ WrittenOK(W, c, u)
      /\ H \subseteq SpanOf(s) /\ q \subseteq SpanOf(s)
  BY LenProperties DEF SpliceOK
<1>2. H = W \cup G /\ W \in SUBSET SpanOf(s) /\ G \in SUBSET SpanOf(s) /\ \A m \in G : m.start >= c
  BY <1>1, SpanFields DEF WrittenOf, PendingOf
<1> HIDE DEF W, G
<1>3. PICK w : w = u \o Kept(c, o.start - 1) \o <<Marker(o.idx)>>
  OBVIOUS
<1>4. WrittenOK(H, o.end + 1, w)
  BY <1>1, <1>2, <1>3, WrittenMore
<1>5. o.end \in Nat /\ o.end <= Len(s) /\ Len(s) \in Nat /\ o.end + 1 \in 1..(Len(s) + 1)
  BY <1>1, SpanFields
<1>6. \A m \in H : m.start < o.end + 1 /\ ~(m.start >= o.end + 1)
  BY <1>1, <1>4, <1>5, SpanFields DEF WrittenOK
<1>7. WrittenOf(H, o.end + 1) = H /\ PendingOf(H, o.end + 1) = {}
  BY <1>6 DEF WrittenOf, PendingOf
<1>8. \A m \in q : m.start >= o.end + 1
  BY <1>1, <1>5, SpanFields
<1>9. \A m \in H, n \in q : Before(m, n)
  BY DEF SpliceOK
<1> QED BY <1>1, <1>3, <1>4, <1>5, <1>7, <1>8, <1>9 DEF SpliceOK

------------------------------------------------------------------------------
(* The scan and then the splice.                                             *)
Begun == sorted # {} \/ open # NoSpan \/ out # <<>>

Handled == IF Begun THEN spans \ sorted ELSE {}

SpliceInv ==
  /\ Begun => Selected
  /\ sorted \subseteq spans
  /\ SpliceOK(text, Handled, sorted, open, cursor, out)

DetectionInv == ScanInv /\ SpliceInv

LEMMA DetectionStarts ==
  ASSUME DetectionInit
  PROVE  DetectionInv
<1>1. /\ text \in Seq(Letter) /\ pattern = 1 /\ pos = 1 /\ spans = {} /\ sorted = {} /\ open = NoSpan
      /\ cursor = 1 /\ out = <<>>
  BY ScanAssumption DEF DetectionInit
<1>2. \A m \in Tokens(text) : ~Passed(m)
  <2>1. SUFFICES ASSUME NEW m \in Tokens(text) PROVE ~Passed(m)
    OBVIOUS
  <2>2. m \in SpanOf(text)
    BY <1>1, TokenIs
  <2>3. m.start >= 1 /\ m.idx >= 1 /\ m.start \in Nat /\ m.idx \in Nat
    BY <1>1, <2>2, SpanFields DEF Provider
  <2> QED BY <1>1, <2>3 DEF Passed
<1>3. ScanInv
  <2>1. Len(text) \in Nat
    BY <1>1, LenProperties
  <2> QED BY <1>1, <1>2, <2>1 DEF ScanInv
<1>4. ~Begun /\ Handled = {}
  BY <1>1 DEF Begun, Handled
<1>5. SpliceOK(text, {}, {}, NoSpan, 1, <<>>)
  BY <1>1, SpliceStarts
<1>6. SpliceInv
  BY <1>1, <1>4, <1>5 DEF SpliceInv
<1> QED BY <1>3, <1>6 DEF DetectionInv

(* Nothing is spliced while the scan goes on.                                *)
LEMMA ScanBeforeSplice ==
  ASSUME SpliceInv, pattern \in Provider, UNCHANGED <<text, sorted, open, cursor, out>>
  PROVE  SpliceInv'
<1>1. ~Begun /\ Handled = {}
  BY DEF SpliceInv, Selected, Handled
<1>2. ~Begun' /\ Handled' = {}
  BY <1>1 DEF Begun, Handled
<1>3. sorted = {} /\ SpliceOK(text, {}, sorted, open, cursor, out)
  BY <1>1 DEF SpliceInv, Begun
<1>4. SpliceOK(text', Handled', sorted', open', cursor', out')
  BY <1>2, <1>3
<1> QED BY <1>2, <1>3, <1>4 DEF SpliceInv

(* The splice changes nothing that the scan goes by.                         *)
LEMMA ScanKept ==
  ASSUME ScanInv, UNCHANGED <<text, pattern, pos, exhausted, spans>>
  PROVE  ScanInv'
BY DEF ScanInv, Passed, Covers

LEMMA FirstTaken ==
  ASSUME ScanInv, SpliceInv, sorted # {}
  PROVE  FirstOf(First, sorted)
<1>1. sorted \subseteq SpanOf(text) /\ text \in Seq(Letter)
  BY DEF ScanInv, SpliceInv
<1> QED BY <1>1, FirstIs DEF FirstOf

LEMMA SortSpansKeeps ==
  ASSUME ScanInv, SpliceInv, SortSpans
  PROVE  SpliceInv'
<1>1. /\ text' = text /\ sorted' = spans /\ spans' = spans /\ open' = NoSpan /\ cursor' = 1 /\ out' = <<>>
      /\ Selected' /\ spans # {}
  BY DEF SortSpans, Selected
<1>2. Begun' /\ Handled' = {}
  BY <1>1 DEF Begun, Handled
<1>3. SpliceOK(text, {}, spans, NoSpan, 1, <<>>)
  BY SpliceStarts DEF ScanInv
<1>4. SpliceOK(text', Handled', sorted', open', cursor', out')
  BY <1>1, <1>2, <1>3
<1> QED BY <1>1, <1>4 DEF SpliceInv

LEMMA OpenSpanKeeps ==
  ASSUME ScanInv, SpliceInv, OpenSpan
  PROVE  SpliceInv'
<1>1. PICK x : x = First
  OBVIOUS
<1>2. /\ text' = text /\ sorted' = sorted \ {x} /\ spans' = spans /\ open = NoSpan /\ open' = x /\ cursor' = cursor
      /\ out' = out /\ pattern' = pattern /\ sorted # {}
  BY <1>1 DEF OpenSpan
<1>3. FirstOf(x, sorted) /\ x \in sorted /\ sorted \subseteq spans /\ text \in Seq(Letter)
  BY <1>1, <1>2, FirstTaken DEF FirstOf, SpliceInv, ScanInv
<1>4. Begun /\ Selected /\ Handled = spans \ sorted
  BY <1>2 DEF Begun, SpliceInv, Handled
<1>5. x # NoSpan
  BY <1>3, SpanNotNoSpan DEF ScanInv
<1>6. Begun' /\ Selected' /\ Handled' = Handled \cup {x}
  BY <1>2, <1>3, <1>4, <1>5 DEF Begun, Handled, Selected
<1>7. SpliceOK(text, Handled, sorted, NoSpan, cursor, out)
  BY <1>2 DEF SpliceInv
<1>8. SpliceOK(text, Handled \cup {x}, sorted \ {x}, x, cursor, out)
  BY <1>3, <1>7, SpliceOpens
<1>9. SpliceOK(text', Handled', sorted', open', cursor', out')
  BY <1>2, <1>6, <1>8
<1> QED BY <1>2, <1>3, <1>6, <1>9 DEF SpliceInv

LEMMA MergeSpanKeeps ==
  ASSUME ScanInv, SpliceInv, MergeSpan
  PROVE  SpliceInv'
<1>1. PICK x : x = First
  OBVIOUS
<1>2. PICK e : e = IF x.end > open.end THEN x.end ELSE open.end
  OBVIOUS
<1>3. /\ text' = text /\ sorted' = sorted \ {x} /\ spans' = spans /\ open # NoSpan
      /\ open' = [open EXCEPT !.end = e] /\ cursor' = cursor
      /\ out' = out /\ pattern' = pattern /\ sorted # {} /\ x.start <= open.end
  BY <1>1, <1>2 DEF MergeSpan, OverlapsOpen
<1>4. FirstOf(x, sorted) /\ x \in sorted /\ sorted \subseteq spans /\ text \in Seq(Letter)
  BY <1>1, <1>3, FirstTaken DEF FirstOf, SpliceInv, ScanInv
<1>5. Begun /\ Selected /\ Handled = spans \ sorted
  BY <1>3 DEF Begun, SpliceInv, Handled
<1>6. SpliceOK(text, Handled, sorted, open, cursor, out)
  BY DEF SpliceInv
<1>7. SpliceOK(text, Handled \cup {x}, sorted \ {x}, [open EXCEPT !.end = e], cursor, out)
  BY <1>2, <1>3, <1>4, <1>6, SpliceMerges
<1>8. open' # NoSpan
  <2>1. open \in SpanOf(text)
    BY <1>3, <1>6 DEF SpliceOK
  <2>2. open'.idx = open.idx
    BY <1>3, <2>1 DEF SpanOf
  <2>3. open.idx \in Provider
    BY <2>1 DEF SpanOf
  <2> QED BY <2>2, <2>3 DEF NoSpan, Provider
<1>9. Begun' /\ Selected' /\ Handled' = Handled \cup {x}
  BY <1>3, <1>4, <1>5, <1>8 DEF Begun, Handled, Selected
<1>10. SpliceOK(text', Handled', sorted', open', cursor', out')
  BY <1>3, <1>7, <1>9
<1> QED BY <1>3, <1>4, <1>9, <1>10 DEF SpliceInv

LEMMA SpliceSpanKeeps ==
  ASSUME ScanInv, SpliceInv, SpliceSpan
  PROVE  SpliceInv'
<1>1. PICK w : w = out \o Kept(cursor, open.start - 1) \o <<Marker(open.idx)>>
  OBVIOUS
<1>2. /\ text' = text /\ sorted' = sorted /\ spans' = spans /\ open # NoSpan /\ open' = NoSpan
      /\ cursor' = open.end + 1 /\ out' = w /\ pattern' = pattern /\ ~OverlapsOpen
  BY <1>1 DEF SpliceSpan
<1>3. sorted \subseteq spans /\ text \in Seq(Letter) /\ spans \subseteq SpanOf(text)
  BY DEF SpliceInv, ScanInv
<1>4. Begun /\ Selected /\ Handled = spans \ sorted
  BY <1>2 DEF Begun, SpliceInv, Handled
<1>5. SpliceOK(text, Handled, sorted, open, cursor, out)
  BY DEF SpliceInv
<1>6. open \in SpanOf(text)
  BY <1>2, <1>5 DEF SpliceOK
<1>7. ASSUME NEW m \in sorted PROVE m.start > open.end
  <2>1. FirstOf(First, sorted) /\ ~(First.start <= open.end)
    BY <1>2, <1>7, FirstTaken DEF OverlapsOpen
  <2>2. PICK x \in sorted : x = First
    BY <2>1 DEF FirstOf
  <2>3. m = x \/ Before(x, m)
    BY <2>1, <2>2 DEF FirstOf
  <2>4. x.start <= m.start
    BY <1>3, <2>3, BeforeOrder, SpanFields
  <2>5. x.start \in Nat /\ m.start \in Nat /\ open.end \in Nat
    BY <1>3, <1>6, SpanFields
  <2> QED BY <2>1, <2>2, <2>4, <2>5
<1>8. SpliceOK(text, Handled, sorted, NoSpan, open.end + 1, w)
  BY <1>1, <1>2, <1>3, <1>5, <1>7, SpliceSplices
<1>9. w # <<>>
  <2>1. cursor \in Nat /\ WrittenOK(WrittenOf(Handled, open.end + 1), open.end + 1, w)
    BY <1>3, <1>5, <1>8, LenProperties DEF SpliceOK
  <2>2. cursor \in Nat \ {0} /\ open.start \in Nat /\ open.start >= 1 /\ open.idx \in Provider
    BY <1>3, <1>5, <1>6, SpanFields, LenProperties DEF SpliceOK
  <2>3. PICK v : v = out \o Kept(cursor, open.start - 1)
    OBVIOUS
  <2>4. PICK z : z = Marker(open.idx) /\ z \in Int
    BY <2>2 DEF Marker, Provider
  <2>5. out \in Seq(Int)
    BY <1>5 DEF SpliceOK, WrittenOK, OutOK
  <2>6. Kept(cursor, open.start - 1) \in Seq(Int)
    <3>1. PICK l \in Nat : l = IF open.start - 1 < cursor THEN 0 ELSE open.start - 1 - cursor + 1
      BY <2>2
    <3>2. Kept(cursor, open.start - 1) = [n \in 1..l |-> cursor + n - 1]
      BY <3>1 DEF Kept
    <3> QED BY <2>2, <3>2
  <2>7. v \in Seq(Int)
    BY <2>3, <2>5, <2>6, ConcatProperties
  <2>8. w = Append(v, z)
    BY <1>1, <2>3, <2>4, <2>7, AppendIsConcat
  <2> QED BY <2>4, <2>7, <2>8, AppendProperties
<1>10. Begun' /\ Selected' /\ Handled' = Handled
  BY <1>2, <1>4, <1>9 DEF Begun, Handled, Selected
<1>11. SpliceOK(text', Handled', sorted', open', cursor', out')
  BY <1>2, <1>8, <1>10
<1> QED BY <1>2, <1>3, <1>10, <1>11 DEF SpliceInv

LEMMA DetectionKept ==
  ASSUME DetectionInv, [DetectionStep]_dvars
  PROVE  DetectionInv'
<1>0. ScanInv /\ SpliceInv
  BY DEF DetectionInv
<1>1. CASE Select
  <2>1. pattern \in Provider /\ UNCHANGED <<text, sorted, open, cursor, out>>
    BY <1>1 DEF Select, Scanning
  <2> QED BY <1>0, <1>1, <2>1, SelectScans, ScanBeforeSplice DEF DetectionInv
<1>2. CASE SelectClosed
  <2>1. pattern \in Provider /\ UNCHANGED <<text, sorted, open, cursor, out>>
    BY <1>2 DEF SelectClosed, Scanning
  <2> QED BY <1>0, <1>2, <2>1, SelectClosedScans, ScanBeforeSplice DEF DetectionInv
<1>3. CASE NextProvider
  <2>1. pattern \in Provider /\ UNCHANGED <<text, sorted, open, cursor, out>>
    BY <1>3 DEF NextProvider
  <2> QED BY <1>0, <1>3, <2>1, NextProviderScans, ScanBeforeSplice DEF DetectionInv
<1>4. CASE SortSpans
  <2>1. UNCHANGED <<text, pattern, pos, exhausted, spans>>
    BY <1>4 DEF SortSpans
  <2> QED BY <1>0, <1>4, <2>1, ScanKept, SortSpansKeeps DEF DetectionInv
<1>5. CASE OpenSpan
  <2>1. UNCHANGED <<text, pattern, pos, exhausted, spans>>
    BY <1>5 DEF OpenSpan
  <2> QED BY <1>0, <1>5, <2>1, ScanKept, OpenSpanKeeps DEF DetectionInv
<1>6. CASE MergeSpan
  <2>1. UNCHANGED <<text, pattern, pos, exhausted, spans>>
    BY <1>6 DEF MergeSpan
  <2> QED BY <1>0, <1>6, <2>1, ScanKept, MergeSpanKeeps DEF DetectionInv
<1>7. CASE SpliceSpan
  <2>1. UNCHANGED <<text, pattern, pos, exhausted, spans>>
    BY <1>7 DEF SpliceSpan
  <2> QED BY <1>0, <1>7, <2>1, ScanKept, SpliceSpanKeeps DEF DetectionInv
<1>8. CASE UNCHANGED dvars
  <2>1. UNCHANGED <<text, pattern, pos, exhausted, spans>>
    BY <1>8 DEF dvars
  <2>2. UNCHANGED <<text, pattern, spans, sorted, open, cursor, out>>
    BY <1>8 DEF dvars
  <2>3. SpliceInv'
    BY <1>0, <2>2 DEF SpliceInv, Begun, Handled, Selected
  <2> QED BY <1>0, <2>1, <2>3, ScanKept DEF DetectionInv
<1> QED BY <1>1, <1>2, <1>3, <1>4, <1>5, <1>6, <1>7, <1>8 DEF DetectionStep

(* What is left of the text when all spans are written.                      *)
LEMMA WhenSpliced ==
  ASSUME DetectionInv, Spliced
  PROVE  /\ \A m \in Tokens(text) : Passed(m)
         /\ KeptPositions = (1..Len(text)) \ Covered(spans)
         /\ Rising(sanitize_output)
         /\ Len(sanitize_output) = Cardinality(KeptPositions) + Cardinality(Leaders(spans))
         /\ \A m \in Leaders(spans) : Marker(m.idx) \in Range(sanitize_output)
<1>0. /\ text \in Seq(Letter) /\ Len(text) \in Nat /\ pattern \in 1..4 /\ pattern \notin Provider
      /\ spans \subseteq SpanOf(text) /\ open = NoSpan /\ sorted = {} /\ (spans = {} \/ out # <<>>)
  BY LenProperties DEF DetectionInv, ScanInv, Spliced, Selected
<1>1. \A m \in Tokens(text) : Passed(m)
  <2>1. SUFFICES ASSUME NEW m \in Tokens(text) PROVE Passed(m)
    OBVIOUS
  <2>2. m \in SpanOf(text)
    BY <1>0, TokenIs
  <2>3. m.idx \in Provider
    BY <2>2 DEF SpanOf
  <2> QED BY <1>0, <2>3 DEF Passed, Provider
<1>2. Handled = spans
  BY <1>0 DEF Handled, Begun
<1>3. SpliceOK(text, spans, {}, NoSpan, cursor, out)
  BY <1>0, <1>2 DEF DetectionInv, SpliceInv
<1>4. cursor \in 1..(Len(text) + 1) /\ PendingOf(spans, cursor) = {} /\ WrittenOK(WrittenOf(spans, cursor), cursor, out)
  BY <1>3 DEF SpliceOK
<1>5. WrittenOf(spans, cursor) = spans
  <2>1. \A m \in spans : ~(m.start >= cursor)
    BY <1>4 DEF PendingOf
  <2>2. \A m \in spans : m.start < cursor
    BY <1>0, <1>4, <2>1, SpanFields
  <2> QED BY <2>2 DEF WrittenOf
<1>6. PICK k \in Nat : k = Cardinality(Leaders(spans))
  BY <1>0, LeadersCounted
<1>7. /\ OutOK(out, cursor, k) /\ Positives(out) = (1..(cursor - 1)) \ Covered(spans)
      /\ \A m \in spans : m.end < cursor
      /\ \A m \in Leaders(spans) : Marker(m.idx) \in Range(out)
  BY <1>4, <1>5, <1>6 DEF WrittenOK
<1>8. PICK q : q = out \o Kept(cursor, Len(text))
  OBVIOUS
<1>9. q = sanitize_output
  BY <1>8 DEF sanitize_output
<1>10. OutOK(q, Len(text) + 1, k) /\ Positives(q) = Positives(out) \cup (cursor..Len(text)) /\ Range(out) \subseteq Range(q)
  <2>1. cursor \in Nat \ {0} /\ cursor <= Len(text) + 1
    BY <1>0, <1>4
  <2> QED BY <1>0, <1>7, <1>8, <2>1, KeepAdds
<1>11. Positives(q) = (1..Len(text)) \ Covered(spans)
  <2>1. \A n \in Covered(spans) : n \in Int /\ n < cursor
    <3>1. SUFFICES ASSUME NEW n \in Covered(spans) PROVE n \in Int /\ n < cursor
      OBVIOUS
    <3>2. PICK m \in spans : n \in m.start..m.end
      BY InCovered
    <3>3. m.start \in Nat /\ m.end \in Nat /\ m.end < cursor
      BY <1>0, <1>7, SpanFields
    <3> QED BY <1>0, <1>4, <3>2, <3>3
  <2>2. ASSUME NEW n \in Int
        PROVE  n \in ((1..(cursor - 1)) \ Covered(spans)) \cup (cursor..Len(text))
                 <=> n \in (1..Len(text)) \ Covered(spans)
    BY <1>0, <1>4, <2>1
  <2>3. ((1..(cursor - 1)) \ Covered(spans)) \cup (cursor..Len(text)) = (1..Len(text)) \ Covered(spans)
    BY <1>0, <1>4, <2>2
  <2> QED BY <1>7, <1>10, <2>3
<1>12. KeptPositions = Positives(q)
  BY <1>9 DEF KeptPositions, Positives
<1>13. Rising(q) /\ Len(q) = Cardinality(Positives(q)) + k
  BY <1>10 DEF OutOK
<1>14. \A m \in Leaders(spans) : Marker(m.idx) \in Range(q)
  BY <1>7, <1>10
<1> QED BY <1>1, <1>6, <1>9, <1>11, <1>12, <1>13, <1>14

LEMMA NothingLeft ==
  ASSUME DetectionInv
  PROVE  NothingSurvives
<1> SUFFICES ASSUME Spliced
             PROVE  /\ KeptPositions \cap Covered(Tokens(text)) = {}
                    /\ Blocking(Tokens(text)) # {} => detect # {}
  BY DEF NothingSurvives
<1>0. text \in Seq(Letter) /\ spans \subseteq SpanOf(text)
  BY DEF DetectionInv, ScanInv
<1>1. \A m \in Tokens(text) : \E n \in spans : Covers(n, m)
  BY WhenSpliced DEF DetectionInv, ScanInv
<1>2. ASSUME NEW i \in Covered(Tokens(text)) PROVE i \notin KeptPositions
  <2>1. PICK m \in Tokens(text) : i \in m.start..m.end
    BY InCovered
  <2>2. PICK n \in spans : Covers(n, m)
    BY <1>1
  <2>3. m \in SpanOf(text) /\ n \in SpanOf(text)
    BY <1>0, TokenIs
  <2>4. i \in n.start..n.end
    <3>1. m.start \in Nat /\ m.end \in Nat /\ n.start \in Nat /\ n.end \in Nat
      BY <1>0, <2>3, SpanFields
    <3>2. n.start <= m.start /\ m.end <= n.end
      BY <2>2 DEF Covers
    <3> QED BY <2>1, <3>1, <3>2
  <2>5. i \in Covered(spans)
    BY <2>4, InCovered
  <2> QED BY <2>5, WhenSpliced
<1>3. ASSUME NEW m \in Blocking(Tokens(text)) PROVE detect # {}
  <2>1. m \in Tokens(text) /\ m.idx \notin REDACT_ONLY_PROVIDERS
    BY DEF Blocking
  <2>2. PICK n \in spans : n.idx = m.idx
    BY <1>1, <2>1 DEF Covers
  <2>3. n \in detect
    BY <2>1, <2>2 DEF detect
  <2> QED BY <2>3
<1> QED BY <1>2, <1>3

LEMMA NothingElse ==
  ASSUME DetectionInv
  PROVE  OnlyTokensReplaced
<1> SUFFICES ASSUME Spliced, ~exhausted
             PROVE  LET T == Tokens(text)
                    IN /\ detect = Blocking(T)
                       /\ KeptPositions = (1..Len(text)) \ Covered(T)
                       /\ Len(sanitize_output) = Cardinality(KeptPositions)
                                                 + Cardinality({m \in Chains(T) : Leads(m, T)})
                       /\ \A m \in Chains(T) : Leads(m, T) => Marker(m.idx) \in Range(sanitize_output)
                       /\ \A i, j \in DOMAIN sanitize_output :
                            i < j /\ {sanitize_output[i], sanitize_output[j]} \subseteq KeptPositions
                              => sanitize_output[i] < sanitize_output[j]
  BY DEF OnlyTokensReplaced
<1>1. Tokens(text) = spans
  BY WhenSpliced DEF DetectionInv, ScanInv
<1>2. detect = Blocking(spans)
  BY DEF detect, Blocking
<1>3. Leaders(spans) = {m \in Chains(spans) : Leads(m, spans)}
  BY DEF Leaders
<1>4. \A m \in Chains(spans) : Leads(m, spans) => Marker(m.idx) \in Range(sanitize_output)
  BY <1>3, WhenSpliced
<1>5. \A n \in KeptPositions : n > 0
  BY DEF KeptPositions
<1>6. ASSUME NEW i \in DOMAIN sanitize_output, NEW j \in DOMAIN sanitize_output, i < j,
             {sanitize_output[i], sanitize_output[j]} \subseteq KeptPositions
      PROVE  sanitize_output[i] < sanitize_output[j]
  BY <1>5, <1>6, WhenSpliced DEF Rising
<1> QED BY <1>1, <1>2, <1>3, <1>4, <1>6, WhenSpliced

(* For every text, budget and measure of entropy: no character of a token    *)
(* survives in the sanitized text and a token that may block a call is       *)
(* found, also when the budget runs out in the middle of the scan; while it  *)
(* lasts nothing else is found or replaced (detection/mod.rs:641-659,        *)
(* 748-784).                                                                 *)
THEOREM RedactionIsExact == DetectionSpec => []RedactedExactly
<1>1. DetectionInit => DetectionInv
  BY DetectionStarts
<1>2. DetectionInv /\ [DetectionStep]_dvars => DetectionInv'
  BY DetectionKept
<1>3. DetectionInv => RedactedExactly
  BY NothingLeft, NothingElse DEF RedactedExactly
<1> QED BY <1>1, <1>2, <1>3, PTL DEF DetectionSpec

===============================================================================
