---------------------------- MODULE ProTokensProofs ----------------------------
(***************************************************************************)
(* For any number of terminals, clients, tokens and logouts the four Pro   *)
(* files are one session that can be renewed (ProTokens), and for any      *)
(* number of logins and any range of ports a login hands over no code but  *)
(* its own (OidcLogin).                                                    *)
(*                                                                         *)
(* SessionWhole is not inductive: it says nothing of what a command holds  *)
(* in memory.  SessionSound adds that a command under the lock works for   *)
(* the login the files descend from, TokensSound that a token is in one    *)
(* command's hand only, LockHeld that one command is under the lock.       *)
(***************************************************************************)
EXTENDS ProTokens, OidcLogin, SequenceTheorems, WellFoundedInduction, TLAPS

(* What the provider issues; what the client's files and a terminal hold.  *)
Token == [n : Nat, grant : Nat, client : Client]

(* The four things a terminal may be at: nothing or a logout, a renewal    *)
(* that has not been answered, one that stores its answer, and a login.    *)
RestingFields  == {"op", "at", "todo"}
RenewingFields == RestingFields \cup {"client", "token"}
StoringFields  == RenewingFields \cup {"old", "all"}
SigningFields  == RenewingFields \cup {"offline"}

RenewTodo == {<<"refresh", "access">>, <<"refresh", "access", "id">>, <<"access">>,
              <<"access", "id">>, <<"id">>}
LoginTodo == {LoginFiles, <<"refresh", "access", "id">>, <<"access", "id">>, <<"id">>}

Resting(w) ==
  /\ DOMAIN w = RestingFields /\ w.todo = <<>>
  /\ w.op \in {"none", "logout"} /\ w.at \in {"idle", "remove-refresh"}

Renewing(w) ==
  /\ DOMAIN w = RenewingFields /\ w.todo = <<>>
  /\ w.op = "refresh" /\ w.at \in {"lock", "reread", "exchange"}
  /\ w.at = "exchange" => w.token \in Token

Storing(w) ==
  /\ DOMAIN w = StoringFields
  /\ w.op = "refresh" /\ w.todo \in RenewTodo /\ w.at = w.todo[1]
  /\ w.token \in Token /\ w.old \in Token
  /\ w.at = "refresh" => w.all = w.todo

Signing(w) ==
  /\ DOMAIN w = SigningFields
  /\ w.op = "login" /\ w.todo \in LoginTodo
  /\ w.at = w.todo[1] \/ (w.at = "lock" /\ w.todo = LoginFiles)
  /\ w.token \in Token /\ w.client = w.token.client

(* A terminal is at one of them. *)
IsWork(w) == Resting(w) \/ Renewing(w) \/ Storing(w) \/ Signing(w)

Age == {"fresh", "due", "expired"}

Jwts == [grant : Nat, age : Age]

ProTypes ==
  /\ refresh \in Token \cup {None} /\ access \in Jwts \cup {None} /\ id \in Jwts \cup {None}
  /\ issued \in Nat /\ alive \subseteq Token /\ lost \subseteq Token
  /\ DOMAIN work = Terminal
  /\ \A p \in Terminal : IsWork(work[p])

(* The lock is held exactly in the steps that read the files again, ask    *)
(* for new tokens or store them.                                           *)
UnderLock == {"reread", "exchange", "client", "refresh", "access", "id"}

LockHeld == \A p \in Terminal : holder = p <=> work[p].at \in UnderLock

(* The token a renewal replaces is not accepted any more; the token it is  *)
(* about to store, or a login was given for keeps, is accepted or revoked. *)
TokensFresh ==
  /\ alive \cap lost = {}
  /\ \A t \in alive \cup lost : t.n <= issued
  /\ \A p \in Terminal :
       /\ Storing(work[p]) /\ work[p].at = "refresh" =>
            /\ work[p].old \notin alive /\ work[p].old.n <= issued
            /\ work[p].token \in alive \cup lost
       /\ Signing(work[p]) /\ work[p].offline => work[p].token \in alive \cup lost

(* What SessionWhole says of the files when no command is storing any.     *)
Usable == refresh = None \/ refresh \in lost \/ (refresh \in alive /\ refresh.client = client)

GrantIs(g) == \A x \in {refresh, access, id} \ {None} : x.grant = g
SameGrant == \A x, y \in {refresh, access, id} \ {None} : x.grant = y.grant

(* A login that has stored some of its files and not all.                  *)
Replacing(p) == work[p].op = "login" /\ work[p].at \in {"refresh", "access", "id"}

(* A renewal under the lock works for the login the files descend from:    *)
(* nobody but a logout touches them until it is done.                      *)
RenewalSound(p) ==
  /\ Renewing(work[p]) /\ work[p].at = "exchange" =>
       /\ refresh \in {None, work[p].token} /\ GrantIs(work[p].token.grant)
       /\ work[p].token \in lost \/ work[p].token.client = client
  /\ Storing(work[p]) =>
       /\ GrantIs(work[p].token.grant)
       /\ work[p].at = "refresh" => refresh \in {None, work[p].old} /\ work[p].token.client = client

(* A login half way: what it has stored is there, or a logout removed it.  *)
LoginSound(p) ==
  Replacing(p) =>
    /\ client = work[p].client
    /\ work[p].at \in {"access", "id"} => refresh = None \/ (refresh = work[p].token /\ work[p].offline)
    /\ work[p].at = "id" => access = None \/ access.grant = work[p].token.grant

(* The inductive core of SessionWhole: the files are whole whenever nobody *)
(* replaces them, and whoever does keeps to what it found or was given.    *)
SessionSound ==
  /\ \A p \in Terminal : LoginSound(p)
  /\ ~half =>
       /\ (\A p \in Terminal : ~Replacing(p)) => SameGrant
       /\ (\A p \in Terminal : ~Replacing(p) /\ work[p].at # "refresh") => Usable
       /\ \A p \in Terminal : RenewalSound(p)

(* Every token belongs to one command: a login that waits for the lock     *)
(* holds one that is neither on disk nor in another command's hand, so no  *)
(* exchange takes it back.                                                 *)
HasToken(p) == work[p].at = "exchange" \/ Storing(work[p]) \/ Signing(work[p])

OwnRefresh ==
  refresh # None =>
    /\ refresh.n <= issued
    /\ \A q \in Terminal : Signing(work[q]) /\ work[q].at \in {"lock", "client", "refresh"} =>
                           refresh.n # work[q].token.n

OwnTokens ==
  \A p \in Terminal : HasToken(p) =>
    /\ work[p].token.n <= issued
    /\ \A q \in Terminal \ {p} : Signing(work[q]) => work[p].token.n # work[q].token.n

(* The lists of files a command works through.                             *)
LEMMA TodoNext ==
  /\ \A todo \in RenewTodo :
       /\ todo # <<>> /\ todo[1] \in {"refresh", "access", "id"}
       /\ Len(todo) # 1 => /\ Tail(todo) \in RenewTodo /\ Tail(todo)[1] = todo[2]
                           /\ todo[2] \in {"access", "id"}
       /\ Len(todo) = 1 => todo[1] # "refresh"
  /\ \A todo \in LoginTodo :
       /\ todo # <<>>
       /\ todo[1] = "client" => /\ Len(todo) # 1 /\ todo = LoginFiles
                                /\ Tail(todo) = <<"refresh", "access", "id">> /\ todo[2] = "refresh"
       /\ todo[1] = "refresh" => /\ Len(todo) # 1 /\ Tail(todo) = <<"access", "id">>
                                 /\ todo[2] = "access"
       /\ todo[1] = "access" => /\ Len(todo) # 1 /\ Tail(todo) = <<"id">> /\ todo[2] = "id"
       /\ todo[1] = "id" => Len(todo) = 1
       /\ todo[1] \in {"client", "refresh", "access", "id"}
<1>1. /\ Tail(<<"refresh", "access">>) = <<"access">>
      /\ Tail(<<"refresh", "access", "id">>) = <<"access", "id">>
      /\ Tail(<<"access", "id">>) = <<"id">>
      /\ Tail(<<"client", "refresh", "access", "id">>) = <<"refresh", "access", "id">>
  OBVIOUS
<1>2. /\ Len(<<"refresh", "access">>) = 2 /\ Len(<<"refresh", "access", "id">>) = 3
      /\ Len(<<"access">>) = 1 /\ Len(<<"id">>) = 1 /\ Len(<<"access", "id">>) = 2
      /\ Len(<<"client", "refresh", "access", "id">>) = 4
  OBVIOUS
<1>3. ASSUME NEW todo \in RenewTodo
      PROVE  /\ todo # <<>> /\ todo[1] \in {"refresh", "access", "id"}
             /\ Len(todo) # 1 => /\ Tail(todo) \in RenewTodo /\ Tail(todo)[1] = todo[2]
                                 /\ todo[2] \in {"access", "id"}
             /\ Len(todo) = 1 => todo[1] # "refresh"
  <2>1. CASE todo = <<"refresh", "access">>
    BY <1>1, <1>2, <2>1 DEF RenewTodo
  <2>2. CASE todo = <<"refresh", "access", "id">>
    BY <1>1, <1>2, <2>2 DEF RenewTodo
  <2>3. CASE todo = <<"access">>
    BY <1>1, <1>2, <2>3 DEF RenewTodo
  <2>4. CASE todo = <<"access", "id">>
    BY <1>1, <1>2, <2>4 DEF RenewTodo
  <2>5. CASE todo = <<"id">>
    BY <1>1, <1>2, <2>5 DEF RenewTodo
  <2> QED BY <2>1, <2>2, <2>3, <2>4, <2>5 DEF RenewTodo
<1>4. ASSUME NEW todo \in LoginTodo
      PROVE  /\ todo # <<>>
             /\ todo[1] = "client" => /\ Len(todo) # 1 /\ todo = LoginFiles
                                /\ Tail(todo) = <<"refresh", "access", "id">> /\ todo[2] = "refresh"
             /\ todo[1] = "refresh" => /\ Len(todo) # 1 /\ Tail(todo) = <<"access", "id">>
                                 /\ todo[2] = "access"
             /\ todo[1] = "access" => /\ Len(todo) # 1 /\ Tail(todo) = <<"id">> /\ todo[2] = "id"
             /\ todo[1] = "id" => Len(todo) = 1
             /\ todo[1] \in {"client", "refresh", "access", "id"}
  <2>1. CASE todo = LoginFiles
    BY <1>1, <1>2, <2>1 DEF LoginFiles
  <2>2. CASE todo = <<"refresh", "access", "id">>
    BY <1>1, <1>2, <2>2
  <2>3. CASE todo = <<"access", "id">>
    BY <1>1, <1>2, <2>3
  <2>4. CASE todo = <<"id">>
    BY <1>1, <1>2, <2>4
  <2> QED BY <2>1, <2>2, <2>3, <2>4 DEF LoginTodo
<1> QED BY <1>3, <1>4

(* A command that does not hold the lock is in none of the steps that need *)
(* it.                                                                     *)
LEMMA StepOfWork ==
  ASSUME NEW w, IsWork(w)
  PROVE  /\ w.at \in UnderLock \cup {"idle", "remove-refresh", "lock"}
         /\ Storing(w) => w.op = "refresh" /\ w.at \in {"refresh", "access", "id"}
         /\ w.at = "exchange" => Renewing(w)
         /\ w.at = "client" => Signing(w) /\ w.todo = LoginFiles
         /\ w.at \in {"refresh", "access", "id"} => Storing(w) \/ Signing(w)
         /\ w.op = "login" <=> Signing(w)
         /\ w.op = "refresh" <=> Renewing(w) \/ Storing(w)
         /\ w = Idle => Resting(w)
<1>1. CASE Resting(w)
  BY <1>1 DEF Resting, Renewing, Storing, Signing,
     RestingFields, RenewingFields, StoringFields, SigningFields, UnderLock, Idle
<1>2. CASE Renewing(w)
  BY <1>2 DEF Resting, Renewing, Storing, Signing,
     RestingFields, RenewingFields, StoringFields, SigningFields, UnderLock, Idle
<1>3. CASE Storing(w)
  BY <1>3, TodoNext DEF Resting, Renewing, Storing, Signing,
     RestingFields, RenewingFields, StoringFields, SigningFields, UnderLock, Idle
<1>4. CASE Signing(w)
  BY <1>4, TodoNext DEF Resting, Renewing, Storing, Signing,
     RestingFields, RenewingFields, StoringFields, SigningFields, UnderLock, Idle
<1> QED BY <1>1, <1>2, <1>3, <1>4 DEF IsWork

OnlyWork(p) == DOMAIN work' = Terminal /\ \A q \in Terminal \ {p} : work'[q] = work[q]

(* The guard of the lock is dropped with the command.                      *)
LEMMA LeaveWork ==
  ASSUME ProTypes, NEW p \in Terminal, Leave(p)
  PROVE  /\ OnlyWork(p) /\ work'[p] = Idle /\ IsWork(work'[p]) /\ work'[p].at = "idle"
         /\ work'[p].op = "none" /\ work'[p].todo = <<>>
         /\ LockHeld => LockHeld'
<1>1. /\ IsWork(Idle) /\ Idle.at = "idle" /\ Idle.op = "none" /\ Idle.todo = <<>>
  BY DEF Idle, IsWork, Resting, RestingFields
<1>2. OnlyWork(p) /\ work'[p] = Idle
  BY DEF Leave, OnlyWork, ProTypes
<1> QED
  BY <1>1, <1>2, NobodyIsNoTerminal DEF LockHeld, UnderLock, OnlyWork, Leave

(* The next file of the list, and the lock dropped after the last.         *)
LEMMA WrittenWork ==
  ASSUME ProTypes, NEW p \in Terminal, Written(p), Storing(work[p]) \/ Signing(work[p]),
         work[p].at \in UnderLock
  PROVE  /\ OnlyWork(p) /\ IsWork(work'[p])
         /\ \/ Len(work[p].todo) = 1 /\ work'[p] = Idle
            \/ /\ Len(work[p].todo) # 1 /\ holder' = holder
               /\ work'[p].op = work[p].op /\ work'[p].token = work[p].token
               /\ work'[p].client = work[p].client
               /\ work'[p].at = work[p].todo[2] /\ work'[p].todo = Tail(work[p].todo)
               /\ Storing(work[p]) => Storing(work'[p]) /\ work'[p].at \in {"access", "id"}
               /\ Signing(work[p]) => /\ Signing(work'[p]) /\ work'[p].at \in {"refresh", "access", "id"}
                                      /\ work'[p].offline = work[p].offline
         /\ LockHeld => LockHeld'
<1>1. CASE Len(work[p].todo) = 1
  <2>1. Leave(p)
    BY <1>1 DEF Written
  <2> QED BY <1>1, <2>1, LeaveWork
<1>2. CASE Len(work[p].todo) # 1
  <2>1. /\ work' = [work EXCEPT ![p].at = work[p].todo[2], ![p].todo = Tail(@)]
        /\ holder' = holder
    BY <1>2 DEF Written
  <2>2. CASE Storing(work[p])
    <3>1. /\ DOMAIN work'[p] = StoringFields /\ work'[p].at = work[p].todo[2]
          /\ work'[p].todo = Tail(work[p].todo) /\ work'[p].op = work[p].op
          /\ work'[p].token = work[p].token /\ work'[p].client = work[p].client
          /\ work'[p].old = work[p].old
      BY <2>1, <2>2 DEF ProTypes, Storing, StoringFields, RenewingFields, RestingFields
    <3>2. /\ Tail(work[p].todo) \in RenewTodo /\ Tail(work[p].todo)[1] = work[p].todo[2]
          /\ work[p].todo[2] \in {"access", "id"}
      BY <1>2, <2>2, TodoNext DEF Storing
    <3>3. Storing(work'[p]) /\ work'[p].at \in UnderLock /\ ~Signing(work[p])
      BY <2>2, <3>1, <3>2 DEF Storing, UnderLock, Signing
    <3> QED
      BY <1>2, <2>1, <3>1, <3>2, <3>3 DEF IsWork, OnlyWork, ProTypes, LockHeld
  <2>3. CASE Signing(work[p])
    <3>1. /\ DOMAIN work'[p] = SigningFields /\ work'[p].at = work[p].todo[2]
          /\ work'[p].todo = Tail(work[p].todo) /\ work'[p].op = work[p].op
          /\ work'[p].token = work[p].token /\ work'[p].client = work[p].client
          /\ work'[p].offline = work[p].offline
      BY <2>1, <2>3 DEF ProTypes, Signing, SigningFields, RenewingFields, RestingFields
    <3>2. work[p].todo \in LoginTodo
      BY <2>3 DEF Signing
    <3>3. /\ Tail(work[p].todo) \in LoginTodo /\ Tail(work[p].todo)[1] = work[p].todo[2]
          /\ work[p].todo[2] \in {"refresh", "access", "id"}
      <4>1. CASE work[p].todo[1] = "client"
        BY <3>2, <4>1, TodoNext DEF LoginTodo
      <4>2. CASE work[p].todo[1] = "refresh"
        BY <3>2, <4>2, TodoNext DEF LoginTodo
      <4>3. CASE work[p].todo[1] = "access"
        BY <3>2, <4>3, TodoNext DEF LoginTodo
      <4> QED BY <1>2, <3>2, <4>1, <4>2, <4>3, TodoNext
    <3>4. Signing(work'[p]) /\ work'[p].at \in UnderLock /\ ~Storing(work[p])
      BY <2>3, <3>1, <3>3 DEF Storing, UnderLock, Signing
    <3> QED
      BY <1>2, <2>1, <3>1, <3>3, <3>4 DEF IsWork, OnlyWork, ProTypes, LockHeld
  <2> QED BY <2>2, <2>3
<1> QED BY <1>1, <1>2

(* What the commands make of their work, but for leaving and writing.      *)
LEMMA WorkSteps ==
  ASSUME ProTypes, NEW p \in Terminal
  PROVE  /\ BeginRefresh(p) => /\ OnlyWork(p) /\ Renewing(work'[p]) /\ work'[p].at = "lock"
                               /\ work[p] = Idle
         /\ Lock(p) => /\ OnlyWork(p) /\ IsWork(work'[p]) /\ work[p].at = "lock"
                       /\ work'[p].at \in {"reread", "client"} /\ work'[p].token = work[p].token
                       /\ Signing(work'[p]) <=> Signing(work[p])
                       /\ Signing(work[p]) => work'[p].offline = work[p].offline
         /\ Reread(p) => /\ OnlyWork(p) /\ Renewing(work'[p]) /\ work'[p].at = "exchange"
                         /\ work'[p].token = refresh /\ refresh # None /\ refresh \in Token
                         /\ work[p].at = "reread"
         /\ Logout(p) => OnlyWork(p) /\ Resting(work'[p]) /\ work'[p].at = "remove-refresh" /\ work[p] = Idle
<1>1. ASSUME BeginRefresh(p)
      PROVE  OnlyWork(p) /\ Renewing(work'[p]) /\ work'[p].at = "lock" /\ work[p] = Idle
  BY <1>1 DEF BeginRefresh, OnlyWork, ProTypes, Renewing, RenewingFields, RestingFields
<1>2. ASSUME Lock(p)
      PROVE  /\ OnlyWork(p) /\ IsWork(work'[p]) /\ work[p].at = "lock"
             /\ work'[p].at \in {"reread", "client"} /\ work'[p].token = work[p].token
             /\ Signing(work'[p]) <=> Signing(work[p])
             /\ Signing(work[p]) => work'[p].offline = work[p].offline
  <2>1. /\ IsWork(work[p]) /\ work[p].at = "lock" /\ OnlyWork(p)
        /\ work' = [work EXCEPT ![p].at = IF work[p].op = "login" THEN work[p].todo[1] ELSE "reread"]
    BY <1>2 DEF Lock, Go, ProTypes, OnlyWork
  <2>2. CASE Renewing(work[p])
    <3>1. /\ DOMAIN work'[p] = RenewingFields /\ work'[p].at = "reread"
          /\ work'[p].todo = work[p].todo /\ work'[p].op = work[p].op /\ work'[p].token = work[p].token
      BY <2>1, <2>2 DEF ProTypes, Renewing, RenewingFields, RestingFields
    <3> QED BY <2>1, <2>2, <3>1 DEF Renewing, IsWork, Signing
  <2>3. CASE Signing(work[p])
    <3>1. work[p].todo = LoginFiles /\ work[p].todo[1] = "client"
      <4>1. \A todo \in LoginTodo : todo[1] # "lock"
        BY TodoNext
      <4>2. LoginFiles[1] = "client"
        BY DEF LoginFiles
      <4> QED BY <2>1, <2>3, <4>1, <4>2 DEF Signing
    <3>2. /\ DOMAIN work'[p] = SigningFields /\ work'[p].at = "client"
          /\ work'[p].todo = work[p].todo /\ work'[p].op = work[p].op /\ work'[p].token = work[p].token
          /\ work'[p].client = work[p].client /\ work'[p].offline = work[p].offline
      BY <2>1, <2>3, <3>1 DEF ProTypes, Signing, SigningFields, RenewingFields, RestingFields
    <3> QED BY <2>1, <2>3, <3>1, <3>2 DEF Signing, IsWork
  <2> QED BY <2>1, <2>2, <2>3, StepOfWork DEF IsWork, Resting
<1>3. ASSUME Reread(p)
      PROVE  /\ OnlyWork(p) /\ Renewing(work'[p]) /\ work'[p].at = "exchange"
             /\ work'[p].token = refresh /\ refresh # None /\ refresh \in Token
             /\ work[p].at = "reread"
  <2>1. Renewing(work[p])
    BY <1>3, TodoNext DEF Reread, ProTypes, IsWork, Resting, Storing, Signing
  <2>2. work' = [work EXCEPT ![p].at = "exchange", ![p].token = refresh] /\ refresh \in Token
    BY <1>3 DEF Reread, ProTypes
  <2>3. /\ DOMAIN work'[p] = RenewingFields /\ work'[p].at = "exchange" /\ work'[p].token = refresh
        /\ work'[p].todo = work[p].todo /\ work'[p].op = work[p].op
    BY <2>1, <2>2 DEF ProTypes, Renewing, RenewingFields, RestingFields
  <2> QED BY <1>3, <2>1, <2>2, <2>3 DEF Reread, Renewing, OnlyWork, ProTypes
<1>4. ASSUME Logout(p)
      PROVE  OnlyWork(p) /\ Resting(work'[p]) /\ work'[p].at = "remove-refresh" /\ work[p] = Idle
  BY <1>4 DEF Logout, OnlyWork, ProTypes, Idle, Resting, RestingFields
<1> QED BY <1>1, <1>2, <1>3, <1>4

(* A login waits for the lock with a token of its own.                     *)
LEMMA LoginWork ==
  ASSUME ProTypes, NEW p \in Terminal, NEW c \in Client, Login(p, c)
  PROVE  /\ OnlyWork(p) /\ work[p] = Idle /\ Signing(work'[p]) /\ work'[p].at = "lock"
         /\ issued' = issued + 1 /\ work'[p].token.n = issued'
         /\ alive' \in {alive, alive \cup {work'[p].token}}
         /\ work'[p].offline => work'[p].token \in alive'
<1> DEFINE token == [n |-> issued', grant |-> issued', client |-> c]
<1>1. PICK offline \in BOOLEAN :
        /\ alive' = IF offline THEN alive \cup {token} ELSE alive
        /\ work' = [work EXCEPT ![p] = [op |-> "login", at |-> "lock", todo |-> LoginFiles, client |-> c,
                                        token |-> token, offline |-> offline]]
  BY DEF Login
<1>2. issued' = issued + 1 /\ issued' \in Nat /\ work[p] = Idle
  BY DEF Login, ProTypes
<1>3. token \in Token
  BY <1>2 DEF Token
<1>4. /\ DOMAIN work'[p] = SigningFields /\ work'[p].op = "login" /\ work'[p].at = "lock"
      /\ work'[p].todo = LoginFiles /\ work'[p].client = c /\ work'[p].token = token
      /\ work'[p].offline = offline
  BY <1>1 DEF ProTypes, SigningFields, RenewingFields, RestingFields
<1>5. Signing(work'[p])
  BY <1>3, <1>4 DEF Signing, LoginTodo
<1> QED BY <1>1, <1>2, <1>4, <1>5 DEF OnlyWork, ProTypes

(* Short lists joined.                                                     *)
LEMMA JoinedLists ==
  ASSUME NEW S, NEW a \in S, NEW b \in S, NEW c \in S
  PROVE  <<a>> \o <<b>> = <<a, b>> /\ <<a, b>> \o <<c>> = <<a, b, c>>
<1> DEFINE s == <<a>> \o <<b>>
           t == <<a, b>> \o <<c>>
<1>1. /\ <<a>> \in Seq(S) /\ Len(<<a>>) = 1 /\ <<a>>[1] = a
      /\ <<b>> \in Seq(S) /\ Len(<<b>>) = 1 /\ <<b>>[1] = b
      /\ <<c>> \in Seq(S) /\ Len(<<c>>) = 1 /\ <<c>>[1] = c
  OBVIOUS
<1>2. /\ <<a, b>> \in Seq(S) /\ Len(<<a, b>>) = 2 /\ <<a, b>>[1] = a /\ <<a, b>>[2] = b
      /\ <<a, b, c>> \in Seq(S) /\ Len(<<a, b, c>>) = 3
      /\ <<a, b, c>>[1] = a /\ <<a, b, c>>[2] = b /\ <<a, b, c>>[3] = c
  OBVIOUS
<1>3. s \in Seq(S) /\ Len(s) = 2 /\ s[1] = a /\ s[2] = b
  BY <1>1, ConcatProperties
<1>4. t \in Seq(S) /\ Len(t) = 3 /\ t[1] = a /\ t[2] = b /\ t[3] = c
  BY <1>1, <1>2, ConcatProperties
<1> HIDE DEF s, t
<1>5. s = <<a, b>>
  <2>1. \A i \in 1..2 : s[i] = <<a, b>>[i]
    BY <1>2, <1>3
  <2> QED BY <1>2, <1>3, <2>1, SeqEqual
<1>6. t = <<a, b, c>>
  <2>1. \A i \in 1..3 : t[i] = <<a, b, c>>[i]
    BY <1>2, <1>4
  <2> QED BY <1>2, <1>4, <2>1, SeqEqual
<1> QED BY <1>5, <1>6 DEF s, t

(* The lists of files an answer may change.                                *)
LEMMA OneAfterOther ==
  /\ (<<"refresh">> \o <<"access">>) \o <<"id">> = <<"refresh", "access", "id">>
  /\ (<<"refresh">> \o <<"access">>) \o << >> = <<"refresh", "access">>
  /\ (<< >> \o <<"access">>) \o <<"id">> = <<"access", "id">>
  /\ (<< >> \o <<"access">>) \o << >> = <<"access">>
<1> DEFINE S == {"refresh", "access", "id"}
<1>1. /\ <<"refresh">> \o <<"access">> = <<"refresh", "access">>
      /\ <<"refresh", "access">> \o <<"id">> = <<"refresh", "access", "id">>
      /\ <<"access">> \o <<"id">> = <<"access", "id">>
  <2>1. "refresh" \in S /\ "access" \in S /\ "id" \in S
    OBVIOUS
  <2> HIDE DEF S
  <2> QED BY <2>1, JoinedLists
<1>2. << >> \o <<"access">> = <<"access">> /\ <<"access">> \o << >> = <<"access">>
  OBVIOUS
<1>3. <<"refresh", "access">> \o << >> = <<"refresh", "access">>
  OBVIOUS
<1> QED BY <1>1, <1>2, <1>3

(* The exchange: the new token is one of its own, or the old one.          *)
LEMMA ExchangeWork ==
  ASSUME ProTypes, NEW p \in Terminal, Exchange(p)
  PROVE  /\ work[p].at = "exchange" /\ Renewing(work[p]) /\ work[p].token \in Token
         /\ work[p].token \in alive /\ work[p].token.client = work[p].client
         /\ OnlyWork(p) /\ Storing(work'[p]) /\ work'[p].at \in {"refresh", "access"}
         /\ work'[p].old = work[p].token /\ work'[p].token.grant = work[p].token.grant
         /\ work'[p].token.client = work[p].token.client
         /\ IF rotates THEN work'[p].token.n = issued + 1 ELSE work'[p].token = work[p].token
         /\ work'[p].at = "refresh" <=> work'[p].token # work[p].token
         /\ issued' = IF rotates THEN issued + 1 ELSE issued
         /\ alive' = (alive \ {work[p].token}) \cup {work'[p].token}
<1>1. /\ work[p].at = "exchange" /\ Renewing(work[p]) /\ work[p].token \in Token
      /\ work[p].token \in alive /\ work[p].token.client = work[p].client
  BY StepOfWork DEF Exchange, Accepted, ProTypes, Renewing
<1>2. /\ NextToken(p) \in Token /\ NextToken(p).grant = work[p].token.grant
      /\ NextToken(p).client = work[p].token.client
      /\ IF rotates THEN NextToken(p).n = issued + 1 ELSE NextToken(p) = work[p].token
  BY <1>1 DEF NextToken, Token, ProTypes
<1>3. PICK with_id \in BOOLEAN :
        LET todo == RenewedFiles(NextToken(p) # work[p].token, with_id) IN
        work' = [work EXCEPT ![p] = [op |-> "refresh", at |-> todo[1], todo |-> todo, client |-> work[p].client,
                                     token |-> NextToken(p), old |-> work[p].token, all |-> todo]]
  BY DEF Exchange
<1> DEFINE todo == RenewedFiles(NextToken(p) # work[p].token, with_id)
<1>4. todo \in RenewTodo /\ IF NextToken(p) # work[p].token THEN todo[1] = "refresh" ELSE todo[1] = "access"
  <2>1. /\ (<<"refresh">> \o <<"access">>) \o <<"id">> = <<"refresh", "access", "id">>
        /\ (<<"refresh">> \o <<"access">>) \o << >> = <<"refresh", "access">>
        /\ (<< >> \o <<"access">>) \o <<"id">> = <<"access", "id">>
        /\ (<< >> \o <<"access">>) \o << >> = <<"access">>
    BY OneAfterOther
  <2>2. ASSUME NEW new \in BOOLEAN, NEW with \in BOOLEAN
        PROVE  RenewedFiles(new, with) =
                 IF new THEN IF with THEN <<"refresh", "access", "id">> ELSE <<"refresh", "access">>
                        ELSE IF with THEN <<"access", "id">> ELSE <<"access">>
    BY <2>1 DEF RenewedFiles
  <2>3. todo = IF NextToken(p) # work[p].token
               THEN IF with_id THEN <<"refresh", "access", "id">> ELSE <<"refresh", "access">>
               ELSE IF with_id THEN <<"access", "id">> ELSE <<"access">>
    BY <2>2
  <2> HIDE DEF todo
  <2> QED BY <2>3 DEF RenewTodo
<1>5. /\ DOMAIN work'[p] = StoringFields /\ work'[p].op = "refresh" /\ work'[p].at = todo[1]
      /\ work'[p].todo = todo /\ work'[p].token = NextToken(p) /\ work'[p].old = work[p].token
      /\ work'[p].all = todo
  BY <1>3 DEF ProTypes, StoringFields, RenewingFields, RestingFields
<1>6. Storing(work'[p])
  BY <1>1, <1>2, <1>4, <1>5 DEF Storing
<1>7. /\ issued' = IF rotates THEN issued + 1 ELSE issued
      /\ alive' = (alive \ {work[p].token}) \cup {work'[p].token}
  BY <1>5 DEF Exchange, Rotate
<1>8. OnlyWork(p)
  BY <1>3 DEF OnlyWork, ProTypes
<1>9. work'[p].at \in {"refresh", "access"} /\ (work'[p].at = "refresh" <=> work'[p].token # work[p].token)
  BY <1>4, <1>5
<1> QED BY <1>1, <1>2, <1>5, <1>6, <1>7, <1>8, <1>9

(* The steps that store a file.                                            *)
StoreStep(p) == StoreClient(p) \/ StoreRefresh(p) \/ StoreAccess(p) \/ StoreId(p)

(* Who stores a file holds the lock.                                       *)
LEMMA StoreWork ==
  ASSUME ProTypes, NEW p \in Terminal, StoreStep(p)
  PROVE  /\ Storing(work[p]) \/ Signing(work[p])
         /\ work[p].at \in UnderLock /\ Written(p) /\ UNCHANGED idp
<1>1. /\ work[p].at \in {"client", "refresh", "access", "id"} /\ Written(p) /\ UNCHANGED idp
  BY DEF StoreStep, StoreClient, StoreRefresh, StoreAccess, StoreId
<1>2. IsWork(work[p])
  BY DEF ProTypes
<1> QED BY <1>1, <1>2, StepOfWork DEF UnderLock

(* The steps that end a command.                                           *)
LEMMA LeaveSteps ==
  ASSUME NEW p, Skip(p) \/ ExchangeFails(p) \/ Rejected(p) \/ Dies(p) \/ RemoveRefresh(p)
  PROVE  Leave(p)
BY DEF Skip, ExchangeFails, Rejected, Dies, RemoveRefresh

(* A command that leaves has no claim to the lock before it, and none of   *)
(* the others has one while it holds it.                                   *)
LEMMA WorkNext ==
  ASSUME ProTypes, LockHeld, [Next]_vars
  PROVE  /\ DOMAIN work' = Terminal /\ (\A p \in Terminal : IsWork(work'[p]))
         /\ LockHeld'
<1>1. ASSUME NEW p \in Terminal, OnlyWork(p), IsWork(work'[p])
      PROVE  DOMAIN work' = Terminal /\ \A q \in Terminal : IsWork(work'[q])
  BY <1>1 DEF OnlyWork, ProTypes
<1>2. ASSUME NEW p \in Terminal, OnlyWork(p), holder' = holder,
             work[p].at \in UnderLock <=> work'[p].at \in UnderLock
      PROVE  LockHeld'
  BY <1>2 DEF OnlyWork, LockHeld
<1>3. CASE UNCHANGED <<work, holder>>
  BY <1>3 DEF ProTypes, LockHeld
<1>4. CASE Tick \/ Revoke \/ UNCHANGED vars
  BY <1>3, <1>4 DEF Tick, Revoke, vars
<1>5. ASSUME NEW p \in Terminal,
             Skip(p) \/ ExchangeFails(p) \/ Rejected(p) \/ Dies(p) \/ RemoveRefresh(p)
      PROVE  DOMAIN work' = Terminal /\ (\A q \in Terminal : IsWork(work'[q])) /\ LockHeld'
  BY <1>1, <1>5, LeaveSteps, LeaveWork
<1>6. ASSUME NEW p \in Terminal, StoreStep(p)
      PROVE  DOMAIN work' = Terminal /\ (\A q \in Terminal : IsWork(work'[q])) /\ LockHeld'
  BY <1>1, <1>6, StoreWork, WrittenWork
<1>7. ASSUME NEW p \in Terminal, BeginRefresh(p) \/ Logout(p) \/ (\E c \in Client : Login(p, c))
      PROVE  DOMAIN work' = Terminal /\ (\A q \in Terminal : IsWork(work'[q])) /\ LockHeld'
  <2>1. /\ OnlyWork(p) /\ IsWork(work'[p]) /\ work[p] = Idle
        /\ work'[p].at \in {"lock", "remove-refresh"}
    BY <1>7, WorkSteps, LoginWork DEF IsWork
  <2>2. holder' = holder
    BY <1>7 DEF BeginRefresh, Logout, Login
  <2>3. work[p].at \notin UnderLock /\ work'[p].at \notin UnderLock
    BY <2>1 DEF Idle, UnderLock
  <2> QED BY <1>1, <1>2, <2>1, <2>2, <2>3
<1>8. ASSUME NEW p \in Terminal, Lock(p)
      PROVE  DOMAIN work' = Terminal /\ (\A q \in Terminal : IsWork(work'[q])) /\ LockHeld'
  <2>1. OnlyWork(p) /\ IsWork(work'[p]) /\ work'[p].at \in {"reread", "client"}
    BY <1>8, WorkSteps
  <2>2. holder = None /\ holder' = p
    BY <1>8 DEF Lock
  <2> QED BY <1>1, <2>1, <2>2, NobodyIsNoTerminal DEF LockHeld, OnlyWork, UnderLock
<1>9. ASSUME NEW p \in Terminal, Reread(p) \/ Exchange(p)
      PROVE  DOMAIN work' = Terminal /\ (\A q \in Terminal : IsWork(work'[q])) /\ LockHeld'
  <2>1. /\ OnlyWork(p) /\ IsWork(work'[p]) /\ work[p].at \in UnderLock /\ work'[p].at \in UnderLock
    BY <1>9, WorkSteps, ExchangeWork DEF IsWork, UnderLock
  <2>2. holder' = holder
    BY <1>9 DEF Reread, Exchange
  <2> QED BY <1>1, <1>2, <2>1, <2>2
<1> QED BY <1>4, <1>5, <1>6, <1>7, <1>8, <1>9 DEF Next, StoreStep

(* A token that ages stays a token of its login.                          *)
LEMMA OlderTyped ==
  ASSUME NEW t \in Jwts \cup {None}
  PROVE  /\ Older(t) \in Jwts \cup {None}
         /\ Older(t) = None \/ (t # None /\ Older(t).grant = t.grant)
BY DEF Older, Jwts, Age

(* The files, the tokens and what the terminals hold keep their types.     *)
LEMMA ProTypesNext ==
  ASSUME ProTypes, LockHeld, [Next]_vars
  PROVE  ProTypes'
<1>0. DOMAIN work' = Terminal /\ (\A p \in Terminal : IsWork(work'[p]))
  BY WorkNext
<1> USE DEF ProTypes, files, idp
<1>1. CASE UNCHANGED <<refresh, access, id, issued, alive, lost>>
  BY <1>0, <1>1
<1>2. CASE UNCHANGED vars
  BY <1>1, <1>2 DEF vars
<1>3. CASE Tick
  BY <1>0, <1>3, OlderTyped DEF Tick
<1>4. CASE Revoke
  BY <1>0, <1>4 DEF Revoke
<1>5. ASSUME NEW p \in Terminal, BeginRefresh(p) \/ Lock(p) \/ Skip(p) \/ Reread(p) \/ StoreClient(p)
      PROVE  ProTypes'
  BY <1>1, <1>5 DEF BeginRefresh, Lock, Skip, Reread, StoreClient
<1>6. ASSUME NEW p \in Terminal, Rejected(p) \/ RemoveRefresh(p) \/ Logout(p)
      PROVE  ProTypes'
  BY <1>0, <1>6 DEF Rejected, RemoveRefresh, Logout
<1>7. ASSUME NEW p \in Terminal, NEW c \in Client, Login(p, c) PROVE ProTypes'
  <2>1. work'[p].token \in Token /\ issued' \in Nat /\ alive' \subseteq Token
    BY <1>7, LoginWork DEF Signing
  <2> QED BY <1>0, <1>7, <2>1 DEF Login
<1>8. ASSUME NEW p \in Terminal, Exchange(p) PROVE ProTypes'
  <2>1. alive' \subseteq Token /\ issued' \in Nat
    BY <1>8, ExchangeWork DEF Storing
  <2> QED BY <1>0, <1>8, <2>1 DEF Exchange
<1>9. ASSUME NEW p \in Terminal, ExchangeFails(p) PROVE ProTypes'
  <2>1. work[p].token \in Token
    BY <1>9, StepOfWork DEF ExchangeFails, Renewing
  <2>2. NextToken(p) \in Token
    BY <2>1 DEF NextToken, Token
  <2>3. alive' \subseteq Token /\ issued' \in Nat /\ lost' \subseteq Token
    BY <1>9, <2>1, <2>2 DEF ExchangeFails, Rotate
  <2> QED BY <1>0, <1>9, <2>3 DEF ExchangeFails
<1>10. ASSUME NEW p \in Terminal, StoreRefresh(p) \/ StoreAccess(p) \/ StoreId(p) PROVE ProTypes'
  <2>1. work[p].token \in Token
    BY <1>10, StoreWork DEF StoreStep, Storing, Signing
  <2>2. Jwt(p) \in Jwts
    BY <2>1 DEF Jwt, Jwts, Token, Age
  <2> QED BY <1>0, <1>10, <2>1, <2>2 DEF StoreRefresh, StoreAccess, StoreId
<1>11. ASSUME NEW p \in Terminal, Dies(p) PROVE ProTypes'
  <2>1. lost' \subseteq Token
    <3>1. CASE work[p].op = "refresh" /\ "refresh" \in ToSet(work[p].todo)
      <4>1. ~Renewing(work[p])
        BY <3>1 DEF Renewing, ToSet
      <4>2. work[p].old \in Token
        BY <3>1, <4>1, StepOfWork DEF Storing
      <4> QED BY <1>11, <4>2 DEF Dies
    <3>2. CASE ~(work[p].op = "refresh" /\ "refresh" \in ToSet(work[p].todo))
      BY <1>11, <3>2 DEF Dies
    <3> QED BY <3>1, <3>2
  <2> QED BY <1>0, <1>11, <2>1 DEF Dies
<1> QED
  BY <1>2, <1>3, <1>4, <1>5, <1>6, <1>7, <1>8, <1>9, <1>10, <1>11 DEF Next

(* A command does one thing at a time.                                     *)
LEMMA OneKind ==
  ASSUME NEW w
  PROVE  /\ Renewing(w) => ~Storing(w) /\ ~Signing(w)
         /\ Resting(w) => ~Storing(w) /\ ~Signing(w) /\ ~Renewing(w) /\ w.at \notin UnderLock
         /\ Storing(w) => ~Signing(w)
         /\ w = Idle => Resting(w)
BY TodoNext DEF Renewing, Storing, Signing, Resting, UnderLock, Idle, RestingFields

(* A command whose token is still the one it had.                          *)
KeepsToken(q) ==
  HasToken(q)' =>
    /\ HasToken(q) /\ work'[q].token = work[q].token
    /\ Storing(work'[q]) /\ work'[q].at = "refresh" =>
         Storing(work[q]) /\ work[q].at = "refresh" /\ work'[q].old = work[q].old
    /\ Signing(work'[q]) =>
         /\ Signing(work[q]) /\ work'[q].offline = work[q].offline
         /\ work'[q].at \in {"lock", "client", "refresh"} => work[q].at \in {"lock", "client", "refresh"}

(* A command that takes no step keeps its token.                           *)
LEMMA SameKeeps ==
  ASSUME NEW q, work'[q] = work[q]
  PROVE  KeepsToken(q)
BY DEF KeepsToken, HasToken

(* A command without a token has none to lose.                             *)
LEMMA NoneKeeps ==
  ASSUME NEW q, Resting(work'[q]) \/ (Renewing(work'[q]) /\ work'[q].at # "exchange")
  PROVE  KeepsToken(q)
BY OneKind DEF KeepsToken, HasToken, UnderLock

(* Steps in which no token is issued and none is forgotten.                *)
LEMMA NothingIssued ==
  ASSUME ProTypes, TokensFresh, OwnTokens, issued' = issued, alive' \subseteq alive,
         alive \cup lost \subseteq alive' \cup lost', alive' \cap lost' = {},
         \A t \in lost' : t.n <= issued,
         \A q \in Terminal : KeepsToken(q)
  PROVE  TokensFresh' /\ OwnTokens'
<1>1. ASSUME NEW p \in Terminal
      PROVE  /\ Storing(work'[p]) /\ work'[p].at = "refresh" =>
                  /\ work'[p].old \notin alive' /\ work'[p].old.n <= issued'
                  /\ work'[p].token \in alive' \cup lost'
             /\ Signing(work'[p]) /\ work'[p].offline => work'[p].token \in alive' \cup lost'
  <2>1. KeepsToken(p)
    OBVIOUS
  <2>2. /\ Storing(work[p]) /\ work[p].at = "refresh" =>
             /\ work[p].old \notin alive /\ work[p].old.n <= issued
             /\ work[p].token \in alive \cup lost
        /\ Signing(work[p]) /\ work[p].offline => work[p].token \in alive \cup lost
    BY DEF TokensFresh
  <2> QED BY <2>1, <2>2 DEF KeepsToken, HasToken
<1>2. TokensFresh'
  <2>1. \A t \in alive' \cup lost' : t.n <= issued'
    BY DEF TokensFresh
  <2> QED BY <1>1, <2>1 DEF TokensFresh
<1>3. ASSUME NEW p \in Terminal, HasToken(p)'
      PROVE  /\ work'[p].token.n <= issued'
             /\ \A q \in Terminal \ {p} : Signing(work'[q]) => work'[p].token.n # work'[q].token.n
  <2>1. HasToken(p) /\ work'[p].token = work[p].token
    BY <1>3 DEF KeepsToken
  <2>2. ASSUME NEW q \in Terminal \ {p}, Signing(work'[q])
        PROVE  Signing(work[q]) /\ work'[q].token = work[q].token
    BY <2>2 DEF KeepsToken, HasToken
  <2> QED BY <2>1, <2>2 DEF OwnTokens
<1>4. OwnTokens'
  BY <1>3 DEF OwnTokens
<1> QED BY <1>2, <1>4

(* The token on disk stays or goes.                                        *)
LEMMA RefreshFades ==
  ASSUME OwnRefresh, issued' = issued, refresh' \in {refresh, None},
         \A q \in Terminal : KeepsToken(q)
  PROVE  OwnRefresh'
<1> SUFFICES ASSUME refresh' # None
             PROVE  /\ refresh'.n <= issued'
                    /\ \A q \in Terminal : Signing(work'[q]) /\ work'[q].at \in {"lock", "client", "refresh"} =>
                           refresh'.n # work'[q].token.n
  BY DEF OwnRefresh
<1>1. refresh' = refresh /\ refresh # None
  OBVIOUS
<1>2. ASSUME NEW q \in Terminal, Signing(work'[q]), work'[q].at \in {"lock", "client", "refresh"}
      PROVE  /\ Signing(work[q]) /\ work[q].at \in {"lock", "client", "refresh"}
             /\ work'[q].token = work[q].token
  BY <1>2 DEF KeepsToken, HasToken
<1> QED BY <1>1, <1>2 DEF OwnRefresh

(* While one command is under the lock, the others are not.                *)
LEMMA OthersWait ==
  ASSUME ProTypes, LockHeld, NEW p \in Terminal, work[p].at \in UnderLock
  PROVE  \A q \in Terminal \ {p} : work[q].at \notin UnderLock
BY DEF LockHeld

(* The exchange takes a token back and may issue another, which is in       *)
(* nobody's hand yet; so does one whose answer gets lost.                   *)
LEMMA RotateFresh ==
  ASSUME ProTypes, LockHeld, TokensFresh, OwnTokens, OwnRefresh, NEW p \in Terminal, OnlyWork(p),
         work[p].at = "exchange", work[p].token \in alive, NEW new \in Token,
         issued' = IF rotates THEN issued + 1 ELSE issued,
         alive' = (alive \ {work[p].token}) \cup {new},
         IF rotates THEN new.n = issued + 1 ELSE new = work[p].token,
         \/ lost' = lost /\ Storing(work'[p]) /\ work'[p].old = work[p].token /\ work'[p].token = new
            /\ (work'[p].at = "refresh" => new # work[p].token)
         \/ work'[p] = Idle /\ lost' = IF rotates THEN lost \cup {work[p].token} ELSE lost,
         refresh' = refresh
  PROVE  TokensFresh' /\ OwnTokens' /\ OwnRefresh'
<1>1. /\ issued \in Nat /\ issued <= issued' /\ alive \subseteq Token /\ lost \subseteq Token
      /\ \A t \in alive \cup lost : t.n \in Nat /\ t.n <= issued
      /\ alive \cap lost = {}
  BY DEF ProTypes, TokensFresh, Token
<1>2. /\ new.n <= issued' /\ new \notin lost
      /\ ~rotates => alive' = alive
      /\ rotates => new # work[p].token
      /\ work[p].token.n <= issued
  BY <1>1
<1>3. /\ alive' \cap lost' = {}
      /\ \A t \in alive' \cup lost' : t.n <= issued'
  <2>1. CASE rotates
    BY <1>1, <1>2, <2>1
  <2>2. CASE ~rotates
    BY <1>1, <1>2, <2>2
  <2> QED BY <2>1, <2>2
<1>4. \A t \in alive \cup lost : t = work[p].token \/ t \in alive' \cup lost'
  <2>1. lost \subseteq lost'
    OBVIOUS
  <2> QED BY <2>1
<1>5. HasToken(p)
  BY DEF HasToken
<1>6. ASSUME NEW q \in Terminal \ {p}
      PROVE  /\ work'[q] = work[q] /\ work[q].at \notin UnderLock /\ ~Storing(work[q])
             /\ Signing(work[q]) /\ work[q].offline => work[q].token \in alive' \cup lost'
             /\ Signing(work[q]) => work[p].token.n # work[q].token.n /\ work[q].token.n <= issued
             /\ Signing(work[q]) => work[q].at \in {"lock", "client", "refresh"}
             /\ HasToken(q) => Signing(work[q])
  <2>1. work'[q] = work[q] /\ IsWork(work[q])
    BY DEF OnlyWork, ProTypes
  <2>2. work[q].at \notin UnderLock
    BY OthersWait DEF UnderLock
  <2>3. ~Storing(work[q]) /\ work[q].at # "exchange"
    BY <2>1, <2>2, StepOfWork DEF UnderLock
  <2>4. Signing(work[q]) => work[p].token.n # work[q].token.n /\ work[q].token.n <= issued
    BY <1>5 DEF OwnTokens, HasToken
  <2>5. Signing(work[q]) /\ work[q].offline => work[q].token \in alive \cup lost
    BY DEF TokensFresh
  <2>6. Signing(work[q]) => work[q].at = "lock"
    BY <2>2, TodoNext DEF Signing, UnderLock
  <2> QED BY <1>4, <2>1, <2>2, <2>3, <2>4, <2>5, <2>6 DEF HasToken
<1>7. /\ ~Signing(work'[p])
      /\ Storing(work'[p]) /\ work'[p].at = "refresh" =>
                  /\ work'[p].old \notin alive' /\ work'[p].old.n <= issued'
                  /\ work'[p].token \in alive' \cup lost'
      /\ HasToken(p)' => work'[p].token = new
  <2>1. CASE work'[p] = Idle
    <3>1. Idle.at = "idle" /\ Resting(Idle)
      BY DEF Idle, Resting, RestingFields
    <3> QED BY <2>1, <3>1, OneKind DEF HasToken
  <2>2. CASE Storing(work'[p]) /\ work'[p].old = work[p].token /\ work'[p].token = new
            /\ (work'[p].at = "refresh" => new # work[p].token)
    <3>1. work[p].token.n <= issued'
      BY <1>1, <1>2
    <3> QED BY <2>2, <3>1, OneKind
  <2> QED BY <2>1, <2>2
<1>8. TokensFresh'
  <2>1. ASSUME NEW q \in Terminal
        PROVE  /\ Storing(work'[q]) /\ work'[q].at = "refresh" =>
                    /\ work'[q].old \notin alive' /\ work'[q].old.n <= issued'
                    /\ work'[q].token \in alive' \cup lost'
               /\ Signing(work'[q]) /\ work'[q].offline => work'[q].token \in alive' \cup lost'
    <3>1. CASE q = p
      BY <1>7, <3>1
    <3>2. CASE q # p
      BY <1>6, <3>2
    <3> QED BY <3>1, <3>2
  <2> QED BY <1>3, <2>1 DEF TokensFresh
<1>9. OwnTokens'
  <2>1. ASSUME NEW r \in Terminal, HasToken(r)', NEW q \in Terminal \ {r}, Signing(work'[q])
        PROVE  work'[r].token.n # work'[q].token.n
    <3>1. q # p /\ Signing(work[q]) /\ work'[q] = work[q] /\ work[q].token.n <= issued
          /\ work[q].token.n # work[p].token.n
      BY <1>6, <1>7, <2>1
    <3>2. CASE r = p
      <4>1. work'[r].token = new
        BY <1>7, <2>1, <3>2
      <4>2. CASE rotates
        BY <1>1, <3>1, <4>1, <4>2
      <4>3. CASE ~rotates
        BY <3>1, <4>1, <4>3
      <4> QED BY <4>2, <4>3
    <3>3. CASE r # p
      <4>1. HasToken(r) /\ work'[r] = work[r]
        BY <1>6, <2>1, <3>3 DEF HasToken
      <4> QED BY <3>1, <4>1 DEF OwnTokens
    <3> QED BY <3>2, <3>3
  <2>2. ASSUME NEW r \in Terminal, HasToken(r)' PROVE work'[r].token.n <= issued'
    <3>1. CASE r = p
      BY <1>2, <1>7, <2>2, <3>1
    <3>2. CASE r # p
      <4>1. HasToken(r) /\ work'[r] = work[r] /\ Signing(work[r]) /\ work[r].token \in Token
        BY <1>6, <2>2, <3>2 DEF HasToken, Signing
      <4>2. work[r].token.n <= issued /\ work[r].token.n \in Nat
        BY <4>1 DEF OwnTokens, Token
      <4> QED BY <1>1, <4>1, <4>2
    <3> QED BY <3>1, <3>2
  <2> QED BY <2>1, <2>2 DEF OwnTokens
<1>10. OwnRefresh'
  <2>1. ASSUME refresh # None PROVE refresh.n <= issued'
    <3>1. refresh.n <= issued /\ refresh.n \in Nat
      BY <2>1 DEF OwnRefresh, ProTypes, Token
    <3> QED BY <1>1, <3>1
  <2>2. ASSUME NEW q \in Terminal, Signing(work'[q]), refresh # None
        PROVE  refresh.n # work'[q].token.n
    <3>1. q # p /\ Signing(work[q]) /\ work'[q] = work[q] /\ work[q].at \in {"lock", "client", "refresh"}
      BY <1>6, <1>7, <2>2
    <3> QED BY <2>2, <3>1 DEF OwnRefresh
  <2> QED BY <2>1, <2>2 DEF OwnRefresh
<1> QED BY <1>8, <1>9, <1>10

TokensSound == TokensFresh /\ OwnTokens /\ OwnRefresh

(* A step of one command leaves the others their tokens.                   *)
LEMMA OthersKeep ==
  ASSUME NEW p \in Terminal, OnlyWork(p), KeepsToken(p)
  PROVE  \A q \in Terminal : KeepsToken(q)
BY SameKeeps DEF OnlyWork

(* A command that leaves drops its token.                                  *)
LEMMA LeaveKeeps ==
  ASSUME ProTypes, NEW p \in Terminal, Leave(p)
  PROVE  \A q \in Terminal : KeepsToken(q)
BY LeaveWork, NoneKeeps, OneKind, OthersKeep

(* A command that stores a file keeps its token.                           *)
LEMMA StoreKeeps ==
  ASSUME ProTypes, NEW p \in Terminal, StoreStep(p)
  PROVE  /\ \A q \in Terminal : KeepsToken(q)
         /\ Signing(work'[p]) => work'[p].at # "lock" /\ (work[p].at = "refresh" => work'[p].at = "access")
<1>0. IsWork(work[p])
  BY DEF ProTypes
<1>1. /\ OnlyWork(p) /\ (Storing(work[p]) \/ Signing(work[p])) /\ work[p].at \in UnderLock
      /\ Written(p)
  BY StoreWork, WrittenWork
<1>2. CASE work'[p] = Idle
  BY <1>1, <1>2, LeaveWork, NoneKeeps, OneKind, OthersKeep
<1>3. CASE work'[p] # Idle
  <2>1. /\ Len(work[p].todo) # 1
        /\ work'[p].token = work[p].token /\ work'[p].at = work[p].todo[2]
        /\ Storing(work[p]) => Storing(work'[p]) /\ work'[p].at \in {"access", "id"}
        /\ Signing(work[p]) => /\ Signing(work'[p]) /\ work'[p].at \in {"refresh", "access", "id"}
                               /\ work'[p].offline = work[p].offline
    BY <1>1, <1>3, WrittenWork
  <2>2. CASE Storing(work[p])
    BY <1>1, <2>1, <2>2, OneKind, OthersKeep DEF KeepsToken, HasToken
  <2>3. CASE Signing(work[p])
    <3>1. work[p].at = work[p].todo[1] /\ work[p].todo \in LoginTodo
      BY <1>1, <2>3 DEF Signing, UnderLock
    <3>2. /\ work[p].at \in {"client", "refresh", "access", "id"}
          /\ work[p].at = "client" => work'[p].at = "refresh"
          /\ work[p].at = "refresh" => work'[p].at = "access"
          /\ work[p].at = "access" => work'[p].at = "id"
          /\ work[p].at = "id" => Len(work[p].todo) = 1
      BY <2>1, <3>1, TodoNext
    <3>3. KeepsToken(p)
      BY <2>1, <2>3, <3>2, OneKind DEF KeepsToken, HasToken
    <3> QED BY <1>1, <2>1, <3>2, <3>3, OthersKeep
  <2> QED BY <1>1, <2>2, <2>3
<1> QED BY <1>2, <1>3

(* No step brings a token into a second hand.                              *)
LEMMA TokensSoundNext ==
  ASSUME ProTypes, LockHeld, TokensSound, [Next]_vars
  PROVE  TokensSound'
<1>0. /\ TokensFresh /\ OwnTokens /\ OwnRefresh
      /\ alive \cap lost = {} /\ \A t \in alive \cup lost : t.n <= issued
  BY DEF TokensSound, TokensFresh
<1>1. ASSUME UNCHANGED idp, lost' = lost, refresh' \in {refresh, None},
             \A q \in Terminal : KeepsToken(q)
      PROVE  TokensSound'
  BY <1>0, <1>1, NothingIssued, RefreshFades DEF TokensSound, idp
<1>2. CASE UNCHANGED vars \/ Tick
  BY <1>1, <1>2, SameKeeps DEF vars, files, Tick
<1>3. CASE Revoke
  <2>1. PICK t \in alive : alive' = alive \ {t} /\ lost' = lost \cup {t}
    BY <1>3 DEF Revoke
  <2>2. issued' = issued /\ refresh' = refresh /\ \A q \in Terminal : KeepsToken(q)
    BY <1>3, SameKeeps DEF Revoke, files
  <2>3. /\ alive' \subseteq alive /\ alive \cup lost \subseteq alive' \cup lost'
        /\ alive' \cap lost' = {} /\ \A u \in lost' : u.n <= issued
    BY <1>0, <2>1
  <2> QED BY <1>0, <2>2, <2>3, NothingIssued, RefreshFades DEF TokensSound
<1>4. ASSUME NEW p \in Terminal, BeginRefresh(p) \/ Lock(p) \/ Logout(p)
      PROVE  TokensSound'
  <2>1. OnlyWork(p) /\ KeepsToken(p)
    <3>1. CASE BeginRefresh(p) \/ Logout(p)
      BY <3>1, WorkSteps, NoneKeeps
    <3>2. CASE Lock(p)
      <4>1. /\ OnlyWork(p) /\ IsWork(work'[p]) /\ work[p].at = "lock"
            /\ work'[p].at \in {"reread", "client"} /\ work'[p].token = work[p].token
            /\ Signing(work'[p]) <=> Signing(work[p])
            /\ Signing(work[p]) => work'[p].offline = work[p].offline
        BY <3>2, WorkSteps
      <4>2. ~Storing(work'[p])
        BY <4>1, StepOfWork
      <4> QED BY <4>1, <4>2 DEF KeepsToken, HasToken
    <3> QED BY <1>4, <3>1, <3>2
  <2> QED BY <1>1, <1>4, <2>1, OthersKeep DEF BeginRefresh, Lock, Logout, files
<1>5. ASSUME NEW p \in Terminal, Skip(p) \/ Rejected(p) \/ RemoveRefresh(p)
      PROVE  TokensSound'
  BY <1>1, <1>5, LeaveSteps, LeaveKeeps DEF Skip, Rejected, RemoveRefresh, files
<1>6. ASSUME NEW p \in Terminal, Reread(p) PROVE TokensSound'
  <2>1. /\ OnlyWork(p) /\ Renewing(work'[p]) /\ work'[p].at = "exchange"
        /\ work'[p].token = refresh /\ refresh # None /\ refresh \in Token
        /\ work[p].at = "reread"
    BY <1>6, WorkSteps
  <2>2. UNCHANGED <<files, idp, lost>>
    BY <1>6 DEF Reread
  <2>3. \A q \in Terminal \ {p} : /\ work'[q] = work[q] /\ work[q].at \notin UnderLock
                                  /\ HasToken(q)' <=> HasToken(q)
    BY <2>1, OthersWait DEF UnderLock, OnlyWork, HasToken
  <2>4. ~Signing(work'[p]) /\ ~Storing(work'[p])
    BY <2>1, OneKind
  <2>5. OwnRefresh'
    BY <1>0, <2>2, <2>3, <2>4 DEF OwnRefresh, files, idp
  <2>6. TokensFresh'
    BY <1>0, <2>2, <2>3, <2>4 DEF TokensFresh, idp
  <2>7. ASSUME NEW q \in Terminal \ {p}, Signing(work[q])
        PROVE  refresh.n # work[q].token.n
    <3>1. work[q].at = "lock"
      BY <2>3, <2>7, TodoNext DEF Signing, UnderLock
    <3> QED BY <1>0, <2>1, <2>7, <3>1 DEF OwnRefresh
  <2>8. refresh.n <= issued
    BY <1>0, <2>1 DEF OwnRefresh
  <2>9. ASSUME NEW r \in Terminal, HasToken(r)'
        PROVE  /\ work'[r].token.n <= issued'
               /\ \A q \in Terminal \ {r} : Signing(work'[q]) => work'[r].token.n # work'[q].token.n
    <3>1. CASE r = p
      BY <2>1, <2>2, <2>3, <2>7, <2>8, <3>1 DEF idp
    <3>2. CASE r # p
      BY <1>0, <2>2, <2>3, <2>4, <2>9, <3>2 DEF OwnTokens, idp
    <3> QED BY <3>1, <3>2
  <2> QED BY <2>5, <2>6, <2>9 DEF TokensSound, OwnTokens
<1>7. ASSUME NEW p \in Terminal, Exchange(p) PROVE TokensSound'
  <2>1. refresh' = refresh /\ lost' = lost /\ work'[p].token \in Token
    BY <1>7, ExchangeWork DEF Exchange, files, Storing
  <2> QED BY <1>0, <1>7, <2>1, ExchangeWork, RotateFresh DEF TokensSound
<1>8. ASSUME NEW p \in Terminal, ExchangeFails(p) PROVE TokensSound'
  <2>1. CASE UNCHANGED <<idp, lost>>
    BY <1>1, <1>8, <2>1, LeaveSteps, LeaveKeeps DEF ExchangeFails, files
  <2>2. CASE /\ Accepted(p) /\ Rotate(p)
             /\ lost' = IF rotates THEN lost \cup {work[p].token} ELSE lost
    <3>1. work[p].at = "exchange" /\ work[p].token \in alive /\ work[p].token \in Token
      BY <1>8, <2>2 DEF ExchangeFails, Accepted, ProTypes
    <3>2. /\ NextToken(p) \in Token
          /\ IF rotates THEN NextToken(p).n = issued + 1 ELSE NextToken(p) = work[p].token
      BY <3>1 DEF NextToken, Token, ProTypes
    <3>3. OnlyWork(p) /\ work'[p] = Idle
      BY <1>8, LeaveSteps, LeaveWork
    <3>4. refresh' = refresh
      BY <1>8 DEF ExchangeFails, files
    <3> QED BY <1>0, <2>2, <3>1, <3>2, <3>3, <3>4, RotateFresh DEF Rotate, TokensSound
  <2> QED BY <1>8, <2>1, <2>2 DEF ExchangeFails
<1>9. ASSUME NEW p \in Terminal, NEW c \in Client, Login(p, c) PROVE TokensSound'
  <2>1. /\ OnlyWork(p) /\ work[p] = Idle /\ Signing(work'[p]) /\ work'[p].at = "lock"
        /\ issued' = issued + 1 /\ work'[p].token.n = issued'
        /\ alive' \in {alive, alive \cup {work'[p].token}}
        /\ work'[p].offline => work'[p].token \in alive'
    BY <1>9, LoginWork
  <2>2. lost' = lost /\ refresh' = refresh
    BY <1>9 DEF Login, files
  <2>3. /\ issued \in Nat /\ \A t \in alive \cup lost : t.n \in Nat /\ t.n <= issued
    BY <1>0 DEF ProTypes, Token
  <2>4. ~Storing(work'[p])
    BY <2>1, OneKind
  <2>5. ASSUME NEW q \in Terminal \ {p}
        PROVE  /\ work'[q] = work[q] /\ (HasToken(q)' <=> HasToken(q))
               /\ HasToken(q) => work[q].token.n <= issued /\ work[q].token.n \in Nat
    <3>1. work'[q] = work[q] /\ (HasToken(q)' <=> HasToken(q))
      BY <2>1 DEF OnlyWork, HasToken
    <3>2. HasToken(q) => work[q].token \in Token
      BY StepOfWork DEF HasToken, Renewing, Storing, Signing, ProTypes
    <3> QED BY <1>0, <3>1, <3>2 DEF OwnTokens, Token
  <2>6. TokensFresh'
    <3>1. alive' \cap lost' = {} /\ \A t \in alive' \cup lost' : t.n <= issued'
      BY <1>0, <2>1, <2>2, <2>3
    <3>2. alive \cup lost \subseteq alive' \cup lost'
      BY <2>1, <2>2
    <3>3. ASSUME NEW q \in Terminal
          PROVE  /\ Storing(work'[q]) /\ work'[q].at = "refresh" =>
                      /\ work'[q].old \notin alive' /\ work'[q].old.n <= issued'
                      /\ work'[q].token \in alive' \cup lost'
                 /\ Signing(work'[q]) /\ work'[q].offline => work'[q].token \in alive' \cup lost'
      <4>1. CASE q = p
        BY <2>1, <2>4, <4>1
      <4>2. CASE q # p
        <5>1. work'[q] = work[q]
          BY <2>5, <4>2
        <5>2. Storing(work[q]) => work[q].old \in Token
          BY DEF Storing
        <5>3. Storing(work[q]) /\ work[q].at = "refresh" =>
                      /\ work[q].old \notin alive /\ work[q].old.n <= issued
                      /\ work[q].token \in alive \cup lost
          BY <1>0 DEF TokensFresh
        <5>4. Storing(work[q]) /\ work[q].at = "refresh" => work[q].old \notin alive' /\ work[q].old.n <= issued'
          BY <2>1, <2>3, <5>2, <5>3 DEF Token
        <5>5. Signing(work[q]) /\ work[q].offline => work[q].token \in alive \cup lost
          BY <1>0 DEF TokensFresh
        <5> QED BY <3>2, <5>1, <5>3, <5>4, <5>5
      <4> QED BY <4>1, <4>2
    <3> QED BY <3>1, <3>3 DEF TokensFresh
  <2>7. OwnTokens'
    <3>1. ASSUME NEW r \in Terminal, HasToken(r)' PROVE work'[r].token.n <= issued'
      <4>1. CASE r = p
        BY <2>1, <2>3, <4>1
      <4>2. CASE r # p
        BY <2>1, <2>3, <2>5, <3>1, <4>2
      <4> QED BY <4>1, <4>2
    <3>2. ASSUME NEW r \in Terminal, HasToken(r)', NEW q \in Terminal \ {r}, Signing(work'[q])
          PROVE  work'[r].token.n # work'[q].token.n
      <4>1. CASE r = p
        BY <2>1, <2>3, <2>5, <3>2, <4>1 DEF HasToken
      <4>2. CASE q = p
        BY <2>1, <2>3, <2>5, <3>2, <4>2
      <4>3. CASE r # p /\ q # p
        BY <1>0, <2>5, <3>2, <4>3 DEF OwnTokens
      <4> QED BY <4>1, <4>2, <4>3
    <3> QED BY <3>1, <3>2 DEF OwnTokens
  <2>8. OwnRefresh'
    <3>1. refresh # None => refresh.n <= issued /\ refresh.n \in Nat
      BY <1>0 DEF OwnRefresh, ProTypes, Token
    <3>2. ASSUME NEW q \in Terminal, Signing(work'[q]), work'[q].at \in {"lock", "client", "refresh"},
                 refresh # None
          PROVE  refresh.n # work'[q].token.n
      <4>1. CASE q = p
        BY <2>1, <2>3, <3>1, <3>2, <4>1
      <4>2. CASE q # p
        BY <1>0, <2>5, <3>2, <4>2 DEF OwnRefresh
      <4> QED BY <4>1, <4>2
    <3> QED BY <2>1, <2>2, <2>3, <3>1, <3>2 DEF OwnRefresh
  <2> QED BY <2>6, <2>7, <2>8 DEF TokensSound
<1>10. ASSUME NEW p \in Terminal, StoreClient(p) \/ StoreAccess(p) \/ StoreId(p)
       PROVE  TokensSound'
  BY <1>1, <1>10, StoreKeeps DEF StoreStep, StoreClient, StoreAccess, StoreId
<1>11. ASSUME NEW p \in Terminal, StoreRefresh(p) PROVE TokensSound'
  <2>1. /\ \A q \in Terminal : KeepsToken(q)
        /\ Signing(work'[p]) => work'[p].at = "access"
        /\ UNCHANGED idp /\ lost' = lost /\ work[p].at = "refresh"
        /\ refresh' \in {None, work[p].token}
    BY <1>11, StoreKeeps DEF StoreStep, StoreRefresh
  <2>2. TokensFresh' /\ OwnTokens'
    BY <1>0, <2>1, NothingIssued DEF idp
  <2>3. HasToken(p)
    BY <1>11, StoreWork DEF StoreStep, HasToken
  <2>4. refresh' # None => refresh'.n <= issued
    BY <1>0, <2>1, <2>3 DEF OwnTokens
  <2>5. ASSUME NEW q \in Terminal, Signing(work'[q]), work'[q].at \in {"lock", "client", "refresh"},
               refresh' # None
        PROVE  refresh'.n # work'[q].token.n
    <3>1. q # p
      BY <2>1, <2>5
    <3>2. Signing(work[q]) /\ work'[q].token = work[q].token
      BY <2>1, <2>5 DEF KeepsToken, HasToken
    <3> QED BY <1>0, <2>1, <2>3, <2>5, <3>1, <3>2 DEF OwnTokens
  <2> QED BY <2>1, <2>2, <2>4, <2>5 DEF TokensSound, OwnRefresh, idp
<1>12. ASSUME NEW p \in Terminal, Dies(p) PROVE TokensSound'
  <2>1. /\ \A q \in Terminal : KeepsToken(q)
        /\ UNCHANGED <<files, idp>>
        /\ lost' = IF work[p].op = "refresh" /\ "refresh" \in ToSet(work[p].todo) /\ work[p].todo = work[p].all
                   THEN lost \cup {work[p].old} ELSE lost
    BY <1>12, LeaveSteps, LeaveKeeps DEF Dies
  <2>2. CASE lost' = lost
    BY <1>1, <2>1, <2>2 DEF files
  <2>3. CASE work[p].op = "refresh" /\ "refresh" \in ToSet(work[p].todo) /\ lost' = lost \cup {work[p].old}
    <3>1. Storing(work[p])
      <4>1. work[p].todo # <<>>
        BY <2>3 DEF ToSet
      <4> QED BY <2>3, <4>1, StepOfWork DEF ProTypes, Renewing
    <3>2. work[p].at = "refresh"
      BY <2>3, <3>1 DEF Storing, RenewTodo, ToSet
    <3>3. work[p].old \notin alive /\ work[p].old.n <= issued
      BY <1>0, <3>1, <3>2 DEF TokensFresh
    <3>4. /\ alive' \cap lost' = {} /\ (\A t \in lost' : t.n <= issued)
          /\ alive' = alive /\ issued' = issued /\ alive \cup lost \subseteq alive' \cup lost'
          /\ refresh' = refresh
      BY <1>0, <2>1, <2>3, <3>3 DEF idp, files
    <3> QED BY <1>0, <2>1, <3>4, NothingIssued, RefreshFades DEF TokensSound
  <2> QED BY <2>1, <2>2, <2>3
<1> QED
  BY <1>2, <1>3, <1>4, <1>5, <1>6, <1>7, <1>8, <1>9, <1>10, <1>11, <1>12 DEF Next

Claims == {"exchange", "refresh", "access", "id"}

GrantNext(g) == \A x \in {refresh', access', id'} \ {None} : x.grant = g

(* Files that go, and tokens that get revoked, break no promise of a       *)
(* command that has made one.                                              *)
LEMMA FilesFade ==
  ASSUME ProTypes, SessionSound, client' = client, half' <=> half, refresh' \in {refresh, None},
         access' = None \/ (access # None /\ access'.grant = access.grant),
         id' = None \/ (id # None /\ id'.grant = id.grant),
         alive \subseteq alive' \cup lost', lost \subseteq lost',
         \A q \in Terminal : \/ work'[q] = work[q]
                             \/ IsWork(work'[q]) /\ work[q].at \notin Claims /\ work'[q].at \notin Claims
  PROVE  SessionSound'
<1>1. ASSUME NEW q \in Terminal
      PROVE  /\ Replacing(q)' <=> Replacing(q)
             /\ work'[q].at # "refresh" <=> work[q].at # "refresh"
             /\ work'[q] = work[q] \/ (~Replacing(q)' /\ ~Storing(work'[q]) /\ work'[q].at # "exchange")
  BY StepOfWork DEF Replacing, Claims
<1>2. ASSUME NEW x \in {refresh', access', id'} \ {None}
      PROVE  \E y \in {refresh, access, id} \ {None} : x.grant = y.grant
  <2>1. CASE x = refresh'
    BY <1>2, <2>1
  <2>2. CASE x = access'
    BY <1>2, <2>2
  <2>3. CASE x = id'
    BY <1>2, <2>3
  <2> QED BY <2>1, <2>2, <2>3
<1>3. \A g : GrantIs(g) => GrantNext(g)
  BY <1>2 DEF GrantIs, GrantNext
<1>4. SameGrant => SameGrant'
  BY <1>2 DEF SameGrant
<1>5. Usable => Usable'
  BY DEF Usable
<1>6. ASSUME NEW q \in Terminal PROVE LoginSound(q)'
  <2>1. LoginSound(q)
    BY DEF SessionSound
  <2> QED BY <1>1, <2>1 DEF LoginSound
<1>7. ASSUME NEW q \in Terminal, ~half PROVE RenewalSound(q)'
  <2>1. RenewalSound(q)
    BY <1>7 DEF SessionSound
  <2>2. CASE work'[q] = work[q]
    <3>1. /\ Renewing(work[q]) /\ work[q].at = "exchange" => GrantNext(work[q].token.grant)
          /\ Storing(work[q]) => GrantNext(work[q].token.grant)
      BY <1>3, <2>1 DEF RenewalSound
    <3> QED BY <2>1, <2>2, <3>1 DEF RenewalSound, GrantIs, GrantNext
  <2>3. CASE ~Storing(work'[q]) /\ work'[q].at # "exchange"
    BY <2>3 DEF RenewalSound
  <2> QED BY <1>1, <2>2, <2>3
<1> QED BY <1>1, <1>4, <1>5, <1>6, <1>7 DEF SessionSound

(* What the command under the lock answers for.                            *)
HolderSound(p) ==
  /\ LoginSound(p)
  /\ ~half => /\ ~Replacing(p) => SameGrant
              /\ ~Replacing(p) /\ work[p].at # "refresh" => Usable
              /\ RenewalSound(p)

(* Nobody else answers for anything while one command holds the lock.      *)
LEMMA HolderAnswers ==
  ASSUME ProTypes, LockHeld, SessionSound, NEW p \in Terminal, work[p].at \in UnderLock
  PROVE  HolderSound(p)
<1>1. \A q \in Terminal : ~Replacing(p) => ~Replacing(q)
  BY OthersWait DEF Replacing, UnderLock
<1>2. \A q \in Terminal : ~Replacing(p) /\ work[p].at # "refresh" => ~Replacing(q) /\ work[q].at # "refresh"
  BY OthersWait DEF Replacing, UnderLock
<1> QED BY <1>1, <1>2 DEF SessionSound, HolderSound

(* So a step of that command has to answer for itself only.                *)
LEMMA HolderEnough ==
  ASSUME ProTypes, LockHeld, NEW p \in Terminal, work[p].at \in UnderLock, OnlyWork(p), HolderSound(p)'
  PROVE  SessionSound'
<1>1. ASSUME NEW q \in Terminal, q # p
      PROVE  /\ ~Replacing(q)' /\ work'[q].at # "refresh"
             /\ ~Storing(work'[q]) /\ work'[q].at # "exchange"
  <2>1. work'[q] = work[q] /\ work[q].at \notin UnderLock /\ IsWork(work[q])
    BY <1>1, OthersWait DEF OnlyWork, ProTypes
  <2> QED BY <2>1, StepOfWork DEF Replacing, UnderLock
<1>2. \A q \in Terminal : LoginSound(q)' /\ (~half' => RenewalSound(q)')
  <2>1. ASSUME NEW q \in Terminal, q # p PROVE LoginSound(q)' /\ RenewalSound(q)'
    BY <1>1, <2>1 DEF LoginSound, RenewalSound
  <2> QED BY <2>1 DEF HolderSound
<1> QED BY <1>2 DEF SessionSound, HolderSound

(* A command that is out of the way answers for nothing but the session.   *)
LEMMA IdleAnswers ==
  ASSUME NEW p, work'[p] = Idle, (~half') => SameGrant' /\ Usable'
  PROVE  HolderSound(p)'
<1>1. ~Replacing(p)' /\ ~Storing(work'[p]) /\ work'[p].at # "exchange"
  BY OneKind DEF Replacing, Idle
<1> QED BY <1>1 DEF HolderSound, LoginSound, RenewalSound

(* A renewal: the token is read again under the lock, so that the answer   *)
(* is for the session on disk, and its refusal removes no other session.   *)
LEMMA RenewalNext ==
  ASSUME ProTypes, LockHeld, TokensSound, SessionSound, NEW p \in Terminal,
         Reread(p) \/ Exchange(p) \/ ExchangeFails(p) \/ Rejected(p)
  PROVE  SessionSound'
<1>0. alive \cap lost = {}
  BY DEF TokensSound, TokensFresh
<1>1. CASE Reread(p)
  <2>1. /\ OnlyWork(p) /\ Renewing(work'[p]) /\ work'[p].at = "exchange"
        /\ work'[p].token = refresh /\ refresh # None /\ refresh \in Token
        /\ work[p].at = "reread"
    BY <1>1, WorkSteps
  <2>2. UNCHANGED <<files, idp, lost, half>>
    BY <1>1 DEF Reread
  <2>3. HolderSound(p) /\ ~Replacing(p)
    BY <2>1, HolderAnswers DEF UnderLock, Replacing
  <2>4. ~Replacing(p)' /\ ~Storing(work'[p])
    BY <2>1, OneKind DEF Replacing
  <2>5. (~half) => SameGrant /\ Usable
    BY <2>1, <2>3 DEF HolderSound
  <2>6. SameGrant => GrantIs(refresh.grant)
    BY <2>1 DEF SameGrant, GrantIs
  <2>7. /\ SameGrant' <=> SameGrant
        /\ Usable' <=> Usable
        /\ GrantNext(refresh.grant) <=> GrantIs(refresh.grant)
    BY <2>2 DEF SameGrant, Usable, GrantIs, GrantNext, files, idp
  <2>8. (~half) => RenewalSound(p)'
    <3> SUFFICES ASSUME ~half PROVE RenewalSound(p)'
      OBVIOUS
    <3>2. GrantNext(work'[p].token.grant)
      BY <2>1, <2>5, <2>6, <2>7
    <3>3. refresh \in lost \/ refresh.client = client
      BY <2>1, <2>5 DEF Usable
    <3> QED BY <2>1, <2>2, <2>4, <3>2, <3>3 DEF RenewalSound, GrantIs, GrantNext, files, idp
  <2> QED
    BY <2>1, <2>2, <2>4, <2>5, <2>7, <2>8, HolderEnough DEF HolderSound, LoginSound, UnderLock
<1>2. CASE Exchange(p)
  <2>0. /\ work[p].at = "exchange" /\ Renewing(work[p]) /\ work[p].token \in Token
        /\ work[p].token \in alive /\ work[p].token.client = work[p].client
        /\ OnlyWork(p) /\ Storing(work'[p]) /\ work'[p].at \in {"refresh", "access"}
        /\ work'[p].old = work[p].token /\ work'[p].token.grant = work[p].token.grant
        /\ work'[p].token.client = work[p].token.client
        /\ IF rotates THEN work'[p].token.n = issued + 1 ELSE work'[p].token = work[p].token
        /\ work'[p].at = "refresh" <=> work'[p].token # work[p].token
        /\ alive' = (alive \ {work[p].token}) \cup {work'[p].token}
    BY <1>2, ExchangeWork
  <2>1. UNCHANGED <<files, lost, half>>
    BY <1>2 DEF Exchange
  <2>2. HolderSound(p) /\ ~Replacing(p)
    BY <2>0, HolderAnswers DEF UnderLock, Replacing, Renewing
  <2>3. ~Replacing(p)' /\ ~Renewing(work'[p])
    BY <2>0, OneKind DEF Replacing, Storing
  <2>4. (~half) => /\ SameGrant /\ Usable /\ GrantIs(work[p].token.grant)
                   /\ refresh \in {None, work[p].token} /\ work[p].token.client = client
    BY <1>0, <2>0, <2>2 DEF HolderSound, RenewalSound
  <2>5. /\ SameGrant' <=> SameGrant
        /\ GrantIs(work[p].token.grant) => GrantNext(work'[p].token.grant)
    BY <2>0, <2>1 DEF SameGrant, GrantIs, GrantNext, files
  <2>6. work'[p].at # "refresh" /\ Usable => Usable'
    <3>1. work'[p].at # "refresh" => alive' = alive
      BY <2>0
    <3> QED BY <2>1, <3>1 DEF Usable, files
  <2>7. (~half) => RenewalSound(p)'
    BY <2>0, <2>1, <2>3, <2>4, <2>5 DEF RenewalSound, GrantIs, GrantNext, files
  <2> QED
    BY <2>0, <2>1, <2>3, <2>4, <2>5, <2>6, <2>7, HolderEnough DEF HolderSound, LoginSound, UnderLock
<1>3. CASE ExchangeFails(p)
  <2>1. work[p].at = "exchange" /\ OnlyWork(p) /\ work'[p] = Idle /\ UNCHANGED <<files, half>>
    BY <1>3, LeaveSteps, LeaveWork DEF ExchangeFails
  <2>2. Renewing(work[p]) /\ HolderSound(p) /\ ~Replacing(p)
    BY <2>1, StepOfWork, HolderAnswers DEF UnderLock, Replacing, ProTypes
  <2>3. (~half) => /\ SameGrant /\ Usable /\ refresh \in {None, work[p].token}
    BY <2>1, <2>2 DEF HolderSound, RenewalSound
  <2>4. SameGrant' <=> SameGrant
    BY <2>1 DEF SameGrant, files
  <2>5. Usable /\ refresh \in {None, work[p].token} => Usable'
    <3>1. CASE UNCHANGED <<idp, lost>>
      BY <2>1, <3>1 DEF Usable, files, idp
    <3>2. CASE /\ Accepted(p) /\ Rotate(p)
               /\ lost' = IF rotates THEN lost \cup {work[p].token} ELSE lost
      <4>1. CASE rotates
        BY <2>1, <3>2, <4>1 DEF Usable, files
      <4>2. CASE ~rotates
        <5>1. alive' = alive
          BY <3>2, <4>2 DEF Rotate, NextToken, Accepted
        <5> QED BY <2>1, <3>2, <4>2, <5>1 DEF Usable, files
      <4> QED BY <4>1, <4>2
    <3> QED BY <1>3, <3>1, <3>2 DEF ExchangeFails
  <2> QED
    BY <2>1, <2>3, <2>4, <2>5, HolderEnough, IdleAnswers DEF UnderLock
<1>4. CASE Rejected(p)
  <2>1. /\ work[p].at = "exchange" /\ OnlyWork(p) /\ work'[p] = Idle
        /\ UNCHANGED <<client, access, id, half>> /\ refresh' = None
    BY <1>4, LeaveSteps, LeaveWork DEF Rejected
  <2>2. Renewing(work[p]) /\ HolderSound(p) /\ ~Replacing(p)
    BY <2>1, StepOfWork, HolderAnswers DEF UnderLock, Replacing, ProTypes
  <2>3. SameGrant => SameGrant'
    BY <2>1 DEF SameGrant
  <2>4. Usable'
    BY <2>1 DEF Usable
  <2> QED
    BY <2>1, <2>2, <2>3, <2>4, HolderEnough, IdleAnswers DEF UnderLock, HolderSound
<1> QED BY <1>1, <1>2, <1>3, <1>4

(* The files a renewal stores: the session's own, whoever renewed it.      *)
LEMMA RenewalStores ==
  ASSUME ProTypes, LockHeld, TokensSound, SessionSound, NEW p \in Terminal, Storing(work[p]),
         StoreStep(p)
  PROVE  SessionSound'
<1>0. /\ OnlyWork(p) /\ Written(p) /\ work[p].at \in {"refresh", "access", "id"}
      /\ work[p].op = "refresh" /\ ~Signing(work[p]) /\ ~Replacing(p)
      /\ work'[p] = Idle \/ /\ Storing(work'[p]) /\ work'[p].token = work[p].token
                            /\ work'[p].at \in {"access", "id"}
  BY StoreWork, WrittenWork, OneKind, StepOfWork DEF Replacing, ProTypes
<1>1. HolderSound(p) /\ work[p].at \in UnderLock
  BY <1>0, HolderAnswers DEF UnderLock
<1>2. (half' <=> half) /\ client' = client /\ UNCHANGED <<idp, lost>>
  <2>1. CASE StoreRefresh(p) \/ StoreAccess(p)
    BY <2>1 DEF StoreRefresh, StoreAccess
  <2>2. CASE StoreId(p)
    BY <1>0, <2>2, Zenon DEF StoreId, idp
  <2> QED BY <1>0, <2>1, <2>2 DEF StoreStep, StoreClient
<1>3. /\ refresh' = refresh \/ (work[p].at = "refresh" /\ refresh' = work[p].token)
      /\ work[p].at = "refresh" => refresh' = work[p].token
      /\ access' = access \/ access' = Jwt(p)
      /\ id' = id \/ id' = Jwt(p)
  BY <1>0 DEF StoreStep, StoreClient, StoreRefresh, StoreAccess, StoreId
<1>4. Jwt(p).grant = work[p].token.grant
  BY DEF Jwt
<1>5. GrantIs(work[p].token.grant) => GrantNext(work[p].token.grant)
  BY <1>3, <1>4 DEF GrantIs, GrantNext
<1>6. ASSUME ~half PROVE SameGrant' /\ Usable' /\ GrantNext(work[p].token.grant)
  <2>1. GrantNext(work[p].token.grant)
    BY <1>1, <1>5, <1>6 DEF HolderSound, RenewalSound
  <2>2. SameGrant'
    BY <2>1 DEF SameGrant, GrantNext
  <2>3. Usable'
    <3>1. CASE work[p].at = "refresh"
      <4>1. work[p].token.client = client
        BY <1>1, <1>6, <3>1 DEF HolderSound, RenewalSound
      <4>2. work[p].token \in alive \cup lost
        BY <3>1 DEF TokensSound, TokensFresh
      <4> QED BY <1>2, <1>3, <3>1, <4>1, <4>2 DEF Usable, idp
    <3>2. CASE work[p].at # "refresh"
      <4>1. Usable
        BY <1>0, <1>1, <1>6, <3>2 DEF HolderSound
      <4> QED BY <1>2, <1>3, <3>2, <4>1 DEF Usable, idp
    <3> QED BY <3>1, <3>2
  <2> QED BY <2>1, <2>2, <2>3
<1>7. CASE work'[p] = Idle
  BY <1>0, <1>1, <1>2, <1>6, <1>7, HolderEnough, IdleAnswers
<1>8. CASE Storing(work'[p]) /\ work'[p].token = work[p].token /\ work'[p].at \in {"access", "id"}
  <2>1. ~Replacing(p)' /\ ~Renewing(work'[p])
    BY <1>8, OneKind DEF Replacing, Storing
  <2>2. (~half) => RenewalSound(p)'
    BY <1>6, <1>8, <2>1 DEF RenewalSound, GrantIs, GrantNext
  <2> QED
    BY <1>0, <1>1, <1>2, <1>6, <2>1, <2>2, HolderEnough DEF HolderSound, LoginSound
<1> QED BY <1>0, <1>7, <1>8

(* The files a login stores: whatever it finds, the session it leaves is   *)
(* whole, and its last file makes good what a login before it left.        *)
LEMMA LoginStores ==
  ASSUME ProTypes, LockHeld, TokensSound, SessionSound, NEW p \in Terminal, Signing(work[p]),
         StoreStep(p)
  PROVE  SessionSound'
<1>0. /\ OnlyWork(p) /\ Written(p) /\ work[p].at \in UnderLock /\ work[p].op = "login"
      /\ work[p].token \in Token /\ work[p].client = work[p].token.client
      /\ work[p].at = work[p].todo[1] /\ work[p].todo \in LoginTodo
  <2>1. Written(p) /\ work[p].at \in UnderLock /\ OnlyWork(p)
    BY StoreWork, WrittenWork
  <2>2. work[p].at # "lock"
    BY <2>1 DEF UnderLock
  <2> QED BY <2>1, <2>2 DEF Signing
<1>1. /\ work[p].at \in {"client", "refresh", "access", "id"}
      /\ work[p].at = "client" => work[p].todo[2] = "refresh" /\ Len(work[p].todo) # 1
      /\ work[p].at = "refresh" => work[p].todo[2] = "access" /\ Len(work[p].todo) # 1
      /\ work[p].at = "access" => work[p].todo[2] = "id" /\ Len(work[p].todo) # 1
      /\ work[p].at = "id" => Len(work[p].todo) = 1
  BY <1>0, TodoNext
<1>2. /\ Len(work[p].todo) = 1 => work'[p] = Idle
      /\ Len(work[p].todo) # 1 =>
           /\ Signing(work'[p]) /\ work'[p].op = "login" /\ work'[p].token = work[p].token
           /\ work'[p].client = work[p].client /\ work'[p].offline = work[p].offline
           /\ work'[p].at = work[p].todo[2]
  <2>1. CASE Len(work[p].todo) = 1
    BY <1>0, <2>1, LeaveWork DEF Written
  <2>2. CASE Len(work[p].todo) # 1
    BY <1>0, <2>2, WrittenWork
  <2> QED BY <2>1, <2>2
<1>3. HolderSound(p)
  BY <1>0, HolderAnswers
<1>4. /\ UNCHANGED <<idp, lost>>
      /\ client' = IF work[p].at = "client" THEN work[p].client ELSE client
      /\ refresh' = IF work[p].at = "refresh" THEN IF work[p].offline THEN work[p].token ELSE None
                    ELSE refresh
      /\ access' = IF work[p].at = "access" THEN Jwt(p) ELSE access
      /\ id' = IF work[p].at = "id" THEN Jwt(p) ELSE id
  BY <1>0 DEF StoreStep, StoreClient, StoreRefresh, StoreAccess, StoreId
<1>5. Jwt(p).grant = work[p].token.grant
  BY DEF Jwt
<1>6. CASE work[p].at # "id"
  <2>1. Replacing(p)'
    BY <1>1, <1>2, <1>6 DEF Replacing
  <2>2. LoginSound(p)'
    <3>1. CASE work[p].at = "client"
      BY <1>1, <1>2, <1>4, <3>1 DEF LoginSound
    <3>2. CASE work[p].at = "refresh"
      BY <1>0, <1>1, <1>2, <1>3, <1>4, <3>2 DEF LoginSound, HolderSound, Replacing
    <3>3. CASE work[p].at = "access"
      BY <1>0, <1>1, <1>2, <1>3, <1>4, <1>5, <3>3 DEF LoginSound, HolderSound, Replacing
    <3> QED BY <1>1, <1>6, <3>1, <3>2, <3>3
  <2>3. ~Storing(work'[p]) /\ ~Renewing(work'[p])
    BY <1>1, <1>2, <1>6, OneKind
  <2>4. HolderSound(p)'
    BY <2>1, <2>2, <2>3 DEF HolderSound, RenewalSound
  <2> QED BY <1>0, <2>4, HolderEnough
<1>7. CASE work[p].at = "id"
  <2>1. /\ client = work[p].client
        /\ refresh = None \/ (refresh = work[p].token /\ work[p].offline)
        /\ access = None \/ access.grant = work[p].token.grant
    BY <1>0, <1>3, <1>7 DEF HolderSound, LoginSound, Replacing
  <2>2. /\ UNCHANGED <<client, refresh, access, idp, lost>> /\ id'.grant = work[p].token.grant
        /\ work'[p] = Idle
    BY <1>1, <1>2, <1>4, <1>5, <1>7
  <2>3. SameGrant'
    BY <2>1, <2>2 DEF SameGrant
  <2>4. Usable'
    <3>1. work[p].offline => work[p].token \in alive \cup lost
      BY DEF TokensSound, TokensFresh
    <3> QED BY <1>0, <2>1, <2>2, <3>1 DEF Usable, idp
  <2> QED BY <1>0, <2>2, <2>3, <2>4, HolderEnough, IdleAnswers
<1> QED BY <1>6, <1>7

(* Wherever a command dies, it dies in a session that is whole, but for a  *)
(* login that has stored some of its files.                                *)
LEMMA DiesSound ==
  ASSUME ProTypes, LockHeld, TokensSound, SessionSound, NEW p \in Terminal, Dies(p)
  PROVE  SessionSound'
<1>1. /\ OnlyWork(p) /\ work'[p] = Idle /\ IsWork(work'[p]) /\ work'[p].at = "idle"
      /\ UNCHANGED <<files, idp>> /\ lost \subseteq lost'
      /\ half' = (half \/ (work[p].op = "login" /\ work[p].todo # LoginFiles))
      /\ IsWork(work[p])
  BY LeaveSteps, LeaveWork DEF Dies, ProTypes
<1>2. SameGrant' <=> SameGrant
  BY <1>1 DEF SameGrant, files
<1>3. Usable => Usable'
  BY <1>1 DEF Usable, files, idp
<1>4. CASE work[p].at \notin UnderLock
  <2>1. half' <=> half
    <3>1. Signing(work[p]) => work[p].todo = LoginFiles
      <4>1. \A todo \in LoginTodo : todo[1] \in UnderLock
        BY TodoNext DEF UnderLock
      <4> QED BY <1>4, <4>1 DEF Signing
    <3> QED BY <1>1, <3>1, StepOfWork
  <2>2. work[p].at \notin Claims /\ work'[p].at \notin Claims
    BY <1>1, <1>4 DEF Claims, UnderLock
  <2> QED BY <1>1, <2>1, <2>2, FilesFade DEF OnlyWork, files, idp
<1>5. CASE work[p].at \in UnderLock
  <2>1. HolderSound(p)
    BY <1>5, HolderAnswers
  <2>2. ASSUME ~half' PROVE SameGrant' /\ Usable'
    <3>0. ~half /\ (Signing(work[p]) => work[p].todo = LoginFiles)
      BY <1>1, <2>2, StepOfWork
    <3>1. CASE Signing(work[p])
      <4>1. work[p].at = "client"
        <5>1. LoginFiles[1] = "client"
          BY DEF LoginFiles
        <5> QED BY <1>5, <3>0, <3>1, <5>1 DEF Signing, UnderLock
      <4> QED BY <1>2, <1>3, <2>1, <3>0, <4>1 DEF HolderSound, Replacing
    <3>2. CASE Storing(work[p]) /\ work[p].at = "refresh"
      <4>1. /\ work[p].op = "refresh" /\ work[p].todo[1] = "refresh" /\ work[p].todo # <<>>
            /\ work[p].todo = work[p].all /\ work[p].todo \in RenewTodo
        BY <3>2, TodoNext DEF Storing
      <4>2. "refresh" \in ToSet(work[p].todo)
        <5>1. /\ 1 \in DOMAIN <<"refresh", "access">> /\ 1 \in DOMAIN <<"refresh", "access", "id">>
              /\ <<"refresh", "access">>[1] = "refresh" /\ <<"refresh", "access", "id">>[1] = "refresh"
              /\ <<"access">>[1] = "access" /\ <<"access", "id">>[1] = "access" /\ <<"id">>[1] = "id"
          OBVIOUS
        <5>2. 1 \in DOMAIN work[p].todo
          BY <4>1, <5>1 DEF RenewTodo
        <5> QED BY <4>1, <5>2 DEF ToSet
      <4>3. lost' = lost \cup {work[p].old}
        BY <4>1, <4>2 DEF Dies
      <4>4. ~Replacing(p) /\ SameGrant /\ refresh \in {None, work[p].old}
        BY <2>1, <3>0, <3>2, <4>1 DEF HolderSound, RenewalSound, Replacing
      <4> QED BY <1>1, <1>2, <4>3, <4>4 DEF Usable, files
    <3>3. CASE ~Signing(work[p]) /\ work[p].at # "refresh"
      <4>1. ~Replacing(p)
        BY <1>1, <3>3, StepOfWork DEF Replacing
      <4> QED BY <1>2, <1>3, <2>1, <3>0, <3>3, <4>1 DEF HolderSound
    <3> QED BY <1>1, <3>1, <3>2, <3>3, StepOfWork
  <2> QED BY <1>1, <1>5, <2>2, HolderEnough, IdleAnswers
<1> QED BY <1>4, <1>5

(* The steps that store nothing, and those above.                          *)
LEMMA SessionSoundNext ==
  ASSUME ProTypes, LockHeld, TokensSound, SessionSound, [Next]_vars
  PROVE  SessionSound'
<1>0. \A q \in Terminal : work[q] = Idle => work[q].at \notin Claims
  BY DEF Idle, Claims
<1>1. CASE UNCHANGED vars
  BY <1>1, FilesFade DEF vars, files, idp
<1>2. CASE Tick
  <2>1. /\ access' = None \/ (access # None /\ access'.grant = access.grant)
        /\ id' = None \/ (id # None /\ id'.grant = id.grant)
    BY <1>2, OlderTyped DEF Tick, ProTypes
  <2> QED BY <1>2, <2>1, FilesFade DEF Tick, idp
<1>3. CASE Revoke
  <2>1. alive \subseteq alive' \cup lost' /\ lost \subseteq lost'
    BY <1>3 DEF Revoke
  <2> QED BY <1>3, <2>1, FilesFade DEF Revoke, files
<1>4. ASSUME NEW p \in Terminal, OnlyWork(p), IsWork(work'[p]),
             work[p].at \notin Claims, work'[p].at \notin Claims, UNCHANGED <<client, access, lost, half>>,
             refresh' \in {refresh, None}, id' \in {id, None}, alive \subseteq alive'
      PROVE  SessionSound'
  BY <1>4, FilesFade DEF OnlyWork
<1>5. ASSUME NEW p \in Terminal, BeginRefresh(p) \/ Logout(p) PROVE SessionSound'
  <2>1. /\ OnlyWork(p) /\ IsWork(work'[p]) /\ work[p] = Idle
        /\ work'[p].at \in {"lock", "remove-refresh"}
    BY <1>5, WorkSteps DEF IsWork
  <2>2. work'[p].at \notin Claims /\ work[p].at \notin Claims
    BY <1>0, <2>1 DEF Claims
  <2> QED BY <1>4, <1>5, <2>1, <2>2 DEF BeginRefresh, Logout, files, idp
<1>6. ASSUME NEW p \in Terminal, Lock(p) PROVE SessionSound'
  <2>1. OnlyWork(p) /\ IsWork(work'[p]) /\ work[p].at = "lock" /\ work'[p].at \in {"reread", "client"}
    BY <1>6, WorkSteps
  <2> QED BY <1>4, <1>6, <2>1 DEF Lock, files, idp, Claims
<1>7. ASSUME NEW p \in Terminal, Skip(p) \/ RemoveRefresh(p) PROVE SessionSound'
  <2>1. OnlyWork(p) /\ IsWork(work'[p]) /\ work'[p].at = "idle" /\ work[p].at \in {"reread", "remove-refresh"}
    BY <1>7, LeaveSteps, LeaveWork DEF Skip, RemoveRefresh
  <2> QED BY <1>4, <1>7, <2>1 DEF Skip, RemoveRefresh, files, idp, Claims
<1>8. ASSUME NEW p \in Terminal, NEW c \in Client, Login(p, c) PROVE SessionSound'
  <2>1. /\ OnlyWork(p) /\ IsWork(work'[p]) /\ work[p] = Idle /\ work'[p].at = "lock"
        /\ alive \subseteq alive'
    BY <1>8, LoginWork DEF IsWork
  <2> QED BY <1>0, <1>4, <1>8, <2>1 DEF Login, files, Claims
<1>9. ASSUME NEW p \in Terminal, StoreStep(p) PROVE SessionSound'
  BY <1>9, StoreWork, RenewalStores, LoginStores
<1> QED
  BY <1>1, <1>2, <1>3, <1>5, <1>6, <1>7, <1>8, <1>9, RenewalNext, DiesSound DEF Next, StoreStep

(* No file, no token and nobody at work.                                   *)
LEMMA SessionInit == Init => ProTypes /\ LockHeld /\ TokensSound /\ SessionSound
<1> SUFFICES ASSUME Init PROVE ProTypes /\ LockHeld /\ TokensSound /\ SessionSound
  OBVIOUS
<1>1. ASSUME NEW p \in Terminal
      PROVE  /\ work[p] = Idle /\ Resting(work[p]) /\ IsWork(work[p]) /\ work[p].at = "idle"
             /\ ~Storing(work[p]) /\ ~Signing(work[p]) /\ ~Renewing(work[p]) /\ ~Replacing(p)
  <2>1. work[p] = Idle /\ Resting(Idle) /\ Idle.at = "idle" /\ Idle.op = "none"
    BY DEF Init, Idle, Resting, RestingFields
  <2> QED BY <2>1, OneKind DEF IsWork, Replacing
<1>2. ProTypes
  BY <1>1 DEF Init, ProTypes
<1>3. LockHeld
  BY <1>1, NobodyIsNoTerminal DEF Init, LockHeld, UnderLock
<1>4. TokensSound
  BY <1>1 DEF Init, TokensSound, TokensFresh, OwnTokens, OwnRefresh, HasToken
<1>5. SessionSound
  BY <1>1 DEF Init, SessionSound, LoginSound, RenewalSound, SameGrant, Usable
<1> QED BY <1>2, <1>3, <1>4, <1>5

(* The invariants give the property: where the files are not whole, the    *)
(* command that replaces them is under the lock and has files to write.    *)
LEMMA SoundIsWhole ==
  ASSUME ProTypes, LockHeld, TokensSound, SessionSound
  PROVE  SessionWhole
<1> SUFFICES ASSUME ~half PROVE TokenUsable /\ OneLogin
  BY DEF SessionWhole
<1>1. ASSUME NEW p \in Terminal, Replacing(p) \/ work[p].at = "refresh"
      PROVE  /\ Writing(p) /\ (work[p].at = "refresh" => "refresh" \in ToSet(work[p].todo))
             /\ Replacing(p) => Signing(work[p])
  <2>1. work[p].at \in {"refresh", "access", "id"} /\ holder = p /\ IsWork(work[p])
    BY <1>1 DEF Replacing, LockHeld, UnderLock, ProTypes
  <2>2. work[p].at = work[p].todo[1] /\ work[p].todo \in RenewTodo \cup LoginTodo
    BY <2>1, StepOfWork DEF Storing, Signing
  <2>3. work[p].todo # <<>>
    BY <2>2, TodoNext
  <2>4. 1 \in DOMAIN work[p].todo
    <3>1. /\ 1 \in DOMAIN <<"refresh", "access">> /\ 1 \in DOMAIN <<"refresh", "access", "id">>
          /\ 1 \in DOMAIN <<"access">> /\ 1 \in DOMAIN <<"access", "id">> /\ 1 \in DOMAIN <<"id">>
          /\ 1 \in DOMAIN <<"client", "refresh", "access", "id">>
      OBVIOUS
    <3> QED BY <2>2, <3>1 DEF RenewTodo, LoginTodo, LoginFiles
  <2>5. work[p].at = "refresh" => "refresh" \in ToSet(work[p].todo)
    BY <2>2, <2>4 DEF ToSet
  <2> QED BY <2>1, <2>3, <2>5, StepOfWork DEF Writing, Replacing
<1>2. TokenUsable
  <2>1. CASE \E p \in Terminal : work[p].at = "refresh"
    BY <1>1, <2>1 DEF TokenUsable
  <2>2. CASE (\A p \in Terminal : work[p].at # "refresh") /\ \E p \in Terminal : Replacing(p)
    <3>1. PICK p \in Terminal : Replacing(p) /\ work[p].at \in {"access", "id"}
      BY <2>2 DEF Replacing
    <3>2. client = work[p].client /\ (refresh = None \/ (refresh = work[p].token /\ work[p].offline))
      BY <3>1 DEF SessionSound, LoginSound
    <3>3. /\ work[p].client = work[p].token.client
          /\ work[p].offline => work[p].token \in alive \cup lost
      BY <1>1, <3>1 DEF Signing, TokensSound, TokensFresh
    <3> QED BY <3>2, <3>3 DEF TokenUsable
  <2>3. CASE \A p \in Terminal : ~Replacing(p) /\ work[p].at # "refresh"
    BY <2>3 DEF SessionSound, Usable, TokenUsable
  <2> QED BY <2>1, <2>2, <2>3
<1>3. OneLogin
  <2>1. CASE \E p \in Terminal : Replacing(p)
    BY <1>1, <2>1 DEF OneLogin, Replacing
  <2>2. CASE \A p \in Terminal : ~Replacing(p)
    BY <2>2 DEF SessionSound, SameGrant, OneLogin
  <2> QED BY <2>1, <2>2
<1> QED BY <1>2, <1>3

(* In every behaviour, whatever commands wait for the lock, fail or die,   *)
(* and whatever the provider revokes, the four files are one session that  *)
(* can be renewed, until a login stops half way (pro_refresh.rs, login.rs, *)
(* logout.rs).                                                             *)
THEOREM SessionStaysWhole == Spec => []SessionWhole
<1>1. ProTypes /\ LockHeld /\ TokensSound /\ SessionSound /\ [Next]_vars
        => ProTypes' /\ LockHeld' /\ TokensSound' /\ SessionSound'
  BY ProTypesNext, WorkNext, TokensSoundNext, SessionSoundNext
<1>2. ProTypes /\ LockHeld /\ TokensSound /\ SessionSound => SessionWhole
  BY SoundIsWhole
<1> QED BY <1>1, <1>2, SessionInit, PTL DEF Spec

------------------------------------------------------------------------------
(* The browser login. *)

(* The types a login needs, without the bounds of an instance.             *)
OidcTypes ==
  /\ login \in [LoginProcess -> [at : Step, request : Nat, port : Port, state : Nat, code : Nat]]
  /\ bound \subseteq Port /\ asked \in Seq(Port)
  /\ pages \subseteq [port : Port, state : Nat, code : Nat, error : BOOLEAN]
  /\ codes \in Seq([request : Nat, used : BOOLEAN])

(* The provider gave the code for this request.                            *)
GivenFor(code, request) == code \in 1..Len(codes) /\ codes[code].request = request

(* A page brings a code along with the state it was given for.             *)
PagesTrue == \A c \in pages : c.code # 0 => GivenFor(c.code, c.state)

(* What came back belongs together whoever asked for it; a code is handed  *)
(* over only where the state is the login's own.                           *)
LoginTrue(p) ==
  /\ login[p].at \in {"returned", "exchanging", "in"} => GivenFor(login[p].code, login[p].state)
  /\ login[p].at \in {"listening", "returned", "exchanging"} =>
       login[p].request \in 1..Len(asked) /\ asked[login[p].request] = login[p].port
  /\ login[p].at = "exchanging" => login[p].state = login[p].request
  /\ login[p].at = "in" => codes[login[p].code].used

(* No two logins got in with one code.                                     *)
OneEach ==
  \A p, q \in LoginProcess :
    p # q /\ At(p, "in") /\ At(q, "in") => login[p].code # login[q].code

OidcSound == OidcTypes /\ PagesTrue /\ (\A p \in LoginProcess : LoginTrue(p)) /\ OneEach

(* A set of numbers with a member has a least one.                         *)
LEMMA LeastBelow ==
  ASSUME NEW T, T \subseteq Nat, NEW R, \E x \in T : \A y \in T : ~ (<<y, x>> \in R),
         \A x, y \in Nat : y < x => <<y, x>> \in R
  PROVE  \E x \in T : \A y \in T : x <= y
<1>1. PICK x \in T : \A y \in T : ~ (<<y, x>> \in R)
  OBVIOUS
<1>2. \A y \in T : ~(y < x)
  BY <1>1
<1> QED BY <1>2

(* The first free port exists.                                             *)
LEMMA LeastNumber ==
  ASSUME NEW T, T \subseteq Nat, T # {}
  PROVE  \E x \in T : \A y \in T : x <= y
<1>1. \E x \in T : \A y \in T : ~ (<<y, x>> \in OpToRel(<, Nat))
  BY NatLessThanWellFounded, WFMin
<1>2. \A x, y \in Nat : y < x => <<y, x>> \in OpToRel(<, Nat)
  BY DEF OpToRel
<1> QED BY <1>1, <1>2, LeastBelow

(* Codes and requests are added, and codes used.                           *)
OnlyLogin(p) == \A q \in LoginProcess \ {p} : login'[q] = login[q]

Grown ==
  /\ Len(asked) <= Len(asked') /\ \A i \in 1..Len(asked) : asked'[i] = asked[i]
  /\ Len(codes) <= Len(codes')
  /\ \A i \in 1..Len(codes) : codes'[i].request = codes[i].request /\ (codes[i].used => codes'[i].used)

(* A login that takes no step is told nothing else.                        *)
LEMMA SameStaysTrue ==
  ASSUME OidcTypes, Grown, NEW p \in LoginProcess, login'[p] = login[p], LoginTrue(p),
         OidcTypes'
  PROVE  LoginTrue(p)'
<1>1. Len(asked) \in Nat /\ Len(codes) \in Nat /\ Len(asked') \in Nat /\ Len(codes') \in Nat
  BY LenProperties DEF OidcTypes
<1>2. \A r, c : GivenFor(c, r) => c \in 1..Len(codes') /\ codes'[c].request = r
  BY <1>1 DEF GivenFor, Grown
<1>3. \A r : r \in 1..Len(asked) => r \in 1..Len(asked') /\ asked'[r] = asked[r]
  BY <1>1 DEF Grown
<1>4. login[p].at = "in" => codes'[login[p].code].used
  <2>1. login[p].at = "in" => login[p].code \in 1..Len(codes) /\ codes[login[p].code].used
    BY DEF LoginTrue, GivenFor
  <2> QED BY <2>1 DEF Grown
<1> QED BY <1>2, <1>3, <1>4 DEF LoginTrue, GivenFor

(* One login takes a step: what the others know stays true.                *)
LEMMA OneLoginSteps ==
  ASSUME OidcSound, OidcTypes', Grown, PagesTrue', NEW p \in LoginProcess, OnlyLogin(p),
         LoginTrue(p)',
         login'[p].at = "in" => \A q \in LoginProcess \ {p} : At(q, "in") => login[q].code # login'[p].code
  PROVE  OidcSound'
<1>1. \A q \in LoginProcess : LoginTrue(q)'
  <2>1. ASSUME NEW q \in LoginProcess, q # p PROVE LoginTrue(q)'
    BY <2>1, SameStaysTrue DEF OnlyLogin, OidcSound
  <2> QED BY <2>1
<1>2. OneEach'
  BY DEF OneEach, OidcSound, OnlyLogin, At
<1> QED BY <1>1, <1>2 DEF OidcSound

(* A page that is closed, or a code that is used, misleads nobody.         *)
LEMMA PagesStayTrue ==
  ASSUME OidcTypes, OidcTypes', Grown, PagesTrue, pages' \subseteq pages
  PROVE  PagesTrue'
<1>1. Len(codes) \in Nat /\ Len(codes') \in Nat
  BY LenProperties DEF OidcTypes
<1> QED BY <1>1 DEF PagesTrue, GivenFor, Grown

(* Nothing new is asked and no code given.                                 *)
LEMMA UnchangedGrows ==
  ASSUME OidcTypes, UNCHANGED <<asked, codes>>
  PROVE  Grown
<1>1. Len(asked) \in Nat /\ Len(codes) \in Nat
  BY LenProperties DEF OidcTypes
<1> QED BY <1>1 DEF Grown

(* A code is marked used: nothing else is known differently.               *)
LEMMA UsedGrows ==
  ASSUME OidcTypes, asked' = asked, NEW code \in 1..Len(codes),
         codes' = [codes EXCEPT ![code].used = TRUE]
  PROVE  /\ Grown /\ codes' \in Seq([request : Nat, used : BOOLEAN])
         /\ Len(codes') = Len(codes) /\ codes'[code].used
         /\ \A i \in 1..Len(codes) : codes'[i].request = codes[i].request
<1> DEFINE S == [request : Nat, used : BOOLEAN]
           e == [codes[code] EXCEPT !.used = TRUE]
<1>1. codes \in Seq(S) /\ Len(codes) \in Nat /\ Len(asked) \in Nat /\ codes[code] \in S
  BY LenProperties, ElementOfSeq DEF OidcTypes
<1>2. e \in S /\ e.used /\ e.request = codes[code].request
  BY <1>1
<1>3. codes' = [codes EXCEPT ![code] = e]
  OBVIOUS
<1> HIDE DEF S, e
<1>4. /\ codes' \in Seq(S) /\ Len(codes') = Len(codes)
      /\ \A j \in 1..Len(codes) : codes'[j] = IF j = code THEN e ELSE codes[j]
  <2>1. /\ [codes EXCEPT ![code] = e] \in Seq(S) /\ Len([codes EXCEPT ![code] = e]) = Len(codes)
        /\ \A j \in 1..Len(codes) : [codes EXCEPT ![code] = e][j] = IF j = code THEN e ELSE codes[j]
    BY <1>1, <1>2, ExceptSeq
  <2> QED BY <1>3, <2>1
<1> QED BY <1>1, <1>2, <1>4 DEF Grown, S

(* A login that holds nothing yet, or no longer, promises nothing.         *)
LEMMA HoldsNothing ==
  ASSUME OidcSound, OidcTypes', Grown, pages' = pages, NEW p \in LoginProcess, OnlyLogin(p),
         login'[p].at \in {"idle", "discovered", "failed"}
  PROVE  OidcSound'
<1>1. PagesTrue'
  BY PagesStayTrue DEF OidcSound
<1>2. LoginTrue(p)'
  BY DEF LoginTrue
<1> QED BY <1>1, <1>2, OneLoginSteps

(* A new request has a port and a number of its own.                       *)
LEMMA RequestSound ==
  ASSUME OidcSound, NEW p \in LoginProcess, Request(p)
  PROVE  OidcSound'
<1> DEFINE free == Port \ bound
           port == CHOOSE x \in free : \A y \in free : x <= y
<1>1. /\ At(p, "discovered") /\ UNCHANGED <<pages, codes>> /\ bound' = bound \cup {port}
      /\ login' = [login EXCEPT ![p].at = "listening", ![p].port = port, ![p].request = Len(asked) + 1]
      /\ asked' = Append(asked, port)
  BY DEF Request
<1>2. port \in Port
  <2>1. free \subseteq Nat
    BY LoginConstants DEF Port
  <2>2. CASE free # {}
    <3>1. \E x \in free : \A y \in free : x <= y
      BY <2>1, <2>2, LeastNumber
    <3> QED BY <3>1
  <2>3. free # {}
    <3>1. bound # Port /\ bound \subseteq Port
      BY DEF Request, OidcSound, OidcTypes
    <3> QED BY <3>1
  <2> QED BY <2>2, <2>3
<1> HIDE DEF port, free
<1>3. asked \in Seq(Port) /\ Len(asked) \in Nat /\ OidcTypes /\ Len(codes) \in Nat
  BY LenProperties DEF OidcSound, OidcTypes
<1>4. /\ asked' \in Seq(Port) /\ Len(asked') = Len(asked) + 1
      /\ asked'[Len(asked) + 1] = port /\ \A i \in 1..Len(asked) : asked'[i] = asked[i]
  BY <1>1, <1>2, <1>3, AppendProperties
<1>5. /\ login' \in [LoginProcess -> [at : Step, request : Nat, port : Port, state : Nat, code : Nat]]
      /\ login'[p].at = "listening" /\ login'[p].port = port /\ login'[p].request = Len(asked) + 1
      /\ OnlyLogin(p)
  <2>1. "listening" \in Step /\ Len(asked) + 1 \in Nat
    BY <1>3 DEF Step
  <2> QED BY <1>1, <1>2, <1>3, <2>1 DEF OidcTypes, OnlyLogin
<1>6. OidcTypes' /\ Grown
  BY <1>1, <1>2, <1>3, <1>4, <1>5 DEF OidcTypes, Grown
<1>7. LoginTrue(p)'
  BY <1>3, <1>4, <1>5 DEF LoginTrue
<1>8. PagesTrue'
  BY <1>1, <1>3, <1>6, PagesStayTrue DEF OidcSound
<1> QED BY <1>5, <1>6, <1>7, <1>8, OneLoginSteps

(* What a page brings is a code of the request it was opened for, or no    *)
(* code the login goes on with.                                            *)
LEMMA ReceiveSound ==
  ASSUME OidcSound, NEW p \in LoginProcess, NEW c, Receive(p, c), UNCHANGED <<asked, pages, codes>>,
         c \in pages \/ (c.code = 0 /\ c.state = 0)
  PROVE  OidcSound'
<1>1. OidcTypes /\ Grown /\ PagesTrue
  BY UnchangedGrows DEF OidcSound
<1>2. c.state \in Nat /\ c.code \in Nat
  BY <1>1 DEF OidcTypes
<1> DEFINE at == IF c.error \/ c.code = 0 \/ c.state = 0 THEN "failed" ELSE "returned"
<1>3. /\ login' = [login EXCEPT ![p].at = at, ![p].state = c.state, ![p].code = c.code]
      /\ bound' \subseteq bound
  BY DEF Receive
<1>4. at \in {"failed", "returned"} /\ (at = "returned" => c.code # 0)
  OBVIOUS
<1> HIDE DEF at
<1>5. /\ login' \in [LoginProcess -> [at : Step, request : Nat, port : Port, state : Nat, code : Nat]]
      /\ login'[p].at = at /\ login'[p].state = c.state /\ login'[p].code = c.code
      /\ login'[p].request = login[p].request /\ login'[p].port = login[p].port
      /\ OnlyLogin(p)
  BY <1>1, <1>2, <1>3, <1>4 DEF OidcTypes, OnlyLogin, Step
<1>6. OidcTypes'
  BY <1>1, <1>3, <1>5 DEF OidcTypes
<1>7. CASE at = "failed"
  BY <1>1, <1>5, <1>6, <1>7, HoldsNothing
<1>8. CASE at = "returned"
  <2>1. GivenFor(c.code, c.state)
    BY <1>1, <1>4, <1>8 DEF PagesTrue
  <2>2. LoginTrue(p) /\ login[p].at = "listening"
    BY DEF OidcSound, Receive, Listens, At
  <2>3. LoginTrue(p)'
    BY <1>5, <1>8, <2>1, <2>2 DEF LoginTrue, GivenFor
  <2>4. PagesTrue'
    BY <1>1, <1>6, PagesStayTrue
  <2> QED BY <1>1, <1>5, <1>6, <1>8, <2>3, <2>4, OneLoginSteps
<1> QED BY <1>4, <1>7, <1>8

(* Only the step of a login changes.                                       *)
LEMMA FinishTyped ==
  ASSUME OidcTypes, NEW p \in LoginProcess, NEW step \in Step, Finish(p, step)
  PROVE  /\ login' \in [LoginProcess -> [at : Step, request : Nat, port : Port, state : Nat, code : Nat]]
         /\ login'[p].at = step /\ login'[p].state = login[p].state /\ login'[p].code = login[p].code
         /\ login'[p].request = login[p].request /\ login'[p].port = login[p].port
         /\ OnlyLogin(p)
BY DEF Finish, OidcTypes, OnlyLogin

(* The state is compared before a code is handed over.                     *)
LEMMA CheckSound ==
  ASSUME OidcSound, NEW p \in LoginProcess, CheckState(p)
  PROVE  OidcSound'
<1> DEFINE step == IF StateMatches(login[p].state, login[p].request) THEN "exchanging" ELSE "failed"
<1>1. OidcTypes /\ Grown /\ PagesTrue /\ LoginTrue(p) /\ login[p].at = "returned"
  BY UnchangedGrows DEF OidcSound, CheckState, At
<1>2. Finish(p, step) /\ UNCHANGED <<bound, asked, pages, codes>>
  BY DEF CheckState
<1>3. step \in {"exchanging", "failed"} /\ (step = "exchanging" => login[p].state = login[p].request)
  BY DEF StateMatches
<1> HIDE DEF step
<1>4. step \in Step
  BY <1>3 DEF Step
<1>5. /\ login' \in [LoginProcess -> [at : Step, request : Nat, port : Port, state : Nat, code : Nat]]
      /\ login'[p].at = step /\ login'[p].state = login[p].state /\ login'[p].code = login[p].code
      /\ login'[p].request = login[p].request /\ login'[p].port = login[p].port
      /\ OnlyLogin(p)
  BY <1>1, <1>2, <1>4, FinishTyped
<1>6. OidcTypes'
  BY <1>1, <1>2, <1>5 DEF OidcTypes
<1>7. CASE step = "failed"
  BY <1>1, <1>2, <1>5, <1>6, <1>7, HoldsNothing
<1>8. CASE step = "exchanging"
  <2>1. LoginTrue(p)'
    BY <1>1, <1>2, <1>3, <1>5, <1>8 DEF LoginTrue, GivenFor
  <2>2. PagesTrue'
    BY <1>1, <1>2, <1>6, PagesStayTrue
  <2> QED BY <1>1, <1>5, <1>6, <1>8, <2>1, <2>2, OneLoginSteps
<1> QED BY <1>3, <1>7, <1>8

(* The provider takes a code once: no two logins get in with it.           *)
LEMMA ExchangeSound ==
  ASSUME OidcSound, NEW p \in LoginProcess, ExchangeCode(p)
  PROVE  OidcSound'
<1> DEFINE code == login[p].code
           step == IF /\ codes[code].request = login[p].request
                      /\ asked[codes[code].request] = RedirectUri(p)
                      /\ ~codes[code].used
                   THEN "in" ELSE "failed"
<1>1. OidcTypes /\ PagesTrue /\ LoginTrue(p) /\ login[p].at = "exchanging"
  BY DEF OidcSound, ExchangeCode, At
<1>2. /\ Finish(p, step) /\ UNCHANGED <<bound, asked, pages>>
      /\ codes' = [codes EXCEPT ![code].used = TRUE]
  BY DEF ExchangeCode
<1>3. step \in {"in", "failed"} /\ (step = "in" => ~codes[code].used)
  OBVIOUS
<1> HIDE DEF step
<1>4. step \in Step
  BY <1>3 DEF Step
<1>5. /\ login' \in [LoginProcess -> [at : Step, request : Nat, port : Port, state : Nat, code : Nat]]
      /\ login'[p].at = step /\ login'[p].state = login[p].state /\ login'[p].code = code
      /\ OnlyLogin(p)
  BY <1>1, <1>2, <1>4, FinishTyped
<1>6. GivenFor(code, login[p].state)
  BY <1>1 DEF LoginTrue
<1>7. /\ Grown /\ codes' \in Seq([request : Nat, used : BOOLEAN])
      /\ Len(codes') = Len(codes) /\ codes'[code].used
      /\ \A i \in 1..Len(codes) : codes'[i].request = codes[i].request
  BY <1>1, <1>2, <1>6, UsedGrows DEF GivenFor
<1>8. OidcTypes'
  BY <1>1, <1>2, <1>5, <1>7 DEF OidcTypes
<1>9. PagesTrue'
  BY <1>1, <1>2, <1>7, <1>8, PagesStayTrue
<1>10. CASE step = "failed"
  BY <1>2, <1>5, <1>7, <1>8, <1>10, HoldsNothing
<1>11. CASE step = "in"
  <2>1. LoginTrue(p)'
    BY <1>5, <1>6, <1>7, <1>11 DEF LoginTrue, GivenFor
  <2>2. ASSUME NEW q \in LoginProcess \ {p}, At(q, "in") PROVE login[q].code # code
    <3>1. codes[login[q].code].used
      BY <2>2 DEF OidcSound, LoginTrue, At
    <3> QED BY <1>3, <1>11, <3>1
  <2> QED BY <1>5, <1>7, <1>8, <1>9, <2>1, <2>2, OneLoginSteps
<1> QED BY <1>3, <1>10, <1>11

(* A login that ends, with or without the provider having seen its code.   *)
LEMMA EndsSound ==
  ASSUME OidcSound, NEW p \in LoginProcess,
         \/ Discover(p) \/ PortsExhausted(p) \/ CallbackTimedOut(p) \/ NetworkFails(p) \/ GivenUp(p)
  PROVE  OidcSound'
<1>1. OidcTypes /\ LoginTrue(p)
  BY DEF OidcSound
<1>2. /\ login' \in [LoginProcess -> [at : Step, request : Nat, port : Port, state : Nat, code : Nat]]
      /\ login'[p].at \in {"idle", "discovered", "failed"} /\ OnlyLogin(p)
  <2>1. CASE Finish(p, "failed")
    <3>1. "failed" \in Step
      BY DEF Step
    <3> QED BY <1>1, <2>1, <3>1, FinishTyped
  <2>2. CASE Discover(p) \/ GivenUp(p)
    <3>1. LowPort \in Port
      BY LoginConstants DEF Port
    <3> DEFINE L == [at : Step, request : Nat, port : Port, state : Nat, code : Nat]
    <3>2. Fresh \in L /\ [Fresh EXCEPT !.at = "discovered"] \in L
      BY <3>1 DEF Fresh, Step
    <3>3. Fresh.at = "idle" /\ [Fresh EXCEPT !.at = "discovered"].at = "discovered"
      BY DEF Fresh
    <3>4. login \in [LoginProcess -> L]
      BY <1>1 DEF OidcTypes
    <3> HIDE DEF L
    <3>5. PICK f \in L : login' = [login EXCEPT ![p] = f] /\ f.at \in {"idle", "discovered"}
      BY <2>2, <3>2, <3>3 DEF Discover, GivenUp
    <3>6. login' \in [LoginProcess -> L] /\ login'[p] = f /\ OnlyLogin(p)
      BY <3>4, <3>5 DEF OnlyLogin
    <3> QED BY <3>5, <3>6 DEF L
  <2> QED BY <2>1, <2>2 DEF PortsExhausted, CallbackTimedOut, NetworkFails
<1>3. UNCHANGED <<asked, pages>> /\ bound' \subseteq bound
  BY DEF Discover, PortsExhausted, CallbackTimedOut, NetworkFails, GivenUp
<1>4. /\ Grown /\ codes' \in Seq([request : Nat, used : BOOLEAN])
  <2>1. CASE UNCHANGED codes
    BY <1>1, <1>3, <2>1, UnchangedGrows DEF OidcTypes
  <2>2. CASE At(p, "exchanging") /\ codes' = [codes EXCEPT ![login[p].code].used = TRUE]
    <3>1. login[p].code \in 1..Len(codes)
      BY <1>1, <2>2 DEF LoginTrue, At, GivenFor
    <3> QED BY <1>1, <1>3, <2>2, <3>1, UsedGrows
  <2> QED
    BY <2>1, <2>2 DEF Discover, PortsExhausted, CallbackTimedOut, NetworkFails, GivenUp
<1>5. OidcTypes'
  BY <1>1, <1>2, <1>3, <1>4 DEF OidcTypes
<1> QED BY <1>2, <1>3, <1>4, <1>5, HoldsNothing

(* The pages and the provider: a page names the request its code is for.   *)
LEMMA PagesSound ==
  ASSUME OidcSound, login' = login, asked' = asked, bound' \subseteq Port,
         \/ codes' = codes /\ pages' \subseteq pages
         \/ \E r \in 1..Len(asked) : Authenticated(r) \/ Denied(r)
  PROVE  OidcSound'
<1>1. /\ OidcTypes /\ PagesTrue /\ Len(codes) \in Nat /\ Len(asked) \in Nat
      /\ \A r \in 1..Len(asked) : asked[r] \in Port
  BY LenProperties, ElementOfSeq DEF OidcSound, OidcTypes
<1>2. ASSUME OidcTypes', Grown, PagesTrue' PROVE OidcSound'
  <2>1. \A q \in LoginProcess : LoginTrue(q)'
    BY <1>1, <1>2, SameStaysTrue DEF OidcSound
  <2>2. OneEach'
    BY DEF OneEach, OidcSound, At
  <2> QED BY <1>2, <2>1, <2>2 DEF OidcSound
<1>3. CASE codes' = codes /\ pages' \subseteq pages
  <2>1. OidcTypes'
    BY <1>1, <1>3 DEF OidcTypes
  <2>2. Grown
    BY <1>1, <1>3, UnchangedGrows
  <2> QED BY <1>1, <1>2, <1>3, <2>1, <2>2, PagesStayTrue
<1>4. ASSUME NEW r \in 1..Len(asked), Denied(r) PROVE OidcSound'
  <2>1. codes' = codes /\ \A c \in pages' : c \in pages \/ c = [port |-> asked[r], state |-> r, code |-> 0, error |-> TRUE]
    BY <1>4 DEF Denied
  <2>2. OidcTypes'
    <3>1. [port |-> asked[r], state |-> r, code |-> 0, error |-> TRUE]
            \in [port : Port, state : Nat, code : Nat, error : BOOLEAN]
      BY <1>1
    <3> QED BY <1>1, <2>1, <3>1 DEF OidcTypes
  <2>3. Grown
    BY <1>1, <2>1, UnchangedGrows
  <2>4. PagesTrue'
    BY <1>1, <2>1 DEF PagesTrue, GivenFor
  <2> QED BY <1>2, <2>2, <2>3, <2>4
<1>5. ASSUME NEW r \in 1..Len(asked), Authenticated(r) PROVE OidcSound'
  <2> DEFINE S    == [request : Nat, used : BOOLEAN]
             e    == [request |-> r, used |-> FALSE]
             new  == Len(codes) + 1
             page == [port |-> asked[r], state |-> r, code |-> new, error |-> FALSE]
  <2>1. codes' = Append(codes, e) /\ pages' = pages \cup {page}
    BY <1>5 DEF Authenticated
  <2>2. e \in S /\ codes \in Seq(S)
    BY <1>1 DEF OidcTypes
  <2>3. /\ codes' \in Seq(S) /\ Len(codes') = Len(codes) + 1 /\ codes'[new] = e
        /\ \A i \in 1..Len(codes) : codes'[i] = codes[i]
    <3> HIDE DEF S, e
    <3> QED BY <2>1, <2>2, AppendProperties
  <2>4. Grown
    BY <1>1, <2>3 DEF Grown
  <2>5. OidcTypes'
    <3>1. page \in [port : Port, state : Nat, code : Nat, error : BOOLEAN]
      BY <1>1
    <3> QED BY <1>1, <2>1, <2>3, <3>1 DEF OidcTypes
  <2>6. PagesTrue'
    BY <1>1, <2>1, <2>3 DEF PagesTrue, GivenFor
  <2> QED BY <1>2, <2>4, <2>5, <2>6
<1> QED BY <1>3, <1>4, <1>5

(* Every step of the logins, the browser and other programs.               *)
LEMMA OidcSoundNext == ASSUME OidcSound, [OidcNext]_oidcvars PROVE OidcSound'
<1>1. CASE UNCHANGED oidcvars
  BY <1>1, PagesSound DEF oidcvars, OidcSound, OidcTypes
<1>2. ASSUME NEW p \in LoginProcess, NEW c \in pages, CalledBack(p, c) PROVE OidcSound'
  BY <1>2, ReceiveSound DEF CalledBack
<1>3. ASSUME NEW p \in LoginProcess, StrayRequest(p) PROVE OidcSound'
  <2> DEFINE c == [port |-> login[p].port, state |-> 0, code |-> 0, error |-> FALSE]
  <2>1. Receive(p, c) /\ UNCHANGED <<asked, pages, codes>> /\ c.code = 0 /\ c.state = 0
    BY <1>3 DEF StrayRequest
  <2> HIDE DEF c
  <2> QED BY <2>1, ReceiveSound
<1>4. ASSUME NEW p \in LoginProcess, LoginStep(p) PROVE OidcSound'
  BY <1>2, <1>3, <1>4, EndsSound, RequestSound, CheckSound, ExchangeSound DEF LoginStep
<1>5. ASSUME NEW r \in 1..Len(asked), Authenticated(r) \/ Denied(r) PROVE OidcSound'
  BY <1>5, PagesSound DEF Authenticated, Denied, OidcSound, OidcTypes
<1>6. ASSUME NEW c \in pages, PageClosed(c) PROVE OidcSound'
  BY <1>6, PagesSound DEF PageClosed, OidcSound, OidcTypes
<1>7. ASSUME NEW port \in Port, OtherProgram(port) PROVE OidcSound'
  BY <1>7, PagesSound DEF OtherProgram, OidcSound, OidcTypes
<1> QED BY <1>1, <1>4, <1>5, <1>6, <1>7 DEF OidcNext

(* No login has begun.                                                     *)
LEMMA OidcSoundInit == OidcInit => OidcSound
<1> SUFFICES ASSUME OidcInit PROVE OidcSound
  OBVIOUS
<1>1. LowPort \in Port
  BY LoginConstants DEF Port
<1>2. OidcTypes
  BY <1>1 DEF OidcInit, OidcTypes, Fresh, Step
<1>3. \A p \in LoginProcess : login[p].at = "idle"
  BY DEF OidcInit, Fresh
<1> QED BY <1>2, <1>3 DEF OidcInit, OidcSound, PagesTrue, LoginTrue, OneEach, At

(* In every behaviour, a login hands the provider a code of its own        *)
(* request only, under the redirect the provider remembers, and nobody     *)
(* gets in but by a code handed over, once (oidc.rs, OidcStateMismatch).   *)
THEOREM CodesAreOwn == OidcSpec => []OwnCodeOnly
<1>1. OidcSound => OwnCodeOnly
  <2> SUFFICES ASSUME OidcSound PROVE OwnCodeOnly
    OBVIOUS
  <2>1. \A p \in LoginProcess : At(p, "exchanging") =>
           /\ codes[login[p].code].request = login[p].request
           /\ asked[login[p].request] = RedirectUri(p)
    BY DEF OidcSound, LoginTrue, GivenFor, At, RedirectUri
  <2>2. \A p \in LoginProcess : At(p, "in") => codes[login[p].code].used
    BY DEF OidcSound, LoginTrue, At
  <2> QED BY <2>1, <2>2 DEF OwnCodeOnly, OidcSound, OneEach
<1> QED BY <1>1, OidcSoundInit, OidcSoundNext, PTL DEF OidcSpec
================================================================================
