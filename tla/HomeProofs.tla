------------------------------- MODULE HomeProofs -------------------------------
(***************************************************************************)
(* Proofs about Home, for every set of homes, terminals, codes and         *)
(* settings and every bound: a vault has codes that its owner knows, a     *)
(* code pays for one move, settings follow a vault only by a code, and     *)
(* settings are what the complete commands left.                           *)
(***************************************************************************)
EXTENDS Home, TLAPS

------------------------------------------------------------------------------
(* What a command is at each of its steps.                                 *)

AtSaving == {"config", "write-config-tmp", "rename-config"}
AtCodes  == {"codes", "write-codes-tmp", "rename-codes"}
AtSeal   == {"sentinel", "truncate-sentinel", "write-sentinel"}

InitWork ==
  [op : {"init"}, at : {"codes", "write-codes", "unlock"} \cup AtSeal \cup AtSaving, home : Home,
   todo : {InitEffects, <<"sentinel", "unlock", "config">>, <<"unlock", "config">>, <<"config">>},
   codes : RecoveryCodesFile, key : Nat, config : {DefaultConfig}]

RebindWork ==
  [op : {"rebind"}, at : {"read-codes", "load-config"} \cup AtCodes \cup AtSaving, home : Home, to : Home,
   todo : {RebindEffects, <<"config">>}, codes : RecoveryCodesFile \cup {Absent}, gen : Nat, slot : Slot,
   key : Nat, config : Config]

RegenerateWork ==
  [op : {"regenerate"}, at : {"show"} \cup AtCodes, home : Home, todo : {RegenerateEffects, <<"show">>},
   codes : RecoveryCodesFile]

SetWork ==
  [op : {"set"}, at : {"load-config"} \cup AtSaving, home : Home, todo : {<<"config">>},
   field : Field, on : BOOLEAN, key : Nat, config : Config]

InStep(w) ==
  \/ w \in InitWork /\
       \/ w.at \in {"codes", "write-codes"} /\ w.todo = InitEffects
       \/ w.at \in AtSeal /\ w.todo = <<"sentinel", "unlock", "config">>
       \/ w.at = "unlock" /\ w.todo = <<"unlock", "config">>
       \/ w.at \in AtSaving /\ w.todo = <<"config">>
  \/ w \in RebindWork /\
       \/ w.at \in {"read-codes", "load-config"} \cup AtCodes /\ w.todo = RebindEffects
            /\ (w.at # "read-codes" => w.codes # Absent)
       \/ w.at \in AtSaving /\ w.todo = <<"config">>
  \/ w \in RegenerateWork /\
       \/ w.at \in AtCodes /\ w.todo = RegenerateEffects
       \/ w.at = "show" /\ w.todo = <<"show">>
  \/ w \in SetWork

Making == {"init", "regenerate"}

(* The sets of codes are numbered by the command that makes them.          *)
Known(w) ==
  /\ w.op \in Making => w.codes.gen <= commands
  /\ w.op = "rebind" => w.gen <= commands /\ (w.codes # Absent => w.codes.gen <= commands)

IsWork(w) == w = Idle \/ (InStep(w) /\ Known(w))

Codes == [gen : 0..commands, used : SUBSET Slot]

Types ==
  /\ commands \in Nat
  /\ sentinel \in [Home -> Nat \cup {Absent, Torn}]
  /\ codes \in [Home -> Codes \cup {Absent, Torn}]
  /\ codesTmp \in [Home -> Codes \cup {Absent, Torn}]
  /\ config \in [Home -> Config \cup {Absent, Torn}]
  /\ configTmp \in [Home -> Config \cup {Absent, Torn}]
  /\ DOMAIN work = Terminal
  /\ \A p \in Terminal : IsWork(work[p])
  /\ shown \subseteq 0..commands /\ twice \subseteq Home
  /\ spent \subseteq Home \X (0..commands) \X Slot
  /\ wanted \in [Home -> [Field -> BOOLEAN]]

------------------------------------------------------------------------------
(* Who has which file in hand.                                             *)

HasCodes(w) ==
  \/ w.op = "init" /\ w.at \in {"codes", "write-codes"} \cup AtSeal
  \/ w.op = "rebind" /\ w.at \in {"read-codes", "load-config"} \cup AtCodes
  \/ w.op = "regenerate" /\ w.at \in AtCodes

HasConfig(w, h) ==
  \/ w.op \in {"init", "rebind", "set"} /\ h = w.home
  \/ w.op = "rebind" /\ h = w.to

Has(x, w, h) == IF x = "codes" THEN HasCodes(w) /\ h = w.home ELSE HasConfig(w, h)

(* Two commands with a file in hand are in the crowd.                      *)
Crowded == \A p, q \in Terminal, x \in {"codes", "config"}, h \in Home :
  p # q /\ Has(x, work[p], h) /\ Has(x, work[q], h) => <<x, h>> \in crowd

------------------------------------------------------------------------------
(* Settings, while nobody else has the configuration in hand.              *)

ConfigFile(h) ==
  /\ config[h] # Torn
  /\ config[h] = Absent => wanted[h] = Default
  /\ config[h] # Absent /\ config[h].key # Nobody => config[h].set = wanted[h]

Target(w) == IF w.op = "rebind" THEN w.to ELSE w.home

ConfigJob(w, h) ==
  w # Idle /\ Target(w) = h =>
    /\ w.op = "set" /\ w.at \in AtSaving => w.config.set = [wanted[h] EXCEPT ![w.field] = w.on]
    /\ w.op = "rebind" /\ w.at \in AtCodes \cup AtSaving => w.config.set = wanted[h]
    /\ w.at = "rename-config" => configTmp[h] \notin {Absent, Torn} /\ configTmp[h].set = w.config.set

SettingsInv == \A h \in Home : <<"config", h>> \notin crowd =>
  ConfigFile(h) /\ \A p \in Terminal : ConfigJob(work[p], h)

------------------------------------------------------------------------------
(* Codes, while nobody else has them in hand.                              *)

Unspent(h, g) == \A s \in Slot : <<h, g, s>> \notin spent

OwnerKnows(g) ==
  \/ g \in shown \cup blind
  \/ \E p \in Terminal : work[p].op = "regenerate" /\ work[p].codes.gen = g

CodesFile(h) ==
  /\ h \notin twice
  /\ sentinel[h] # Absent => Readable(codes[h]) /\ OwnerKnows(codes[h].gen)
  /\ Readable(codes[h]) => \A s \in Slot : <<h, codes[h].gen, s>> \in spent => s \in codes[h].used

CodesJob(w, h) ==
  HasCodes(w) /\ w.home = h =>
    /\ w.op \in Making /\ w.at \notin AtSeal => Unspent(h, w.codes.gen)
    /\ w.op = "init" => w.codes.gen \in shown
    /\ w.op = "init" /\ w.at \in {"codes", "write-codes"} => sentinel[h] = Absent
    /\ w.op = "init" /\ w.at \in AtSeal => codes[h] = w.codes
    /\ w.op = "rebind" /\ w.at # "read-codes" =>
         /\ Unconsumed(codes[h], w.gen, w.slot)
         /\ w.codes = IF w.at = "load-config" THEN codes[h] ELSE mark_code_consumed(codes[h], w.slot)
    /\ w.at = "rename-codes" => codesTmp[h] = w.codes

(* The codes that a regenerate has yet to place are nowhere.               *)
NotPlaced(w, h) ==
  w.op = "regenerate" /\ w.at \in AtCodes /\ Readable(codes[h]) => codes[h].gen # w.codes.gen

CodesKept(h) == CodesFile(h) /\ \A p \in Terminal : CodesJob(work[p], h) /\ NotPlaced(work[p], h)

(* No two commands make the same set of codes.                             *)
Distinct == \A p, q \in Terminal :
  p # q /\ work[p].op \in Making /\ work[q].op \in Making => work[p].codes.gen # work[q].codes.gen

CodesInv == Distinct /\ \A h \in Home : <<"codes", h>> \notin crowd => CodesKept(h)

------------------------------------------------------------------------------
(* Settings on their way to another home.                                  *)

Carries(c) == c \in Config => c.home # Nobody /\ (c.line # c.home => c.home \in rebound)

CarriesJob(w) ==
  /\ w.op = "set" => (w.config.home = Nobody => w.config.line = Nobody)
                      /\ (w.config.line # w.config.home => w.config.home \in rebound)
  /\ w.op = "rebind" /\ w.at \in AtCodes \cup AtSaving => w.config.home # Nobody
  /\ w.op = "rebind" /\ w.at \in AtSaving => w.config.home \in rebound

CarryInv ==
  /\ \A h \in Home : Carries(config[h]) /\ Carries(configTmp[h])
  /\ \A p \in Terminal : CarriesJob(work[p])
------------------------------------------------------------------------------
(* Lists of effects, and what is held while they are to be done.           *)

LEMMA Effects ==
  /\ Len(InitEffects) = 4 /\ InitEffects[2] = "sentinel"
  /\ Tail(InitEffects) = <<"sentinel", "unlock", "config">>
  /\ Len(<<"sentinel", "unlock", "config">>) = 3 /\ <<"sentinel", "unlock", "config">>[2] = "unlock"
  /\ Tail(<<"sentinel", "unlock", "config">>) = <<"unlock", "config">>
  /\ Tail(<<"unlock", "config">>) = <<"config">>
  /\ Len(<<"config">>) = 1 /\ Len(<<"show">>) = 1
  /\ Len(RebindEffects) = 2 /\ RebindEffects[1] = "codes" /\ RebindEffects[2] = "config"
  /\ Tail(RebindEffects) = <<"config">>
  /\ Len(RegenerateEffects) = 2 /\ RegenerateEffects[1] = "codes" /\ RegenerateEffects[2] = "show"
  /\ Tail(RegenerateEffects) = <<"show">>
  /\ InitEffects[1] = "codes"
  /\ Len(InitEffects) # 1 /\ Len(<<"sentinel", "unlock", "config">>) # 1
BY DEF InitEffects, RebindEffects, RegenerateEffects

LEMMA Todo ==
  /\ ToSet(InitEffects) = {"codes", "sentinel", "unlock", "config"}
  /\ ToSet(<<"sentinel", "unlock", "config">>) = {"sentinel", "unlock", "config"}
  /\ ToSet(<<"unlock", "config">>) = {"unlock", "config"}
  /\ ToSet(<<"config">>) = {"config"} /\ ToSet(<<"show">>) = {"show"}
  /\ ToSet(RebindEffects) = {"codes", "config"} /\ ToSet(RegenerateEffects) = {"codes", "show"}
  /\ ToSet(<<>>) = {}
BY DEF ToSet, InitEffects, RebindEffects, RegenerateEffects

Steps == AtSaving \cup AtCodes \cup AtSeal

USE DEF AtSaving, AtCodes, AtSeal

LEMMA HeldIs ==
  ASSUME NEW w, w = Idle \/ InStep(w)
  PROVE  \A x, h : <<x, h>> \in Held(w) <=> x \in {"codes", "config"} /\ Has(x, w, h)
<1> SUFFICES ASSUME NEW x, NEW h
             PROVE  <<x, h>> \in Held(w) <=> x \in {"codes", "config"} /\ Has(x, w, h)
  OBVIOUS
<1>1. <<x, h>> \in Held(w) <=>
        \/ x \in {"codes", "config"} \cap ToSet(w.todo) /\ h = w.home
        \/ x = "codes" /\ "sentinel" \in ToSet(w.todo) /\ h = w.home
        \/ w.op = "rebind" /\ "config" \in ToSet(w.todo) /\ x = "config" /\ h = w.to
  BY DEF Held
<1>2. CASE w = Idle
  BY <1>1, <1>2, Todo DEF Idle, Has, HasCodes, HasConfig
<1>3. CASE InStep(w) /\ w \in InitWork
  BY <1>1, <1>3, Todo DEF InStep, InitWork, RebindWork, RegenerateWork, SetWork, Has, HasCodes, HasConfig
<1>4. CASE InStep(w) /\ w \in RebindWork
  BY <1>1, <1>4, Todo DEF InStep, InitWork, RebindWork, RegenerateWork, SetWork, Has, HasCodes, HasConfig
<1>5. CASE InStep(w) /\ w \in RegenerateWork
  BY <1>1, <1>5, Todo DEF InStep, InitWork, RebindWork, RegenerateWork, SetWork, Has, HasCodes, HasConfig
<1>6. CASE InStep(w) /\ w \in SetWork
  BY <1>1, <1>6, Todo DEF InStep, InitWork, RebindWork, RegenerateWork, SetWork, Has, HasCodes, HasConfig
<1> QED BY <1>2, <1>3, <1>4, <1>5, <1>6 DEF InStep
------------------------------------------------------------------------------
(* The state stays well formed.                                            *)

(* Only one terminal moves, from one step of its command to another.       *)
Only(p) == DOMAIN work' = Terminal /\ \A q \in Terminal \ {p} : work'[q] = work[q]

(* The next step of the command of w, or its end.                          *)
SameCommand(v, w) ==
  /\ v.op = w.op /\ v.home = w.home
  /\ w.op \in Making => v.codes = w.codes
  /\ w.op = "rebind" => v.gen = w.gen /\ v.slot = w.slot
  /\ w.op = "set" => v.field = w.field /\ v.on = w.on

LEMMA Gone ==
  ASSUME Types, NEW p \in Terminal, NEW at, Go(p, at)
  PROVE  Only(p) /\ work'[p] = [work[p] EXCEPT !.at = at]
BY DEF Types, Go, Only

LEMMA GoneAt ==
  ASSUME Types, NEW p \in Terminal, NEW at, Go(p, at), work[p] # Idle
  PROVE  work'[p].at = at
<1>1. InStep(work[p])
  BY DEF Types, IsWork
<1>2. "at" \in DOMAIN work[p]
  BY <1>1 DEF InStep, InitWork, RebindWork, RegenerateWork, SetWork
<1>3. work'[p] = [work[p] EXCEPT !.at = at]
  BY Gone
<1> QED BY <1>2, <1>3

(* Where a command goes when the effect is complete.                       *)
LEMMA FollowingIs ==
  ASSUME NEW w, InStep(w), w.at \notin {"read-codes", "load-config"}
  PROVE  /\ w.op = "init" /\ w.at \in {"codes", "write-codes"} =>
               Following(w) = [w EXCEPT !.at = "sentinel", !.todo = <<"sentinel", "unlock", "config">>]
         /\ w.op = "init" /\ w.at \in AtSeal =>
               Following(w) = [w EXCEPT !.at = "unlock", !.todo = <<"unlock", "config">>]
         /\ w.at = "unlock" => Following(w) = [w EXCEPT !.at = "config", !.todo = <<"config">>]
         /\ w.op = "rebind" /\ w.at \in AtCodes => Following(w) = [w EXCEPT !.at = "config", !.todo = <<"config">>]
         /\ w.op = "regenerate" /\ w.at \in AtCodes => Following(w) = [w EXCEPT !.at = "show", !.todo = <<"show">>]
         /\ w.at \in AtSaving \cup {"show"} => Following(w) = Idle
<1>1. /\ w.op = "init" /\ w.at \in {"codes", "write-codes"} => w.todo = InitEffects
      /\ w.op = "init" /\ w.at \in AtSeal => w.todo = <<"sentinel", "unlock", "config">>
      /\ w.at = "unlock" => w.todo = <<"unlock", "config">>
      /\ w.op = "rebind" /\ w.at \in AtCodes => w.todo = RebindEffects
      /\ w.op = "regenerate" /\ w.at \in AtCodes => w.todo = RegenerateEffects
      /\ w.at \in AtSaving => w.todo = <<"config">>
      /\ w.at = "show" => w.todo = <<"show">>
  BY DEF InStep, InitWork, RebindWork, RegenerateWork, SetWork
<1>2. Len(<<"unlock", "config">>) = 2 /\ <<"unlock", "config">>[2] = "config"
  OBVIOUS
<1>3. w.op = "init" /\ w.at \in {"codes", "write-codes"} =>
        Following(w) = [w EXCEPT !.at = "sentinel", !.todo = <<"sentinel", "unlock", "config">>]
  BY <1>1, Effects, Zenon DEF Following
<1>4. w.op = "init" /\ w.at \in AtSeal => Following(w) = [w EXCEPT !.at = "unlock", !.todo = <<"unlock", "config">>]
  BY <1>1, Effects, Zenon DEF Following
<1>5. w.at = "unlock" => Following(w) = [w EXCEPT !.at = "config", !.todo = <<"config">>]
  BY <1>1, <1>2, Effects DEF Following
<1>6. w.op = "rebind" /\ w.at \in AtCodes => Following(w) = [w EXCEPT !.at = "config", !.todo = <<"config">>]
  BY <1>1, Effects DEF Following
<1>7. w.op = "regenerate" /\ w.at \in AtCodes => Following(w) = [w EXCEPT !.at = "show", !.todo = <<"show">>]
  BY <1>1, Effects DEF Following
<1>8. w.at \in AtSaving \cup {"show"} => Following(w) = Idle
  BY <1>1, Effects DEF Following
<1> QED BY <1>3, <1>4, <1>5, <1>6, <1>7, <1>8

LEMMA FollowingWork ==
  ASSUME NEW w, InStep(w), w.at \notin {"read-codes", "load-config"}
  PROVE  \/ Following(w) = Idle
         \/ /\ InStep(Following(w)) /\ SameCommand(Following(w), w)
            /\ w.op = "rebind" => Following(w).codes = w.codes /\ Following(w).to = w.to
            /\ w.op \in {"rebind", "set"} => Following(w).config = w.config
<1> DEFINE v == Following(w)
<1>1. CASE w \in InitWork
  <2>1. CASE w.at \in {"codes", "write-codes"}
    <3>1. v = [w EXCEPT !.at = "sentinel", !.todo = <<"sentinel", "unlock", "config">>]
      BY <1>1, <2>1, FollowingIs DEF InitWork
    <3> QED BY <1>1, <3>1 DEF InStep, InitWork, SameCommand
  <2>2. CASE w.at \in AtSeal
    <3>1. v = [w EXCEPT !.at = "unlock", !.todo = <<"unlock", "config">>]
      BY <1>1, <2>2, FollowingIs DEF InitWork
    <3> QED BY <1>1, <3>1 DEF InStep, InitWork, SameCommand
  <2>3. CASE w.at = "unlock"
    <3>1. v = [w EXCEPT !.at = "config", !.todo = <<"config">>]
      BY <1>1, <2>3, FollowingIs DEF InitWork
    <3> QED BY <1>1, <3>1 DEF InStep, InitWork, SameCommand
  <2>4. CASE w.at \in AtSaving
    BY <2>4, FollowingIs
  <2> QED BY <1>1, <2>1, <2>2, <2>3, <2>4 DEF InitWork
<1>2. CASE w \in RebindWork
  <2>1. CASE w.at \in AtCodes
    <3>1. v = [w EXCEPT !.at = "config", !.todo = <<"config">>]
      BY <1>2, <2>1, FollowingIs DEF RebindWork
    <3> QED BY <1>2, <3>1 DEF InStep, RebindWork, SameCommand, Making
  <2>2. CASE w.at \in AtSaving
    BY <2>2, FollowingIs
  <2> QED BY <1>2, <2>1, <2>2 DEF RebindWork
<1>3. CASE w \in RegenerateWork
  <2>1. CASE w.at \in AtCodes
    <3>1. v = [w EXCEPT !.at = "show", !.todo = <<"show">>]
      BY <1>3, <2>1, FollowingIs DEF RegenerateWork
    <3> QED BY <1>3, <3>1 DEF InStep, RegenerateWork, SameCommand
  <2>2. CASE w.at = "show"
    BY <2>2, FollowingIs
  <2> QED BY <1>3, <2>1, <2>2 DEF RegenerateWork
<1>4. CASE w \in SetWork
  BY <1>4, FollowingIs DEF SetWork
<1> QED BY <1>1, <1>2, <1>3, <1>4 DEF InStep

LEMMA IsDone ==
  ASSUME Types, NEW p \in Terminal, Done(p)
  PROVE  Only(p) /\ work'[p] = Following(work[p])
BY DEF Types, Done, Only
(* A step of a command keeps the types if it keeps those of what it writes. *)
LEMMA StepTypes ==
  ASSUME Types, NEW p \in Terminal, Only(p), IsWork(work'[p]), commands' = commands,
         sentinel' \in [Home -> Nat \cup {Absent, Torn}],
         codes' \in [Home -> Codes \cup {Absent, Torn}], codesTmp' \in [Home -> Codes \cup {Absent, Torn}],
         config' \in [Home -> Config \cup {Absent, Torn}], configTmp' \in [Home -> Config \cup {Absent, Torn}],
         shown' \subseteq 0..commands, twice' \subseteq Home, spent' \subseteq Home \X (0..commands) \X Slot,
         wanted' \in [Home -> [Field -> BOOLEAN]]
  PROVE  Types'
<1>1. \A q \in Terminal : IsWork(work'[q])
  BY DEF Types, Only
<1>2. \A q \in Terminal : IsWork(work[q])'
  BY <1>1 DEF IsWork, Known
<1> QED BY <1>2 DEF Types, Only, Codes

(* The files and what the ghosts remember are left alone.                  *)
LEMMA QuietTypes ==
  ASSUME Types, NEW p \in Terminal, Only(p), IsWork(work'[p]), UNCHANGED <<disk, commands, spent, twice, wanted>>,
         shown' \subseteq 0..commands
  PROVE  Types'
BY StepTypes DEF Types, disk

LEMMA GoneWork ==
  ASSUME NEW w, InStep(w), NEW at,
         \/ w.op = "init" /\ w.at = "codes" /\ at = "write-codes"
         \/ w.op # "init" /\ w.at \in AtCodes /\ at \in AtCodes
         \/ w.at \in AtSeal /\ at \in AtSeal
         \/ w.at \in AtSaving /\ at \in AtSaving
  PROVE  LET v == [w EXCEPT !.at = at]
         IN  /\ InStep(v) /\ SameCommand(v, w) /\ v.at = at
             /\ w.op = "rebind" => v.codes = w.codes /\ v.to = w.to
             /\ w.op \in {"rebind", "set"} => v.config = w.config
<1> DEFINE v == [w EXCEPT !.at = at]
<1>1. CASE w \in InitWork
  BY <1>1 DEF InStep, InitWork, RebindWork, RegenerateWork, SetWork, SameCommand
<1>2. CASE w \in RebindWork
  BY <1>2 DEF InStep, InitWork, RebindWork, RegenerateWork, SetWork, SameCommand, Making
<1>3. CASE w \in RegenerateWork
  BY <1>3 DEF InStep, InitWork, RebindWork, RegenerateWork, SetWork, SameCommand
<1>4. CASE w \in SetWork
  BY <1>4 DEF InStep, InitWork, RebindWork, RegenerateWork, SetWork, SameCommand, Making
<1> QED BY <1>1, <1>2, <1>3, <1>4 DEF InStep

LEMMA SameKnown ==
  ASSUME NEW w, NEW v, Known(w), SameCommand(v, w), w.op = "rebind" => v.codes = w.codes
  PROVE  Known(v)
BY DEF Known, SameCommand, Making
(* The steps that go on within an effect, those that complete one, those   *)
(* that read, and those that end the command early.                        *)
Goes(p)    == TruncateCodes(p) \/ Create(p) \/ TruncateSentinel(p) \/ TruncateTmp(p) \/ WriteTmp(p)
Completes(p) == WriteCodes(p) \/ WriteSentinel(p) \/ Show(p) \/ RenameCodes(p) \/ RenameConfig(p)
Reads(p)   == UnlockNew(p) \/ ReadCodes(p) \/ LoadForRebind(p) \/ LoadForUpdate(p)

LEMMA StepKinds ==
  ASSUME NEW p \in Terminal, CommandStep(p)
  PROVE  Goes(p) \/ Completes(p) \/ Reads(p) \/ Fail(p)
BY DEF CommandStep, Goes, Completes, Reads, AlreadyInitialized, RefuseCode, RefuseConfig, RefuseUpdate, Dies

LEMMA GoesOn ==
  ASSUME Types, NEW p \in Terminal, Goes(p)
  PROVE  /\ InStep(work[p]) /\ Only(p) /\ InStep(work'[p]) /\ SameCommand(work'[p], work[p])
         /\ work[p].op = "rebind" => work'[p].codes = work[p].codes /\ work'[p].to = work[p].to
         /\ work[p].op \in {"rebind", "set"} => work'[p].config = work[p].config
         /\ work'[p] = [work[p] EXCEPT !.at = work'[p].at]
         /\ \/ work[p].op = "init" /\ work[p].at = "codes" /\ work'[p].at = "write-codes"
            \/ work[p].op # "init" /\ work[p].at \in AtCodes /\ work'[p].at \in AtCodes
            \/ work[p].at \in AtSeal /\ work'[p].at \in AtSeal
            \/ work[p].at \in AtSaving /\ work'[p].at \in AtSaving
<1> DEFINE w == work[p]
<1>1. PICK at : /\ Go(p, at)
                /\ \/ w.op = "init" /\ w.at = "codes" /\ at = "write-codes"
                   \/ w.op # "init" /\ w.at \in AtCodes /\ at \in AtCodes
                   \/ w.at \in AtSeal /\ at \in AtSeal
                   \/ w.at \in AtSaving /\ at \in AtSaving
  <2>1. CASE TruncateCodes(p)
    BY <2>1 DEF TruncateCodes
  <2>2. CASE Create(p) \/ TruncateSentinel(p)
    BY <2>2 DEF Create, TruncateSentinel
  <2>3. CASE TruncateTmp(p)
    BY <2>3 DEF TruncateTmp
  <2>4. CASE WriteTmp(p)
    <3>1. w.at = "write-codes-tmp" => w.op # "init"
      BY DEF Types, IsWork, Idle, InStep, InitWork, RebindWork, RegenerateWork, SetWork
    <3> QED BY <2>4, <3>1 DEF WriteTmp
  <2> QED BY <2>1, <2>2, <2>3, <2>4 DEF Goes
<1>2. InStep(w)
  BY <1>1 DEF Types, IsWork, Idle
<1>3. Only(p) /\ work'[p] = [w EXCEPT !.at = at]
  BY <1>1, Gone
<1> QED BY <1>1, <1>2, <1>3, GoneWork

LEMMA CompletesOn ==
  ASSUME Types, NEW p \in Terminal, Completes(p)
  PROVE  /\ InStep(work[p]) /\ Only(p) /\ work'[p] = Following(work[p])
         /\ work[p].at \in {"write-codes", "write-sentinel", "show", "rename-codes", "rename-config"}
         /\ \/ work'[p] = Idle
            \/ /\ InStep(work'[p]) /\ SameCommand(work'[p], work[p])
               /\ work[p].op = "rebind" => work'[p].codes = work[p].codes /\ work'[p].to = work[p].to
               /\ work[p].op \in {"rebind", "set"} => work'[p].config = work[p].config
<1> DEFINE w == work[p]
<1>1. Done(p) /\ w.at \in {"write-codes", "write-sentinel", "show", "rename-codes", "rename-config"}
  BY DEF Completes, WriteCodes, WriteSentinel, Show, RenameCodes, RenameConfig
<1>2. InStep(w)
  BY <1>1 DEF Types, IsWork, Idle
<1>3. Only(p) /\ work'[p] = Following(w)
  BY <1>1, IsDone
<1> QED BY <1>1, <1>2, <1>3, FollowingWork

LEMMA FailsIdle ==
  ASSUME Types, NEW p \in Terminal, Fail(p)
  PROVE  Only(p) /\ work'[p] = Idle
BY DEF Types, Fail, Only

LEMMA LoadedIs ==
  ASSUME Types, NEW h \in Home, NEW key \in Nat, NEW check_home, Loads(h, key, check_home)
  PROVE  Loaded(h) \in Config /\ (config[h] # Absent => config[h] \in Config /\ config[h].key = key)
<1>1. DefaultConfig \in Config
  BY DEF DefaultConfig, Config, Default
<1>2. config[h] # Absent => config[h] \in Config /\ config[h].key = key
  BY DEF Types, Loads, Verified, Readable
<1> QED BY <1>1, <1>2 DEF Loaded
LEMMA UnlockReads ==
  ASSUME Types, NEW p \in Terminal, UnlockNew(p)
  PROVE  /\ InStep(work[p]) /\ Only(p) /\ InStep(work'[p]) /\ SameCommand(work'[p], work[p])
         /\ work[p].op = "init" /\ work[p].at = "unlock" /\ work'[p].at = "config"
<1> DEFINE w == work[p]  key == sentinel[w.home]
<1>1. InStep(w) /\ w \in InitWork
  BY DEF UnlockNew, Types, IsWork, Idle, InStep, RebindWork, RegenerateWork, SetWork
<1>2. key \in Nat
  BY <1>1 DEF UnlockNew, Types, Readable, InitWork
<1>3. Only(p) /\ work'[p] = [Following(w) EXCEPT !.key = key]
  BY DEF UnlockNew, Types, Only
<1>4. Following(w) = [w EXCEPT !.at = "config", !.todo = <<"config">>]
  BY <1>1, FollowingIs DEF UnlockNew
<1> HIDE DEF key
<1>5. work'[p] = [w EXCEPT !.at = "config", !.todo = <<"config">>, !.key = key]
  BY <1>3, <1>4
<1>6. work'[p] \in InitWork /\ SameCommand(work'[p], w)
  BY <1>1, <1>2, <1>5 DEF InitWork, SameCommand
<1>7. w.op = "init" /\ w.at = "unlock"
  BY <1>1 DEF InitWork, UnlockNew
<1>8. {"at", "todo", "key"} \subseteq DOMAIN w
  BY <1>1 DEF InitWork
<1>9. work'[p].at = "config" /\ work'[p].todo = <<"config">>
  BY <1>5, <1>8
<1> QED BY <1>1, <1>3, <1>6, <1>7, <1>9 DEF InStep

LEMMA CodesRead ==
  ASSUME Types, NEW p \in Terminal, ReadCodes(p)
  PROVE  /\ work[p] \in RebindWork /\ Only(p) /\ InStep(work'[p]) /\ SameCommand(work'[p], work[p])
         /\ work'[p].at = "load-config" /\ work'[p].to = work[p].to
         /\ codes[work[p].home] \in Codes
         /\ work'[p].codes = codes[work[p].home]
<1> DEFINE w == work[p]  c == codes[w.home]
<1>1. InStep(w) /\ w \in RebindWork
  BY DEF ReadCodes, Types, IsWork, Idle, InStep, InitWork, RegenerateWork, SetWork
<1>2. c \in Codes
  BY <1>1 DEF ReadCodes, Types, Unconsumed, Readable, RebindWork
<1>3. c \in RecoveryCodesFile
  BY <1>2 DEF Codes, RecoveryCodesFile, Types
<1>4. Only(p) /\ work'[p] = [w EXCEPT !.at = "load-config", !.codes = c]
  BY DEF ReadCodes, Types, Only
<1>5. w.todo = RebindEffects
  BY <1>1 DEF ReadCodes, InStep, InitWork, RebindWork, RegenerateWork, SetWork
<1>6. work'[p] \in RebindWork /\ SameCommand(work'[p], w)
  BY <1>1, <1>3, <1>4 DEF RebindWork, SameCommand, Making
<1>7. c # Absent
  BY <1>3, HomeConstants
<1> QED BY <1>1, <1>2, <1>3, <1>4, <1>5, <1>6, <1>7 DEF InStep, RebindWork

LEMMA RebindLoads ==
  ASSUME Types, NEW p \in Terminal, LoadForRebind(p)
  PROVE  /\ work[p] \in RebindWork /\ Only(p) /\ InStep(work'[p]) /\ SameCommand(work'[p], work[p])
         /\ work[p].at = "load-config" /\ work'[p].at = "codes"
         /\ work[p].codes \in RecoveryCodesFile /\ work'[p].codes.gen = work[p].codes.gen
         /\ work'[p].codes = mark_code_consumed(work[p].codes, work[p].slot)
         /\ work'[p].to \in {work[p].to, work[p].home}
         /\ work'[p].config = [Loaded(work'[p].to) EXCEPT !.home = work[p].to]
         /\ config[work'[p].to] # Absent => config[work'[p].to] \in Config /\ config[work'[p].to].key \in Nat
         /\ Loaded(work'[p].to) \in Config
<1> DEFINE w == work[p]
           moved == sentinel[w.to] # Absent
           at == IF moved THEN w.to ELSE w.home
           key == IF moved THEN sentinel[w.to] ELSE w.key
           c == [Loaded(at) EXCEPT !.home = w.to]
           marked == mark_code_consumed(w.codes, w.slot)
<1>1. InStep(w) /\ w \in RebindWork /\ w.at = "load-config" /\ w.todo = RebindEffects
  BY DEF LoadForRebind, Types, IsWork, Idle, InStep, InitWork, RebindWork, RegenerateWork, SetWork
<1>2. at \in Home /\ key \in Nat /\ Loads(at, key, ~moved)
  BY <1>1 DEF LoadForRebind, Types, RebindWork
<1>3. Loaded(at) \in Config /\ (config[at] # Absent => config[at] \in Config /\ config[at].key = key)
  BY <1>2, LoadedIs
<1>4. c \in Config
  BY <1>1, <1>3 DEF Config, RebindWork
<1>5. Only(p) /\ work'[p] = [w EXCEPT !.at = "codes", !.key = key, !.to = at, !.config = c, !.codes = marked]
  BY <1>1, Effects DEF LoadForRebind, Types, Only, RebindWork
<1>6. w.codes \in RecoveryCodesFile /\ w.slot \in Slot
  BY <1>1, HomeConstants DEF InStep, InitWork, RebindWork, RegenerateWork, SetWork
<1>7. marked \in RecoveryCodesFile /\ marked.gen = w.codes.gen
  BY <1>6 DEF mark_code_consumed, RecoveryCodesFile
<1>8. marked # Absent
  BY <1>7, HomeConstants
<1>9. at \in {w.to, w.home}
  OBVIOUS
<1> HIDE DEF at, key, c, marked
<1>10. work'[p] \in RebindWork /\ SameCommand(work'[p], w)
  BY <1>1, <1>2, <1>4, <1>5, <1>7 DEF RebindWork, SameCommand, Making
<1>11. /\ work'[p].at = "codes" /\ work'[p].codes = marked /\ work'[p].to = at /\ work'[p].config = c
       /\ work'[p].todo = RebindEffects
  BY <1>1, <1>5 DEF RebindWork
<1>12. InStep(work'[p])
  BY <1>1, <1>8, <1>10, <1>11 DEF InStep, InitWork, RebindWork, RegenerateWork, SetWork
<1> QED BY <1>1, <1>2, <1>3, <1>5, <1>6, <1>7, <1>9, <1>10, <1>11, <1>12 DEF c, marked

LEMMA UpdateLoads ==
  ASSUME Types, NEW p \in Terminal, LoadForUpdate(p)
  PROVE  /\ work[p] \in SetWork /\ Only(p) /\ InStep(work'[p]) /\ SameCommand(work'[p], work[p])
         /\ work'[p].at = "config" /\ Loaded(work[p].home) \in Config
         /\ work'[p].config = [Loaded(work[p].home) EXCEPT !.set[work[p].field] = work[p].on]
         /\ config[work[p].home] # Absent => config[work[p].home] \in Config /\ config[work[p].home].key \in Nat
<1> DEFINE w == work[p]
           c == [Loaded(w.home) EXCEPT !.set[w.field] = w.on]
<1>1. InStep(w) /\ w \in SetWork
  BY DEF LoadForUpdate, Types, IsWork, Idle, InStep, InitWork, RebindWork, RegenerateWork
<1>2. w.home \in Home /\ w.key \in Nat /\ w.field \in Field /\ w.on \in BOOLEAN
  BY <1>1 DEF SetWork
<1>3. Loaded(w.home) \in Config /\ (config[w.home] # Absent => config[w.home] \in Config /\ config[w.home].key = w.key)
  BY <1>2, LoadedIs DEF LoadForUpdate
<1>4. c \in Config
  BY <1>2, <1>3 DEF Config
<1> HIDE DEF c
<1>5. Only(p) /\ work'[p] = [w EXCEPT !.at = "config", !.config = c]
  BY <1>1 DEF LoadForUpdate, Types, Only, SetWork, c
<1>6. work'[p] \in SetWork /\ SameCommand(work'[p], w)
  BY <1>1, <1>4, <1>5 DEF SetWork, SameCommand, Making
<1> QED BY <1>1, <1>2, <1>3, <1>5, <1>6 DEF InStep, SetWork, c

(* Every step of a command moves that command alone.                       *)
LEMMA StepMoves ==
  ASSUME Types, NEW p \in Terminal, CommandStep(p)
  PROVE  /\ Only(p) /\ IsWork(work'[p]) /\ commands' = commands
         /\ \/ work'[p] = Idle
            \/ InStep(work[p]) /\ InStep(work'[p]) /\ SameCommand(work'[p], work[p])
<1>1. commands' = commands
  BY DEF CommandStep, TruncateCodes, WriteCodes, Create, AlreadyInitialized, TruncateSentinel, WriteSentinel,
         UnlockNew, ReadCodes, RefuseCode, LoadForRebind, RefuseConfig, Show, LoadForUpdate, RefuseUpdate, TruncateTmp,
         WriteTmp, RenameCodes, RenameConfig, Dies, Fail, bounds
<1>2. InStep(work[p]) => Known(work[p])
  BY DEF Types, IsWork, Idle, InStep, InitWork, RebindWork, RegenerateWork, SetWork
<1>3. CASE Goes(p)
  BY <1>1, <1>2, <1>3, GoesOn, SameKnown DEF IsWork
<1>4. CASE Completes(p)
  BY <1>1, <1>2, <1>4, CompletesOn, SameKnown DEF IsWork
<1>5. CASE Fail(p)
  BY <1>1, <1>5, FailsIdle DEF IsWork
<1>6. CASE UnlockNew(p)
  BY <1>1, <1>2, <1>6, UnlockReads, SameKnown DEF IsWork
<1>7. CASE ReadCodes(p)
  <2>1. work'[p].codes.gen \in 0..commands /\ work[p].op = "rebind"
    BY <1>7, CodesRead DEF Codes, RebindWork
  <2>2. InStep(work[p]) /\ Known(work[p])
    BY <2>1 DEF Types, IsWork, Idle
  <2>3. Only(p) /\ InStep(work'[p]) /\ SameCommand(work'[p], work[p])
    BY <1>7, CodesRead
  <2>4. Known(work'[p])
    BY <2>1, <2>2, <2>3 DEF Known, SameCommand, Making, Types
  <2> QED BY <1>1, <2>2, <2>3, <2>4 DEF IsWork
<1>8. CASE LoadForRebind(p)
  <2>1. work[p].op = "rebind"
    BY <1>8, RebindLoads DEF RebindWork
  <2>2. InStep(work[p]) /\ Known(work[p])
    BY <2>1 DEF Types, IsWork, Idle
  <2>3. Only(p) /\ InStep(work'[p]) /\ SameCommand(work'[p], work[p])
        /\ work[p].codes \in RecoveryCodesFile /\ work'[p].codes.gen = work[p].codes.gen
    BY <1>8, RebindLoads
  <2>4. Known(work'[p])
    BY <2>1, <2>2, <2>3, HomeConstants DEF Known, SameCommand, Making, Types
  <2> QED BY <1>1, <2>2, <2>3, <2>4 DEF IsWork
<1>9. CASE LoadForUpdate(p)
  BY <1>1, <1>2, <1>9, UpdateLoads, SameKnown DEF IsWork, InStep, SetWork
<1> QED BY <1>3, <1>4, <1>5, <1>6, <1>7, <1>8, <1>9, StepKinds DEF Reads
LEMMA SavedIs ==
  ASSUME NEW c \in Config, NEW key \in Nat, NEW h \in Home
  PROVE  LET s == Saved(c, key, h)
         IN  /\ s \in Config /\ s.key = key /\ s.set = c.set /\ s.home # Nobody
             /\ s.home = (IF c.home = Nobody THEN h ELSE c.home)
             /\ s.line = (IF c.line = Nobody THEN s.home ELSE c.line)
<1>1. Saved(c, key, h) = [c EXCEPT !.key = key, !.home = IF c.home = Nobody THEN h ELSE c.home,
                          !.line = IF c.line = Nobody THEN (IF c.home = Nobody THEN h ELSE c.home) ELSE c.line]
  BY DEF Saved, Config
<1> QED BY <1>1, HomeConstants DEF Config

LEMMA Saving ==
  ASSUME Types, NEW p \in Terminal, work[p].at \in AtSaving
  PROVE  /\ InStep(work[p]) /\ work[p].op \in {"init", "rebind", "set"}
         /\ work[p].config \in Config /\ work[p].key \in Nat
         /\ Target(work[p]) = SaveHome(p) /\ SaveHome(p) \in Home
         /\ work[p].op = "init" => work[p].config = DefaultConfig
         /\ HasConfig(work[p], SaveHome(p))
         /\ work[p].op = "set" => work[p].field \in Field /\ work[p].on \in BOOLEAN
<1>1. InStep(work[p])
  BY DEF Types, IsWork, Idle
<1>2. DefaultConfig \in Config
  BY DEF DefaultConfig, Config, Default
<1> QED BY <1>1, <1>2 DEF InStep, InitWork, RebindWork, RegenerateWork, SetWork, Target, SaveHome, HasConfig

LEMMA InHome ==
  ASSUME Types, NEW p \in Terminal, work[p].at \in AtCodes \cup AtSeal \cup {"write-codes"}
  PROVE  /\ InStep(work[p]) /\ work[p].home \in Home /\ HasCodes(work[p])
         /\ work[p].codes \in Codes
         /\ work[p].op = "init" => work[p].key \in Nat /\ work[p].at \in AtSeal \cup {"codes", "write-codes"}
         /\ work[p].op # "init" => work[p].op \in {"rebind", "regenerate"} /\ work[p].at \in AtCodes
<1>1. InStep(work[p]) /\ Known(work[p])
  BY DEF Types, IsWork, Idle
<1>2. /\ work[p].codes \in RecoveryCodesFile /\ work[p].home \in Home /\ HasCodes(work[p])
      /\ work[p].op = "init" => work[p].key \in Nat /\ work[p].at \in AtSeal \cup {"codes", "write-codes"}
      /\ work[p].op # "init" => work[p].op \in {"rebind", "regenerate"} /\ work[p].at \in AtCodes
  BY <1>1 DEF InStep, InitWork, RebindWork, RegenerateWork, SetWork, HasCodes
<1>3. work[p].op \in {"init", "rebind", "regenerate"} /\ work[p].codes # Absent
  BY <1>1, <1>2, HomeConstants DEF InStep, InitWork, RebindWork, RegenerateWork, SetWork
<1>4. work[p].codes.gen <= commands
  BY <1>1, <1>3 DEF Known, Making
<1> QED BY <1>1, <1>2, <1>4 DEF Codes, RecoveryCodesFile, Types

LEMMA GoesTypes ==
  ASSUME Types, NEW p \in Terminal, Goes(p)
  PROVE  Types'
<1> DEFINE w == work[p]
<1>1. Only(p) /\ IsWork(work'[p]) /\ commands' = commands
  BY StepMoves DEF Goes, CommandStep
<1>2. CASE TruncateCodes(p)
  <2>1. w.home \in Home
    BY <1>2, InHome DEF TruncateCodes
  <2> QED BY <1>1, <1>2, <2>1, StepTypes DEF TruncateCodes, Types, ghosts
<1>3. CASE Create(p)
  BY <1>1, <1>3, QuietTypes DEF Create, Types, ghosts
<1>4. CASE TruncateSentinel(p)
  <2>1. w.home \in Home
    BY <1>4, InHome DEF TruncateSentinel
  <2> QED BY <1>1, <1>4, <2>1, StepTypes DEF TruncateSentinel, Types, ghosts
<1>5. CASE TruncateTmp(p) /\ w.at = "codes"
  <2>1. w.home \in Home
    BY <1>5, InHome
  <2> QED BY <1>1, <1>5, <2>1, StepTypes DEF TruncateTmp, Types, ghosts
<1>6. CASE TruncateTmp(p) /\ w.at = "config"
  <2>1. SaveHome(p) \in Home
    BY <1>6, Saving
  <2> QED BY <1>1, <1>6, <2>1, StepTypes DEF TruncateTmp, Types, ghosts
<1>7. CASE WriteTmp(p) /\ w.at = "write-codes-tmp"
  <2>1. w.home \in Home /\ w.codes \in Codes
    BY <1>7, InHome
  <2> QED BY <1>1, <1>7, <2>1, StepTypes DEF WriteTmp, Types, ghosts
<1>8. CASE WriteTmp(p) /\ w.at = "write-config-tmp"
  <2>1. SaveHome(p) \in Home /\ Saved(w.config, w.key, SaveHome(p)) \in Config
    BY <1>8, Saving, SavedIs
  <2> QED BY <1>1, <1>8, <2>1, StepTypes DEF WriteTmp, Types, ghosts
<1> QED BY <1>2, <1>3, <1>4, <1>5, <1>6, <1>7, <1>8 DEF Goes, TruncateTmp, WriteTmp

LEMMA CompletesTypes ==
  ASSUME Types, NEW p \in Terminal, Completes(p)
  PROVE  Types'
<1> DEFINE w == work[p]
<1>1. Only(p) /\ IsWork(work'[p]) /\ commands' = commands
  BY StepMoves DEF Completes, CommandStep
<1>2. CASE WriteCodes(p)
  <2>1. w.home \in Home /\ w.codes \in Codes
    BY <1>2, InHome DEF WriteCodes
  <2> QED BY <1>1, <1>2, <2>1, StepTypes DEF WriteCodes, Types, ghosts
<1>3. CASE WriteSentinel(p)
  <2>1. w.op = "init"
    BY <1>3, InHome DEF WriteSentinel
  <2>2. w.home \in Home /\ w.key \in Nat
    BY <1>3, <2>1, InHome DEF WriteSentinel
  <2> QED BY <1>1, <1>3, <2>2, StepTypes DEF WriteSentinel, Types, ghosts
<1>4. CASE Show(p)
  <2>1. w.codes.gen \in 0..commands
    BY <1>4 DEF Show, Types, IsWork, Idle, InStep, InitWork, RebindWork, RegenerateWork, SetWork, Known, Making,
                RecoveryCodesFile
  <2> QED BY <1>1, <1>4, <2>1, QuietTypes DEF Show, Types
<1>5. CASE RenameCodes(p)
  <2>1. w.home \in Home /\ codesTmp[w.home] \in Codes \cup {Absent, Torn}
    BY <1>5, InHome DEF RenameCodes, Types
  <2>2. w.op = "rebind" => w.gen \in 0..commands /\ w.slot \in Slot
    BY <1>5 DEF RenameCodes, Types, IsWork, Idle, InStep, InitWork, RebindWork, RegenerateWork, SetWork, Known
  <2>3. spent' \subseteq Home \X (0..commands) \X Slot /\ twice' \subseteq Home
    BY <1>5, <2>1, <2>2 DEF RenameCodes, Types
  <2>4. codes' \in [Home -> Codes \cup {Absent, Torn}] /\ codesTmp' \in [Home -> Codes \cup {Absent, Torn}]
    BY <1>5, <2>1 DEF RenameCodes, Types
  <2> QED BY <1>1, <1>5, <2>3, <2>4, StepTypes DEF RenameCodes, Types
<1>6. CASE RenameConfig(p)
  <2>1. /\ SaveHome(p) \in Home /\ configTmp[SaveHome(p)] \in Config \cup {Absent, Torn}
        /\ w.op = "set" => w.field \in Field /\ w.on \in BOOLEAN
    BY <1>6, Saving DEF RenameConfig, Types
  <2>2. wanted' \in [Home -> [Field -> BOOLEAN]]
    BY <1>6, <2>1 DEF RenameConfig, Types, Default
  <2> QED BY <1>1, <1>6, <2>1, <2>2, StepTypes DEF RenameConfig, Types
<1> QED BY <1>2, <1>3, <1>4, <1>5, <1>6 DEF Completes

LEMMA CommandTypes ==
  ASSUME Types, NEW p \in Terminal, CommandStep(p)
  PROVE  Types'
<1>1. Only(p) /\ IsWork(work'[p]) /\ commands' = commands
  BY StepMoves
<1>2. CASE Fail(p)
  BY <1>1, <1>2, QuietTypes DEF Fail, Types
<1>3. CASE Reads(p)
  BY <1>1, <1>3, QuietTypes DEF Reads, UnlockNew, ReadCodes, LoadForRebind, LoadForUpdate, ghosts, Types
<1> QED BY <1>2, <1>3, GoesTypes, CompletesTypes, StepKinds
(* A command begins.                                                       *)
LEMMA CommandBegins ==
  ASSUME Types, NEW p \in Terminal, Command(p)
  PROVE  /\ work[p] = Idle /\ Only(p) /\ commands' = commands + 1 /\ InStep(work'[p])
         /\ crowd' = crowd \cup UNION {Held(work[q]) \cap Held(work'[p]) : q \in Terminal \ {p}}
         /\ UNCHANGED <<disk, spent, twice, wanted, rebound, blind>>
         /\ shown \subseteq shown' /\ shown' \subseteq 0..commands'
         /\ \/ /\ work'[p].op = "init" /\ work'[p].at = "codes" /\ sentinel[work'[p].home] = Absent
               /\ work'[p].codes.gen = commands + 1 /\ commands + 1 \in shown'
            \/ work'[p].op = "regenerate" /\ work'[p].at = "codes" /\ work'[p].codes.gen = commands + 1
            \/ /\ work'[p].op = "rebind" /\ work'[p].at = "read-codes" /\ work'[p].gen \in shown
               /\ work'[p].codes = Absent
            \/ work'[p].op = "set" /\ work'[p].at = "load-config" /\ work'[p].config = DefaultConfig
<1>1. DefaultConfig \in Config /\ commands + 1 \in Nat /\ FreshCodes(commands + 1) \in RecoveryCodesFile
      /\ FreshCodes(commands + 1).gen = commands + 1
  BY DEF DefaultConfig, Config, Default, FreshCodes, RecoveryCodesFile, Types
<1>2. \A h \in Home : Readable(sentinel[h]) => sentinel[h] \in Nat
  BY DEF Types, Readable
<1>3. PICK h \in Home : \/ InitVault(p, h) \/ Regenerate(p, h)
                        \/ \E n \in Home, g \in shown, s \in Slot : RebindHome(p, h, n, g, s)
                        \/ \E f \in Field, on \in BOOLEAN : ChangeSetting(p, h, f, on)
  BY DEF Command
<1>4. work[p] = Idle
  BY DEF Command
<1>5. CASE InitVault(p, h)
  <2> DEFINE w == [op |-> "init", at |-> InitEffects[1], home |-> h, todo |-> InitEffects,
                   codes |-> FreshCodes(commands + 1), key |-> commands + 1, config |-> DefaultConfig]
  <2>1. Begin(p, w) /\ sentinel[h] = Absent /\ shown' = shown \cup {commands + 1}
    BY <1>5 DEF InitVault
  <2>2. w \in InitWork /\ InStep(w) /\ w.op = "init" /\ w.at = "codes" /\ w.home = h /\ w.codes.gen = commands + 1
    BY <1>1, Effects DEF InStep, InitWork
  <2> HIDE DEF w
  <2>3. work'[p] = w /\ Only(p)
    BY <2>1 DEF Begin, Types, Only
  <2>4. crowd' = crowd \cup UNION {Held(work[q]) \cap Held(work'[p]) : q \in Terminal \ {p}}
    BY <2>1, <2>3 DEF Begin
  <2>5. /\ commands' = commands + 1 /\ UNCHANGED <<disk, spent, twice, wanted, rebound, blind>>
        /\ shown \subseteq shown' /\ shown' \subseteq 0..commands' /\ commands + 1 \in shown'
    BY <2>1 DEF Begin, Types
  <2> QED BY <1>4, <2>1, <2>2, <2>3, <2>4, <2>5
<1>6. CASE Regenerate(p, h)
  <2> DEFINE w == [op |-> "regenerate", at |-> RegenerateEffects[1], home |-> h, todo |-> RegenerateEffects,
                   codes |-> FreshCodes(commands + 1)]
  <2>1. Begin(p, w) /\ UNCHANGED shown
    BY <1>6 DEF Regenerate
  <2>2. w \in RegenerateWork /\ InStep(w) /\ w.op = "regenerate" /\ w.at = "codes" /\ w.codes.gen = commands + 1
    BY <1>1, Effects DEF InStep, RegenerateWork
  <2> HIDE DEF w
  <2>3. work'[p] = w /\ Only(p)
    BY <2>1 DEF Begin, Types, Only
  <2> QED BY <1>4, <2>1, <2>2, <2>3 DEF Begin, Types
<1>7. CASE \E n \in Home, g \in shown, s \in Slot : RebindHome(p, h, n, g, s)
  <2> PICK n \in Home, g \in shown, s \in Slot : RebindHome(p, h, n, g, s)
    BY <1>7
  <2> DEFINE w == [op |-> "rebind", at |-> "read-codes", home |-> h, to |-> n, todo |-> RebindEffects,
                   codes |-> Absent, gen |-> g, slot |-> s, key |-> sentinel[h], config |-> DefaultConfig]
  <2>1. Begin(p, w) /\ Readable(sentinel[h]) /\ UNCHANGED shown
    BY DEF RebindHome
  <2>2. w \in RebindWork /\ w.op = "rebind" /\ w.at = "read-codes" /\ w.gen \in shown /\ w.codes = Absent
    BY <1>1, <1>2, <2>1 DEF RebindWork, Types
  <2>3. InStep(w)
    BY <2>2 DEF InStep
  <2> HIDE DEF w
  <2>4. work'[p] = w /\ Only(p)
    BY <2>1 DEF Begin, Types, Only
  <2> QED BY <1>4, <2>1, <2>2, <2>3, <2>4 DEF Begin, Types
<1>8. CASE \E f \in Field, on \in BOOLEAN : ChangeSetting(p, h, f, on)
  <2> PICK f \in Field, on \in BOOLEAN : ChangeSetting(p, h, f, on)
    BY <1>8
  <2> DEFINE w == [op |-> "set", at |-> "load-config", home |-> h, todo |-> <<"config">>, field |-> f, on |-> on,
                   key |-> sentinel[h], config |-> DefaultConfig]
  <2>1. Begin(p, w) /\ Readable(sentinel[h]) /\ UNCHANGED shown
    BY DEF ChangeSetting, unlock_for_config
  <2>2. w \in SetWork /\ InStep(w) /\ w.op = "set" /\ w.at = "load-config" /\ w.config = DefaultConfig
    BY <1>1, <1>2, <2>1 DEF SetWork, InStep
  <2> HIDE DEF w
  <2>3. work'[p] = w /\ Only(p)
    BY <2>1 DEF Begin, Types, Only
  <2> QED BY <1>4, <2>1, <2>2, <2>3 DEF Begin, Types
<1> QED BY <1>3, <1>5, <1>6, <1>7, <1>8

LEMMA BeginTypes ==
  ASSUME Types, NEW p \in Terminal, Command(p)
  PROVE  Types'
<1>1. \A q \in Terminal \ {p} : IsWork(work[q])'
  <2> SUFFICES ASSUME NEW q \in Terminal \ {p}, work[q] # Idle PROVE InStep(work[q]) /\ Known(work[q])'
    BY CommandBegins DEF Only, IsWork
  <2>1. InStep(work[q]) /\ Known(work[q]) /\ work'[q] = work[q]
    BY CommandBegins DEF Types, Only, IsWork
  <2>2. /\ work[q].op \in Making => work[q].codes.gen \in Nat
        /\ work[q].op = "rebind" => work[q].gen \in Nat /\ (work[q].codes # Absent => work[q].codes.gen \in Nat)
    BY <2>1 DEF InStep, InitWork, RebindWork, RegenerateWork, SetWork, RecoveryCodesFile, Making
  <2> QED BY <2>1, <2>2, CommandBegins DEF Known, Types
<1>2. IsWork(work[p])'
  <2>1. Known(work[p])'
    BY CommandBegins DEF Known, Types, Making, InStep, InitWork, RebindWork, RegenerateWork, SetWork
  <2> QED BY <2>1, CommandBegins DEF IsWork
<1>3. \A c : c \in Codes => c \in Codes'
  BY CommandBegins DEF Codes, Types
<1>4. /\ codes' \in [Home -> Codes' \cup {Absent, Torn}] /\ codesTmp' \in [Home -> Codes' \cup {Absent, Torn}]
      /\ spent' \subseteq Home \X (0..commands') \X Slot
  BY <1>3, CommandBegins DEF Types, disk
<1> QED BY <1>1, <1>2, <1>4, CommandBegins DEF Types, disk, Only

LEMMA OwnerTypes ==
  ASSUME Types, ByHand
  PROVE  Types'
<1>1. CASE \E h, n \in Home : Copy(h, n)
  <2> PICK h \in Home, n \in Home : Copy(h, n)
    BY <1>1
  <2>1. spent' \subseteq Home \X (0..commands) \X Slot
    BY DEF Copy, Types
  <2>2. twice' \subseteq Home
    BY DEF Copy, Types
  <2>3. \A q \in Terminal : IsWork(work[q])'
    BY DEF Copy, Types, IsWork, Known
  <2> QED BY <2>1, <2>2, <2>3 DEF Copy, Types, Codes
<1>2. CASE \E h \in Home, f \in Field : EditConfig(h, f)
  <2> PICK h \in Home, f \in Field : EditConfig(h, f)
    BY <1>2
  <2>1. [config[h] EXCEPT !.key = Nobody, !.set[f] = ~@] \in Config
    BY DEF EditConfig, Types, Config, Readable
  <2>2. config' \in [Home -> Config \cup {Absent, Torn}]
    BY <2>1 DEF EditConfig, Types
  <2>3. \A q \in Terminal : IsWork(work[q])'
    BY DEF EditConfig, Types, IsWork, Known
  <2> QED BY <2>2, <2>3 DEF EditConfig, Types, Codes, ghosts
<1>3. CASE \E h \in Home : MoveAside(h)
  <2> PICK h \in Home : MoveAside(h)
    BY <1>3
  <2>1. \A q \in Terminal : IsWork(work[q])'
    BY DEF MoveAside, Types, IsWork, Known
  <2> QED BY <2>1 DEF MoveAside, Types, Codes, Default
<1> QED BY <1>1, <1>2, <1>3 DEF ByHand

LEMMA InitTypes == Init => Types
<1> SUFFICES ASSUME Init PROVE Types
  OBVIOUS
<1>1. PICK born \in SUBSET Home :
        /\ sentinel = [h \in Home |-> IF h \in born THEN 0 ELSE Absent]
        /\ codes = [h \in Home |-> IF h \in born THEN FreshCodes(0) ELSE Absent]
        /\ config = [h \in Home |-> IF h \in born THEN Saved(DefaultConfig, 0, h) ELSE Absent]
        /\ shown = IF born = {} THEN {} ELSE {0}
  BY DEF Init
<1>2. \A h \in Home : Saved(DefaultConfig, 0, h) \in Config
  <2>1. DefaultConfig \in Config
    BY DEF DefaultConfig, Config, Default
  <2> QED BY <2>1, SavedIs
<1>3. FreshCodes(0) \in [gen : 0..0, used : SUBSET Slot]
  BY DEF FreshCodes
<1>4. \A p \in Terminal : IsWork(work[p])
  BY DEF Init, IsWork
<1> QED BY <1>1, <1>2, <1>3, <1>4 DEF Init, Types, Codes, Default

LEMMA StillTypes == Types /\ UNCHANGED vars => Types'
<1> SUFFICES ASSUME Types, UNCHANGED vars PROVE Types'
  OBVIOUS
<1>1. \A q \in Terminal : IsWork(work[q])'
  BY DEF Types, vars, bounds, IsWork, Known
<1> QED BY <1>1 DEF Types, vars, disk, bounds, ghosts, Codes

LEMMA NextTypes == Types /\ [Next]_vars => Types'
BY BeginTypes, CommandTypes, OwnerTypes, StillTypes DEF Next
------------------------------------------------------------------------------
(* Two commands with one file in hand are in the crowd.                    *)

(* A step takes nothing more in hand.                                      *)
LEMMA FollowingHas ==
  ASSUME NEW w, InStep(w), w.at \notin {"read-codes", "load-config"}
  PROVE  \A x, h : Has(x, Following(w), h) => Has(x, w, h)
<1> DEFINE v == Following(w)
<1>1. v = Idle => ~HasCodes(v) /\ \A h : ~HasConfig(v, h)
  BY DEF Idle, HasCodes, HasConfig
<1>2. v # Idle => v.op = w.op /\ v.home = w.home /\ (w.op = "rebind" => v.to = w.to)
  BY FollowingWork DEF SameCommand
<1>3. v # Idle /\ HasCodes(v) => HasCodes(w)
  <2>1. CASE w.op = "init" /\ w.at \in {"codes", "write-codes"} \cup AtSeal
    BY <2>1 DEF HasCodes
  <2>2. CASE w.op \in {"rebind", "regenerate"} /\ w.at \in AtCodes
    BY <2>2 DEF HasCodes
  <2>3. CASE w.at = "unlock"
    <3>1. w \in InitWork
      BY <2>3 DEF InStep, RebindWork, RegenerateWork, SetWork
    <3>2. v = [w EXCEPT !.at = "config", !.todo = <<"config">>]
      BY <2>3, FollowingIs
    <3> QED BY <3>1, <3>2 DEF InitWork, HasCodes
  <2>4. CASE w.at \in AtSaving \cup {"show"}
    BY <2>4, FollowingIs
  <2> QED BY <2>1, <2>2, <2>3, <2>4 DEF InStep, InitWork, RebindWork, RegenerateWork, SetWork
<1> QED BY <1>1, <1>2, <1>3 DEF Has, HasConfig

LEMMA StepHas ==
  ASSUME Types, NEW p \in Terminal, CommandStep(p)
  PROVE  \A x, h : Has(x, work'[p], h) => Has(x, work[p], h)
<1>1. CASE Goes(p)
  BY <1>1, GoesOn DEF Has, HasCodes, HasConfig, SameCommand
<1>2. CASE Completes(p)
  BY <1>2, CompletesOn, FollowingHas
<1>3. CASE Fail(p)
  BY <1>3, FailsIdle DEF Idle, Has, HasCodes, HasConfig
<1>4. CASE UnlockNew(p)
  BY <1>4, UnlockReads DEF Has, HasCodes, HasConfig, SameCommand
<1>5. CASE ReadCodes(p)
  BY <1>5, CodesRead DEF Has, HasCodes, HasConfig, SameCommand, ReadCodes
<1>6. CASE LoadForRebind(p)
  BY <1>6, RebindLoads DEF Has, HasCodes, HasConfig, SameCommand, RebindWork
<1>7. CASE LoadForUpdate(p)
  BY <1>7, UpdateLoads DEF Has, HasCodes, HasConfig, SameCommand, SetWork
<1> QED BY <1>1, <1>2, <1>3, <1>4, <1>5, <1>6, <1>7, StepKinds DEF Reads

LEMMA StepCrowd ==
  ASSUME NEW p \in Terminal, CommandStep(p)
  PROVE  crowd' = crowd
BY DEF CommandStep, TruncateCodes, WriteCodes, Create, AlreadyInitialized, TruncateSentinel, WriteSentinel,
       UnlockNew, ReadCodes, RefuseCode, LoadForRebind, RefuseConfig, Show, LoadForUpdate, RefuseUpdate, TruncateTmp,
       WriteTmp, RenameCodes, RenameConfig, Dies, Fail, ghosts

LEMMA StepCrowded ==
  ASSUME Types, Crowded, NEW p \in Terminal, CommandStep(p)
  PROVE  Crowded'
<1>1. \A q \in Terminal : \A x, h : Has(x, work'[q], h) => Has(x, work[q], h)
  BY StepHas, StepMoves DEF Only
<1> QED BY <1>1, StepCrowd DEF Crowded, Has, HasCodes, HasConfig

LEMMA BeginCrowded ==
  ASSUME Types, Crowded, NEW p \in Terminal, Command(p)
  PROVE  Crowded'
<1> SUFFICES ASSUME NEW q \in Terminal, NEW r \in Terminal, q # r, NEW x \in {"codes", "config"}, NEW h \in Home,
                    Has(x, work'[q], h), Has(x, work'[r], h)
             PROVE  <<x, h>> \in crowd'
  BY DEF Crowded, Has, HasCodes, HasConfig
<1>1. \A t \in Terminal \ {p} : work'[t] = work[t] /\ (work[t] = Idle \/ InStep(work[t]))
  BY CommandBegins DEF Types, IsWork, Only
<1>2. ASSUME NEW t \in Terminal \ {p}, Has(x, work[t], h), Has(x, work'[p], h)
      PROVE  <<x, h>> \in crowd'
  <2>1. <<x, h>> \in Held(work[t]) /\ <<x, h>> \in Held(work'[p])
    BY <1>1, <1>2, HeldIs, CommandBegins
  <2> QED BY <2>1, CommandBegins
<1>3. CASE q # p /\ r # p
  BY <1>1, <1>3, CommandBegins DEF Crowded
<1> QED BY <1>1, <1>2, <1>3

LEMMA IdleHas == \A x, h : ~Has(x, Idle, h)
BY DEF Idle, Has, HasCodes, HasConfig

LEMMA OwnerCrowded ==
  ASSUME Types, Crowded, ByHand
  PROVE  Crowded'
<1>1. CASE \E h, n \in Home : Copy(h, n)
  <2>1. \A p \in Terminal : work'[p] = Idle
    BY <1>1 DEF Copy
  <2>2. \A p \in Terminal : \A x, h : ~Has(x, work[p], h)'
    BY <2>1, IdleHas DEF Has, HasCodes, HasConfig
  <2> QED BY <2>2 DEF Crowded
<1>2. CASE (\E h \in Home, f \in Field : EditConfig(h, f)) \/ \E h \in Home : MoveAside(h)
  <2>1. work' = work /\ crowd \subseteq crowd'
    BY <1>2 DEF EditConfig, MoveAside, ghosts
  <2> QED BY <2>1 DEF Crowded, Has, HasCodes, HasConfig
<1> QED BY <1>1, <1>2 DEF ByHand

LEMMA NextCrowded == Types /\ Crowded /\ [Next]_vars => Crowded'
<1>1. Types /\ Crowded /\ UNCHANGED vars => Crowded'
  BY DEF vars, ghosts, Crowded, Has, HasCodes, HasConfig
<1> QED BY <1>1, BeginCrowded, StepCrowded, OwnerCrowded DEF Next

LEMMA InitCrowded == Init => Crowded
BY IdleHas DEF Init, Crowded

------------------------------------------------------------------------------
(* Settings go with a vault only by a code.                                *)

LEMMA CarryFrame ==
  ASSUME CarryInv, NEW p \in Terminal, Only(p), rebound \subseteq rebound', CarriesJob(work[p])',
         \A h \in Home : config'[h] \in Config => Carries(config[h])',
         \A h \in Home : configTmp'[h] \in Config => Carries(configTmp[h])'
  PROVE  CarryInv'
<1>1. \A q \in Terminal \ {p} : CarriesJob(work[q])'
  BY DEF CarryInv, CarriesJob, Only
<1> QED BY <1>1 DEF CarryInv, Carries

LEMMA QuietCarry ==
  ASSUME CarryInv, NEW p \in Terminal, Only(p), UNCHANGED <<config, configTmp, rebound>>, CarriesJob(work[p])'
  PROVE  CarryInv'
BY CarryFrame DEF CarryInv, Carries

(* A step within an effect, or the end of one that is not the codes.       *)
LEMMA SameJobCarries ==
  ASSUME NEW p \in Terminal, CarriesJob(work[p]), rebound \subseteq rebound', SameCommand(work'[p], work[p]),
         work[p].op \in {"rebind", "set"} => work'[p].config = work[p].config,
         work[p].op = "rebind" /\ work'[p].at \in AtSaving => work[p].at \in AtSaving,
         work[p].op = "rebind" => work[p].at \in AtCodes \cup AtSaving
  PROVE  CarriesJob(work[p])'
BY DEF CarriesJob, SameCommand

LEMMA GoesCarry ==
  ASSUME Types, CarryInv, NEW p \in Terminal, Goes(p)
  PROVE  CarryInv'
<1> DEFINE w == work[p]
<1>1. Only(p) /\ rebound' = rebound
  BY GoesOn DEF Goes, TruncateCodes, Create, TruncateSentinel, TruncateTmp, WriteTmp, ghosts
<1>2. CarriesJob(work[p])'
  <2>1. w.op = "rebind" => w.at \notin AtSeal
    BY GoesOn DEF InStep, InitWork, RebindWork, RegenerateWork, SetWork
  <2> QED BY <1>1, <2>1, GoesOn, SameJobCarries DEF CarryInv
<1>3. CASE WriteTmp(p) /\ w.at = "write-config-tmp"
  <2> DEFINE h == SaveHome(p)  c == w.config  s == Saved(w.config, w.key, SaveHome(p))
  <2>1. h \in Home /\ c \in Config /\ w.op \in {"init", "rebind", "set"} /\ (w.op = "init" => c = DefaultConfig)
    BY <1>3, Saving
  <2>2. /\ s \in Config /\ s.home # Nobody /\ s.home = (IF c.home = Nobody THEN h ELSE c.home)
        /\ s.line = (IF c.line = Nobody THEN s.home ELSE c.line)
    BY <1>3, Saving, SavedIs
  <2>3. s.line # s.home => s.home \in rebound
    <3>1. CASE w.op = "init"
      BY <2>1, <2>2, <3>1 DEF DefaultConfig
    <3>2. CASE w.op = "set"
      BY <2>2, <3>2 DEF CarryInv, CarriesJob
    <3>3. CASE w.op = "rebind"
      BY <1>3, <2>2, <3>3 DEF CarryInv, CarriesJob
    <3> QED BY <2>1, <3>1, <3>2, <3>3
  <2>4. config' = config /\ configTmp' = [configTmp EXCEPT ![h] = s]
    BY <1>3 DEF WriteTmp
  <2> HIDE DEF s, h
  <2>5. \A g \in Home : Carries(config[g])' /\ Carries(configTmp[g])'
    BY <1>1, <2>2, <2>3, <2>4 DEF CarryInv, Carries, Types
  <2> QED BY <1>1, <1>2, <2>5, CarryFrame
<1>4. CASE ~(WriteTmp(p) /\ w.at = "write-config-tmp")
  <2>1. config' = config /\ \A h \in Home : configTmp'[h] = configTmp[h] \/ configTmp'[h] = Torn
    BY <1>4 DEF Goes, TruncateCodes, Create, TruncateSentinel, TruncateTmp, WriteTmp, disk, Types
  <2>2. Torn \notin Config
    BY HomeConstants
  <2> QED BY <1>1, <1>2, <2>1, <2>2, CarryFrame DEF CarryInv, Carries
<1> QED BY <1>3, <1>4

LEMMA CompletesCarry ==
  ASSUME Types, CarryInv, NEW p \in Terminal, Completes(p)
  PROVE  CarryInv'
<1> DEFINE w == work[p]
<1>1. Only(p) /\ rebound \subseteq rebound'
  BY CompletesOn DEF Completes, WriteCodes, WriteSentinel, Show, RenameCodes, RenameConfig, ghosts
<1>2. CASE RenameConfig(p)
  <2>1. w.at = "rename-config" /\ SaveHome(p) \in Home
    BY <1>2, Saving DEF RenameConfig
  <2>2. work'[p] = Idle
    BY <2>1, CompletesOn, FollowingIs
  <2>3. CarriesJob(work[p])'
    BY <2>2 DEF CarriesJob, Idle
  <2>4. \A h \in Home : /\ config'[h] = config[h] \/ config'[h] = configTmp[h]
                        /\ configTmp'[h] = configTmp[h] \/ configTmp'[h] = Absent
    BY <1>2, <2>1 DEF RenameConfig, Types
  <2>5. Absent \notin Config
    BY HomeConstants
  <2> QED BY <1>1, <2>3, <2>4, <2>5, CarryFrame DEF CarryInv, Carries
<1>3. CASE ~RenameConfig(p)
  <2>1. config' = config /\ configTmp' = configTmp /\ w.at \in {"write-codes", "write-sentinel", "show", "rename-codes"}
    BY <1>3 DEF Completes, WriteCodes, WriteSentinel, Show, RenameCodes, disk
  <2>2. CASE work'[p] = Idle
    BY <1>1, <2>1, <2>2, CarryFrame DEF CarryInv, Carries, CarriesJob, Idle
  <2>3. CASE work'[p] # Idle /\ w.op # "rebind"
    <3>1. CarriesJob(work[p])'
      BY <1>1, <2>3, CompletesOn, SameJobCarries DEF CarryInv
    <3> QED BY <1>1, <2>1, <3>1, CarryFrame DEF CarryInv, Carries
  <2>4. CASE work'[p] # Idle /\ w.op = "rebind"
    <3>1. w.at = "rename-codes"
      BY <2>1, <2>4, CompletesOn DEF InStep, InitWork, RebindWork, RegenerateWork, SetWork
    <3>2. w.config.home \in rebound'
      BY <1>3, <2>4, <3>1 DEF Completes, WriteCodes, WriteSentinel, Show, RenameCodes
    <3>3. work'[p].op = "rebind" /\ work'[p].config = w.config /\ w.config.home # Nobody
      BY <2>4, <3>1, CompletesOn DEF SameCommand, CarryInv, CarriesJob
    <3>4. CarriesJob(work[p])'
      BY <3>2, <3>3 DEF CarriesJob
    <3> QED BY <1>1, <2>1, <3>4, CarryFrame DEF CarryInv, Carries
  <2> QED BY <2>2, <2>3, <2>4
<1> QED BY <1>2, <1>3

LEMMA ReadsCarry ==
  ASSUME Types, CarryInv, NEW p \in Terminal, Reads(p)
  PROVE  CarryInv'
<1> DEFINE w == work[p]
<1>1. UNCHANGED <<config, configTmp, rebound>>
  BY DEF Reads, UnlockNew, ReadCodes, LoadForRebind, LoadForUpdate, disk, ghosts
<1>2. CASE UnlockNew(p)
  BY <1>1, <1>2, UnlockReads, QuietCarry DEF CarriesJob, SameCommand
<1>3. CASE ReadCodes(p)
  BY <1>1, <1>3, CodesRead, QuietCarry DEF CarriesJob, SameCommand, RebindWork
<1>4. CASE LoadForRebind(p)
  <2> DEFINE c == Loaded(work'[p].to)
  <2>1. c \in Config /\ work'[p].config = [c EXCEPT !.home = w.to]
    BY <1>4, RebindLoads
  <2> HIDE DEF c
  <2>2. work'[p].config.home = w.to
    BY <2>1 DEF Config
  <2>3. w.to \in Home /\ work'[p].op = "rebind" /\ work'[p].at = "codes"
    BY <1>4, RebindLoads DEF RebindWork, SameCommand
  <2>4. CarriesJob(work[p])'
    BY <2>2, <2>3, HomeConstants DEF CarriesJob
  <2> QED BY <1>1, <1>4, <2>4, RebindLoads, QuietCarry
<1>5. CASE LoadForUpdate(p)
  <2>1. w.home \in Home /\ work'[p].op = "set" /\ Loaded(w.home) \in Config
    BY <1>5, UpdateLoads DEF SetWork, SameCommand
  <2>2. work'[p].config.home = Loaded(w.home).home /\ work'[p].config.line = Loaded(w.home).line
    BY <1>5, <2>1, UpdateLoads DEF Config
  <2>3. CarriesJob(work[p])'
    BY <1>1, <2>1, <2>2 DEF CarriesJob, CarryInv, Carries, Loaded, DefaultConfig
  <2> QED BY <1>1, <1>5, <2>3, UpdateLoads, QuietCarry
<1> QED BY <1>2, <1>3, <1>4, <1>5 DEF Reads

LEMMA NextCarry == Types /\ CarryInv /\ [Next]_vars => CarryInv'
<1> SUFFICES ASSUME Types, CarryInv, [Next]_vars PROVE CarryInv'
  OBVIOUS
<1>1. ASSUME NEW p \in Terminal, Command(p) PROVE CarryInv'
  <2>1. CarriesJob(work[p])'
    BY <1>1, CommandBegins DEF CarriesJob, DefaultConfig
  <2> QED BY <1>1, <2>1, CommandBegins, QuietCarry DEF disk
<1>2. ASSUME NEW p \in Terminal, Fail(p) PROVE CarryInv'
  <2>1. CarriesJob(work[p])'
    BY <1>2, FailsIdle DEF CarriesJob, Idle
  <2> QED BY <1>2, <2>1, FailsIdle, QuietCarry DEF Fail, disk
<1>3. ASSUME ByHand PROVE CarryInv'
  <2>1. CASE \E h, n \in Home : Copy(h, n)
    BY <2>1 DEF Copy, Types, CarryInv, Carries, CarriesJob
  <2>2. CASE \E h \in Home, f \in Field : EditConfig(h, f)
    <3> PICK h \in Home, f \in Field : EditConfig(h, f)
      BY <2>2
    <3>1. config[h] \in Config
      BY DEF EditConfig, Types, Readable
    <3>2. /\ config'[h].home = config[h].home /\ config'[h].line = config[h].line
          /\ \A g \in Home \ {h} : config'[g] = config[g]
      BY <3>1 DEF EditConfig, Types, Config
    <3>3. UNCHANGED <<configTmp, work, rebound>>
      BY DEF EditConfig, ghosts
    <3>4. \A g \in Home : Carries(config[g])'
      BY <3>1, <3>2, <3>3 DEF CarryInv, Carries
    <3> QED BY <3>3, <3>4 DEF CarryInv, Carries, CarriesJob
  <2>3. CASE \E h \in Home : MoveAside(h)
    <3>1. Absent \notin Config
      BY HomeConstants
    <3> QED BY <2>3, <3>1 DEF MoveAside, CarryInv, Carries, CarriesJob, Types
  <2> QED BY <1>3, <2>1, <2>2, <2>3 DEF ByHand
<1>4. UNCHANGED vars => CarryInv'
  BY DEF vars, disk, ghosts, CarryInv, Carries, CarriesJob
<1> QED BY <1>1, <1>2, <1>3, <1>4, GoesCarry, CompletesCarry, ReadsCarry, StepKinds DEF Next

LEMMA InitCarry == Init => CarryInv
<1> SUFFICES ASSUME Init PROVE CarryInv
  OBVIOUS
<1>1. DefaultConfig \in Config
  BY DEF DefaultConfig, Config, Default
<1>2. \A h \in Home : LET s == Saved(DefaultConfig, 0, h) IN s.home = h /\ s.line = h /\ h # Nobody
  BY <1>1, SavedIs, HomeConstants DEF DefaultConfig
<1>3. Absent \notin Config
  BY HomeConstants
<1>4. \A h \in Home : Carries(config[h]) /\ Carries(configTmp[h])
  BY <1>2, <1>3 DEF Init, Carries
<1> QED BY <1>4 DEF Init, CarryInv, CarriesJob, Idle

LEMMA ByCodeOnly == Types /\ CarryInv => CarriedOnlyByCode
BY HomeConstants DEF Types, CarryInv, Carries, CarriedOnlyByCode, Verified, HomeMatches, Readable
------------------------------------------------------------------------------
(* Settings are what the complete commands left.                           *)

(* A command that is at work on the configuration of t alone changes it, and *)
(* no other command reads it.                                              *)
LEMMA SettingsFrame ==
  ASSUME Types, Crowded, SettingsInv, NEW p \in Terminal, Only(p), crowd \subseteq crowd', NEW t \in Home,
         HasConfig(work[p], t), <<"config", t>> \notin crowd => ConfigFile(t)',
         \A h \in Home \ {t} : config'[h] = config[h] /\ configTmp'[h] = configTmp[h] /\ wanted'[h] = wanted[h],
         \A h \in Home : <<"config", h>> \notin crowd => ConfigJob(work[p], h)'
  PROVE  SettingsInv'
<1> SUFFICES ASSUME NEW h \in Home, <<"config", h>> \notin crowd
             PROVE  ConfigFile(h)' /\ \A q \in Terminal \ {p} : ConfigJob(work[q], h)'
  BY DEF SettingsInv
<1>1. ConfigFile(h)'
  BY DEF SettingsInv, ConfigFile
<1>2. ASSUME NEW q \in Terminal \ {p} PROVE ConfigJob(work[q], h)'
  <2>1. work'[q] = work[q] /\ ConfigJob(work[q], h)
    BY DEF Only, SettingsInv
  <2>2. CASE h # t
    BY <2>1, <2>2 DEF ConfigJob, Target
  <2>3. CASE h = t
    <3>1. ~HasConfig(work[q], t)
      BY <2>3 DEF Crowded, Has
    <3>2. work[q] # Idle /\ Target(work[q]) = t => work[q].op = "regenerate"
      BY <3>1 DEF HasConfig, Target, Types, IsWork, InStep, InitWork, RebindWork, RegenerateWork, SetWork
    <3>3. work[q] # Idle /\ work[q].op = "regenerate" => work[q].at # "rename-config"
      BY DEF Types, IsWork, InStep, InitWork, RebindWork, RegenerateWork, SetWork
    <3> QED BY <2>1, <2>3, <3>2, <3>3 DEF ConfigJob, Target
  <2> QED BY <2>2, <2>3
<1> QED BY <1>1, <1>2

LEMMA QuietSettings ==
  ASSUME SettingsInv, NEW p \in Terminal, Only(p), crowd \subseteq crowd', UNCHANGED <<config, configTmp, wanted>>,
         \A h \in Home : <<"config", h>> \notin crowd => ConfigJob(work[p], h)'
  PROVE  SettingsInv'
<1>1. \A h \in Home : <<"config", h>> \notin crowd =>
        ConfigFile(h)' /\ \A q \in Terminal \ {p} : ConfigJob(work[q], h)'
  BY DEF SettingsInv, ConfigFile, ConfigJob, Target, Only
<1> QED BY <1>1 DEF SettingsInv

LEMMA GoesSettings ==
  ASSUME Types, Crowded, SettingsInv, NEW p \in Terminal, Goes(p)
  PROVE  SettingsInv'
<1> DEFINE w == work[p]
<1>1. Only(p) /\ crowd' = crowd /\ wanted' = wanted /\ config' = config
  BY GoesOn DEF Goes, TruncateCodes, Create, TruncateSentinel, TruncateTmp, WriteTmp, ghosts, disk
<1>2. /\ work'[p].op = w.op /\ w # Idle /\ Target(work'[p]) = Target(w)
      /\ w.op = "set" => work'[p].field = w.field /\ work'[p].on = w.on
      /\ w.op \in {"rebind", "set"} => work'[p].config = w.config
      /\ work'[p].at \in AtSaving <=> w.at \in AtSaving
      /\ w.op = "rebind" => w.at \in AtCodes \cup AtSaving
  BY GoesOn DEF SameCommand, Target, Idle, InStep, InitWork, RebindWork, RegenerateWork, SetWork
<1>3. CASE w.at \notin AtSaving
  <2>1. configTmp' = configTmp
    BY <1>3 DEF Goes, TruncateCodes, Create, TruncateSentinel, TruncateTmp, WriteTmp, disk
  <2>2. \A h \in Home : ConfigJob(w, h) => ConfigJob(work[p], h)'
    BY <1>1, <1>2, <1>3, <2>1 DEF ConfigJob
  <2> QED BY <1>1, <2>1, <2>2, QuietSettings DEF SettingsInv
<1>4. CASE w.at \in AtSaving
  <2> PICK t \in Home : t = SaveHome(p)
    BY <1>4, Saving
  <2>1. /\ SaveHome(p) = t /\ Target(w) = t /\ HasConfig(w, t) /\ w.config \in Config /\ w.key \in Nat
        /\ w.op \in {"init", "set", "rebind"} /\ (w.op = "init" => w.config = DefaultConfig)
    BY <1>4, Saving
  <2>2. \A h \in Home \ {t} : configTmp'[h] = configTmp[h]
    BY <1>4, <2>1 DEF Goes, TruncateCodes, Create, TruncateSentinel, TruncateTmp, WriteTmp, disk, Types
  <2>3. ConfigFile(t) => ConfigFile(t)'
    BY <1>1 DEF ConfigFile
  <2>4. work'[p].at = "rename-config" => configTmp'[t] \notin {Absent, Torn} /\ configTmp'[t].set = work'[p].config.set
    <3> SUFFICES ASSUME work'[p].at = "rename-config"
                 PROVE  configTmp'[t] \notin {Absent, Torn} /\ configTmp'[t].set = work'[p].config.set
      OBVIOUS
    <3>1. WriteTmp(p) /\ w.at = "write-config-tmp"
      BY <1>4, <1>2, GoneAt DEF Goes, TruncateCodes, Create, TruncateSentinel, TruncateTmp, WriteTmp
    <3>2. configTmp'[t] = Saved(w.config, w.key, t)
      BY <2>1, <3>1 DEF WriteTmp, Types
    <3>3. configTmp'[t] \in Config /\ configTmp'[t].set = w.config.set
      BY <2>1, <3>2, SavedIs
    <3>4. work'[p].config = w.config
      <4>1. CASE w.op = "init"
        <5>1. w \in InitWork /\ work'[p] = [w EXCEPT !.at = work'[p].at]
          BY <4>1, GoesOn DEF InStep, RebindWork, RegenerateWork, SetWork
        <5> QED BY <5>1 DEF InitWork
      <4> QED BY <1>2, <2>1, <4>1
    <3> QED BY <3>3, <3>4, HomeConstants
  <2>5. \A h \in Home : ConfigJob(w, h) => ConfigJob(work[p], h)'
    BY <1>1, <1>2, <1>4, <2>1, <2>4 DEF ConfigJob
  <2> QED BY <1>1, <2>1, <2>2, <2>3, <2>5, SettingsFrame DEF SettingsInv
<1> QED BY <1>3, <1>4

LEMMA CompletesSettings ==
  ASSUME Types, Crowded, SettingsInv, NEW p \in Terminal, Completes(p)
  PROVE  SettingsInv'
<1> DEFINE w == work[p]
<1>1. Only(p) /\ crowd' = crowd
  BY CompletesOn DEF Completes, WriteCodes, WriteSentinel, Show, RenameCodes, RenameConfig, ghosts
<1>2. CASE RenameConfig(p)
  <2>1. w.at = "rename-config"
    BY <1>2 DEF RenameConfig
  <2>2. work'[p] = Idle
    BY <2>1, CompletesOn, FollowingIs
  <2> PICK t \in Home : t = SaveHome(p)
    BY <2>1, Saving
  <2>3. /\ SaveHome(p) = t /\ Target(w) = t /\ HasConfig(w, t) /\ w # Idle
        /\ w.op \in {"init", "set", "rebind"} /\ (w.op = "init" => w.config = DefaultConfig)
    BY <2>1, Saving DEF Idle
  <2>4. /\ config'[t] = configTmp[t]
        /\ wanted'[t] = IF w.op = "set" THEN [wanted[t] EXCEPT ![w.field] = w.on]
                        ELSE IF w.op = "init" THEN Default ELSE wanted[t]
        /\ \A h \in Home \ {t} : config'[h] = config[h] /\ configTmp'[h] = configTmp[h] /\ wanted'[h] = wanted[h]
    BY <1>2, <2>3 DEF RenameConfig, Types
  <2>5. <<"config", t>> \notin crowd => ConfigJob(w, t)
    BY <2>3 DEF SettingsInv
  <2>6. ASSUME <<"config", t>> \notin crowd PROVE ConfigFile(t)'
    <3>1. configTmp[t] \notin {Absent, Torn} /\ configTmp[t].set = w.config.set
      BY <2>1, <2>3, <2>5, <2>6 DEF ConfigJob
    <3>2. w.config.set = wanted'[t]
      BY <2>1, <2>3, <2>4, <2>5, <2>6 DEF ConfigJob, DefaultConfig
    <3> QED BY <2>4, <3>1, <3>2 DEF ConfigFile
  <2>7. \A h \in Home : ConfigJob(work[p], h)'
    BY <2>2 DEF ConfigJob, Idle
  <2> QED BY <1>1, <2>3, <2>4, <2>6, <2>7, SettingsFrame
<1>3. CASE ~RenameConfig(p)
  <2>1. /\ config' = config /\ configTmp' = configTmp /\ wanted' = wanted
        /\ w.at \in {"write-codes", "write-sentinel", "show", "rename-codes"}
    BY <1>3 DEF Completes, WriteCodes, WriteSentinel, Show, RenameCodes, disk, ghosts
  <2>2. CASE work'[p] = Idle
    <3>1. \A h \in Home : ConfigJob(work[p], h)'
      BY <2>2 DEF ConfigJob
    <3> QED BY <1>1, <2>1, <3>1, QuietSettings
  <2>3. CASE work'[p] # Idle
    <3>1. /\ work'[p].op = w.op /\ w # Idle /\ Target(work'[p]) = Target(w)
          /\ w.op \in {"rebind", "set"} => work'[p].config = w.config
          /\ w.op # "set" /\ (w.op = "rebind" => w.at \in AtCodes)
      BY <2>1, <2>3, CompletesOn DEF SameCommand, Target, Idle, InStep, InitWork, RebindWork, RegenerateWork, SetWork
    <3>2. work'[p].at # "rename-config"
      <4>1. InStep(w) /\ work'[p] = Following(w)
        BY CompletesOn
      <4>2. \E at \in {"sentinel", "unlock", "config", "show"} : \E todo : work'[p] = [w EXCEPT !.at = at, !.todo = todo]
        BY <2>1, <2>3, <4>1, FollowingIs DEF InStep, InitWork, RebindWork, RegenerateWork, SetWork
      <4>3. {"at", "todo"} \subseteq DOMAIN w
        BY <4>1 DEF InStep, InitWork, RebindWork, RegenerateWork, SetWork
      <4> QED BY <4>2, <4>3
    <3>3. \A h \in Home : ConfigJob(w, h) => ConfigJob(work[p], h)'
      BY <2>1, <3>1, <3>2 DEF ConfigJob
    <3> QED BY <1>1, <2>1, <3>3, QuietSettings DEF SettingsInv
  <2> QED BY <2>2, <2>3
<1> QED BY <1>2, <1>3

LEMMA ReadsSettings ==
  ASSUME Types, Crowded, SettingsInv, NEW p \in Terminal, Reads(p)
  PROVE  SettingsInv'
<1> DEFINE w == work[p]
<1>1. UNCHANGED <<config, configTmp, wanted, crowd>>
  BY DEF Reads, UnlockNew, ReadCodes, LoadForRebind, LoadForUpdate, disk, ghosts
<1>2. ASSUME NEW h \in Home, <<"config", h>> \notin crowd, Loaded(h) \in Config,
             config[h] # Absent => config[h] \in Config /\ config[h].key \in Nat
      PROVE  Loaded(h).set = wanted[h]
  <2>1. ConfigFile(h)
    BY <1>2 DEF SettingsInv
  <2> QED BY <1>2, <2>1, HomeConstants DEF ConfigFile, Loaded, DefaultConfig
<1>3. CASE UnlockNew(p)
  BY <1>1, <1>3, UnlockReads, QuietSettings DEF ConfigJob, SameCommand
<1>4. CASE ReadCodes(p)
  BY <1>1, <1>4, CodesRead, QuietSettings DEF ConfigJob, SameCommand, RebindWork
<1>5. CASE LoadForRebind(p)
  <2> PICK t : t = work'[p].to
    OBVIOUS
  <2>1. /\ Loaded(t) \in Config /\ work'[p].config = [Loaded(t) EXCEPT !.home = w.to]
        /\ config[t] # Absent => config[t] \in Config /\ config[t].key \in Nat
        /\ work'[p].op = "rebind" /\ work'[p].at = "codes" /\ t \in Home
    BY <1>5, RebindLoads DEF SameCommand, RebindWork
  <2>2. work'[p].config.set = Loaded(t).set
    BY <2>1 DEF Config
  <2>3. <<"config", t>> \notin crowd => work'[p].config.set = wanted[t]
    BY <1>2, <2>1, <2>2
  <2>4. \A h \in Home : <<"config", h>> \notin crowd => ConfigJob(work[p], h)'
    BY <1>1, <2>1, <2>3 DEF ConfigJob, Target
  <2> QED BY <1>1, <1>5, <2>4, RebindLoads, QuietSettings
<1>6. CASE LoadForUpdate(p)
  <2> PICK t : t = w.home
    OBVIOUS
  <2>1. /\ Loaded(t) \in Config /\ work'[p].config = [Loaded(t) EXCEPT !.set[w.field] = w.on]
        /\ config[t] # Absent => config[t] \in Config /\ config[t].key \in Nat
        /\ work'[p].op = "set" /\ work'[p].at = "config" /\ t \in Home /\ work'[p].home = t
        /\ work'[p].field = w.field /\ work'[p].on = w.on
    BY <1>6, UpdateLoads DEF SameCommand, SetWork
  <2>2. work'[p].config.set = [Loaded(t).set EXCEPT ![w.field] = w.on]
    BY <2>1 DEF Config
  <2>3. <<"config", t>> \notin crowd => work'[p].config.set = [wanted[t] EXCEPT ![w.field] = w.on]
    BY <1>2, <2>1, <2>2
  <2>4. \A h \in Home : <<"config", h>> \notin crowd => ConfigJob(work[p], h)'
    BY <1>1, <2>1, <2>3 DEF ConfigJob, Target
  <2> QED BY <1>1, <1>6, <2>4, UpdateLoads, QuietSettings
<1> QED BY <1>3, <1>4, <1>5, <1>6 DEF Reads

LEMMA OwnerSettings ==
  ASSUME Types, Crowded, SettingsInv, ByHand
  PROVE  SettingsInv'
<1>1. CASE \E h, n \in Home : Copy(h, n)
  <2> PICK h \in Home, n \in Home : Copy(h, n)
    BY <1>1
  <2>1. \A p \in Terminal, g \in Home : ConfigJob(work[p], g)'
    BY DEF Copy, ConfigJob
  <2>2. /\ config'[n] = config[h] /\ wanted'[n] = wanted[h]
        /\ \A g \in Home \ {n} : config'[g] = config[g] /\ wanted'[g] = wanted[g]
    BY DEF Copy, Types
  <2>3. /\ <<"config", n>> \notin crowd' => <<"config", h>> \notin crowd
        /\ \A g \in Home \ {n} : <<"config", g>> \notin crowd' => <<"config", g>> \notin crowd
    BY DEF Copy
  <2>4. \A g \in Home : <<"config", g>> \notin crowd' => ConfigFile(g)'
    BY <2>2, <2>3 DEF SettingsInv, ConfigFile
  <2> QED BY <2>1, <2>4 DEF SettingsInv
<1>2. CASE \E h \in Home, f \in Field : EditConfig(h, f)
  <2> PICK h \in Home, f \in Field : EditConfig(h, f)
    BY <1>2
  <2>1. config[h] \in Config
    BY DEF EditConfig, Types, Readable
  <2>2. /\ config'[h] \in Config /\ config'[h].key = Nobody
        /\ \A g \in Home \ {h} : config'[g] = config[g]
    BY <2>1 DEF EditConfig, Types, Config
  <2>3. UNCHANGED <<configTmp, work, wanted, crowd>>
    BY DEF EditConfig, ghosts
  <2>4. \A g \in Home : <<"config", g>> \notin crowd => ConfigFile(g)'
    BY <2>2, <2>3, HomeConstants DEF SettingsInv, ConfigFile
  <2> QED BY <2>3, <2>4 DEF SettingsInv, ConfigJob, Target
<1>3. CASE \E h \in Home : MoveAside(h)
  <2> PICK h \in Home : MoveAside(h)
    BY <1>3
  <2>1. /\ config'[h] = Absent /\ wanted'[h] = Default
        /\ \A g \in Home \ {h} : config'[g] = config[g] /\ wanted'[g] = wanted[g]
        /\ UNCHANGED <<configTmp, work>> /\ crowd \subseteq crowd'
    BY DEF MoveAside, Types
  <2>2. ASSUME <<"config", h>> \notin crowd', NEW p \in Terminal PROVE ConfigJob(work[p], h)'
    <3>1. <<"config", h>> \notin Held(work[p])
      BY <2>2 DEF MoveAside
    <3>2. ~HasConfig(work[p], h)
      BY <3>1, HeldIs DEF Has, Types, IsWork
    <3>3. work[p] # Idle /\ Target(work[p]) = h => work[p].op = "regenerate" /\ work[p].at # "rename-config"
      BY <3>2 DEF HasConfig, Target, Types, IsWork, InStep, InitWork, RebindWork, RegenerateWork, SetWork
    <3> QED BY <2>1, <3>3 DEF ConfigJob, Target
  <2>3. ConfigFile(h)'
    BY <2>1, HomeConstants DEF ConfigFile
  <2>4. ASSUME NEW g \in Home \ {h}, <<"config", g>> \notin crowd'
        PROVE  ConfigFile(g)' /\ \A p \in Terminal : ConfigJob(work[p], g)'
    BY <2>1, <2>4 DEF SettingsInv, ConfigFile, ConfigJob, Target
  <2> QED BY <2>2, <2>3, <2>4 DEF SettingsInv
<1> QED BY <1>1, <1>2, <1>3 DEF ByHand

LEMMA NextSettings == Types /\ Crowded /\ SettingsInv /\ [Next]_vars => SettingsInv'
<1> SUFFICES ASSUME Types, Crowded, SettingsInv, [Next]_vars PROVE SettingsInv'
  OBVIOUS
<1>1. ASSUME NEW p \in Terminal, Command(p) PROVE SettingsInv'
  <2>1. \A h \in Home : ConfigJob(work[p], h)'
    BY <1>1, CommandBegins DEF ConfigJob
  <2> QED BY <1>1, <2>1, CommandBegins, QuietSettings DEF disk
<1>2. ASSUME NEW p \in Terminal, Fail(p) PROVE SettingsInv'
  <2>1. \A h \in Home : ConfigJob(work[p], h)'
    BY <1>2, FailsIdle DEF ConfigJob
  <2> QED BY <1>2, <2>1, FailsIdle, QuietSettings DEF Fail, disk
<1>3. UNCHANGED vars => SettingsInv'
  BY DEF vars, disk, ghosts, SettingsInv, ConfigFile, ConfigJob, Target
<1> QED BY <1>1, <1>2, <1>3, GoesSettings, CompletesSettings, ReadsSettings, OwnerSettings, StepKinds DEF Next

LEMMA InitSettings == Init => SettingsInv
<1> SUFFICES ASSUME Init PROVE SettingsInv
  OBVIOUS
<1>1. DefaultConfig \in Config
  BY DEF DefaultConfig, Config, Default
<1>2. \A h \in Home : LET s == Saved(DefaultConfig, 0, h) IN s \in Config /\ s.set = Default
  BY <1>1, SavedIs DEF DefaultConfig
<1>3. \A h \in Home : ConfigFile(h)
  BY <1>2, HomeConstants DEF Init, ConfigFile
<1> QED BY <1>3 DEF Init, SettingsInv, ConfigJob

LEMMA Kept == Types /\ SettingsInv => SettingsKept
<1> SUFFICES ASSUME Types, SettingsInv, NEW h \in Home, Readable(sentinel[h]), Verified(config[h], sentinel[h]),
                    <<"config", h>> \notin crowd
             PROVE  config[h].set = wanted[h]
  BY DEF SettingsKept
<1>1. config[h] # Absent /\ config[h].key # Nobody
  BY HomeConstants DEF Types, Readable, Verified
<1> QED BY <1>1 DEF SettingsInv, ConfigFile
------------------------------------------------------------------------------
(* A vault has codes that its owner knows, and a code pays for one move.   *)

LEMMA NextDistinct == Types /\ Distinct /\ [Next]_vars => Distinct'
<1> SUFFICES ASSUME Types, Distinct, [Next]_vars PROVE Distinct'
  OBVIOUS
<1>1. ASSUME NEW p \in Terminal, Command(p) PROVE Distinct'
  <2>1. Only(p) /\ (work'[p].op \in Making => work'[p].codes.gen = commands + 1)
    BY <1>1, CommandBegins DEF Making
  <2>2. \A q \in Terminal : work[q].op \in Making => work[q].codes.gen \in Nat /\ work[q].codes.gen <= commands
    BY DEF Types, IsWork, Known, Making, Idle, InStep, InitWork, RebindWork, RegenerateWork, SetWork, RecoveryCodesFile
  <2> QED BY <2>1, <2>2 DEF Distinct, Only, Types
<1>2. ASSUME NEW p \in Terminal, CommandStep(p) PROVE Distinct'
  <2>1. Only(p) /\ (work'[p] = Idle \/ SameCommand(work'[p], work[p]))
    BY <1>2, StepMoves
  <2>2. work'[p].op \in Making => work[p].op \in Making /\ work'[p].codes = work[p].codes
    BY <2>1 DEF SameCommand, Making, Idle
  <2> QED BY <2>1, <2>2 DEF Distinct, Only
<1>3. ByHand \/ UNCHANGED vars => Distinct'
  BY DEF ByHand, Copy, EditConfig, MoveAside, vars, Distinct
<1> QED BY <1>1, <1>2, <1>3 DEF Next

(* What the owner knows stays known while a regenerate goes on, shows its  *)
(* codes, or dies of having placed them.                                   *)
LEMMA KnownStays ==
  ASSUME NEW p \in Terminal, Only(p), shown \subseteq shown', blind \subseteq blind', NEW g, OwnerKnows(g),
         work[p].op = "regenerate" /\ work[p].codes.gen = g
           => g \in shown' \cup blind' \/ (work'[p].op = "regenerate" /\ work'[p].codes.gen = g)
  PROVE  OwnerKnows(g)'
BY DEF OwnerKnows, Only

(* A command that has the codes of t in hand alone changes them, and no    *)
(* other command has read them.                                            *)
LEMMA CodesFrame ==
  ASSUME Types, Crowded, CodesInv, NEW p \in Terminal, Only(p), crowd' = crowd, NEW t \in Home,
         HasCodes(work[p]), work[p].home = t, SameCommand(work'[p], work[p]),
         shown \subseteq shown', blind \subseteq blind',
         work'[p].at \in AtCodes => work[p].at \in AtCodes,
         \A h \in Home \ {t} : codes'[h] = codes[h] /\ codesTmp'[h] = codesTmp[h] /\ sentinel'[h] = sentinel[h],
         \A h \in Home \ {t} : h \in twice' => h \in twice,
         \A h \in Home \ {t} : \A g, s : <<h, g, s>> \in spent' => <<h, g, s>> \in spent,
         <<"codes", t>> \notin crowd /\ Readable(codes'[t]) =>
           \/ Readable(codes[t]) /\ codes'[t].gen = codes[t].gen
           \/ work[p].op \in Making /\ codes'[t].gen = work[p].codes.gen,
         <<"codes", t>> \notin crowd => CodesFile(t)' /\ CodesJob(work[p], t)' /\ NotPlaced(work[p], t)'
  PROVE  \A h \in Home : <<"codes", h>> \notin crowd => CodesKept(h)'
<1> SUFFICES ASSUME NEW h \in Home, <<"codes", h>> \notin crowd PROVE CodesKept(h)'
  OBVIOUS
<1>1. CodesKept(h)
  BY DEF CodesInv
<1>2. CodesFile(h)'
  <2>1. CASE h # t
    <3>1. ASSUME Readable(codes[h]), OwnerKnows(codes[h].gen) PROVE OwnerKnows(codes[h].gen)'
      <4> PICK g : g = codes[h].gen
        OBVIOUS
      <4>1. OwnerKnows(g)'
        BY <3>1, KnownStays DEF SameCommand, Making
      <4>2. codes'[h].gen = g
        BY <2>1
      <4> QED BY <4>1, <4>2 DEF OwnerKnows
    <3> QED BY <1>1, <2>1, <3>1 DEF CodesKept, CodesFile, Readable
  <2> QED BY <2>1
<1>3. ASSUME NEW q \in Terminal PROVE CodesJob(work[q], h)'
  <2>1. CASE q = p
    BY <2>1 DEF CodesJob, SameCommand
  <2>2. CASE q # p /\ h = t
    <3>1. ~(HasCodes(work[q]) /\ work[q].home = h)
      BY <2>2 DEF Crowded, Has
    <3> QED BY <2>2, <3>1 DEF CodesJob, HasCodes, Only
  <2>3. CASE q # p /\ h # t
    <3>1. work'[q] = work[q] /\ CodesJob(work[q], h)
      BY <1>1, <2>3 DEF Only, CodesKept
    <3> QED BY <2>3, <3>1 DEF CodesJob, HasCodes, Unspent, Unconsumed, Readable, mark_code_consumed
  <2> QED BY <2>1, <2>2, <2>3
<1>4. ASSUME NEW q \in Terminal PROVE NotPlaced(work[q], h)'
  <2>1. NotPlaced(work[q], h)
    BY <1>1 DEF CodesKept
  <2>2. CASE h # t
    BY <2>1, <2>2 DEF NotPlaced, Only, SameCommand, Making, Readable
  <2>3. CASE q = p /\ h = t
    BY <2>3
  <2>4. CASE q # p /\ h = t
    BY <2>1, <2>4 DEF NotPlaced, Only, CodesInv, Distinct, Making
  <2> QED BY <2>2, <2>3, <2>4
<1> QED BY <1>2, <1>3, <1>4 DEF CodesKept

LEMMA QuietCodes ==
  ASSUME CodesInv, NEW p \in Terminal, Only(p), crowd \subseteq crowd', shown \subseteq shown', blind \subseteq blind',
         UNCHANGED <<codes, codesTmp, sentinel, spent, twice>>,
         \A h \in Home : <<"codes", h>> \notin crowd' => CodesJob(work[p], h)' /\ NotPlaced(work[p], h)',
         \A h \in Home : <<"codes", h>> \notin crowd' /\ Readable(codes[h])
           /\ work[p].op = "regenerate" /\ work[p].codes.gen = codes[h].gen =>
             \/ codes[h].gen \in shown' \cup blind'
             \/ work'[p].op = "regenerate" /\ work'[p].codes.gen = codes[h].gen
  PROVE  \A h \in Home : <<"codes", h>> \notin crowd' => CodesKept(h)'
<1> SUFFICES ASSUME NEW h \in Home, <<"codes", h>> \notin crowd' PROVE CodesKept(h)'
  OBVIOUS
<1>1. CodesKept(h)
  BY DEF CodesInv
<1>2. ASSUME Readable(codes[h]), OwnerKnows(codes[h].gen) PROVE OwnerKnows(codes[h].gen)'
  <2> PICK g : g = codes[h].gen
    OBVIOUS
  <2>1. OwnerKnows(g)'
    BY <1>2, KnownStays
  <2> QED BY <2>1 DEF OwnerKnows
<1>3. CodesFile(h)'
  BY <1>1, <1>2 DEF CodesKept, CodesFile, Readable
<1>4. ASSUME NEW q \in Terminal \ {p} PROVE CodesJob(work[q], h)' /\ NotPlaced(work[q], h)'
  <2>1. work'[q] = work[q] /\ CodesJob(work[q], h) /\ NotPlaced(work[q], h)
    BY <1>1 DEF Only, CodesKept
  <2>2. CodesJob(work[q], h)'
    BY <2>1 DEF CodesJob, HasCodes, Unspent, Unconsumed, Readable, mark_code_consumed
  <2>3. NotPlaced(work[q], h)'
    BY <2>1 DEF NotPlaced, Readable
  <2> QED BY <2>2, <2>3
<1> QED BY <1>3, <1>4 DEF CodesKept

(* The vault of an init that has placed its codes knows them.              *)
LEMMA SealedKnows ==
  ASSUME Types, NEW p \in Terminal, work[p].op = "init", work[p].at \in AtSeal, CodesJob(work[p], work[p].home)
  PROVE  LET h == work[p].home
         IN  codes[h] = work[p].codes /\ Readable(codes[h]) /\ codes[h].gen \in shown
<1>1. HasCodes(work[p]) /\ work[p].codes \in RecoveryCodesFile
  BY InHome DEF Codes, RecoveryCodesFile, Types
<1> QED BY <1>1, HomeConstants DEF CodesJob, Readable

LEMMA GoesCodes ==
  ASSUME Types, Crowded, CodesInv, NEW p \in Terminal, Goes(p)
  PROVE  \A h \in Home : <<"codes", h>> \notin crowd => CodesKept(h)'
<1> DEFINE w == work[p]
<1>1. /\ Only(p) /\ UNCHANGED <<crowd, shown, blind, spent, twice>> /\ w # Idle
      /\ InStep(w) /\ SameCommand(work'[p], w) /\ (w.op = "rebind" => work'[p].codes = w.codes)
  <2>1. UNCHANGED <<crowd, shown, blind, spent, twice>>
    BY DEF Goes, TruncateCodes, Create, TruncateSentinel, TruncateTmp, WriteTmp, ghosts
  <2>2. InStep(w) => w # Idle
    BY DEF Idle, InStep, InitWork, RebindWork, RegenerateWork, SetWork
  <2> QED BY <2>1, <2>2, GoesOn
<1>2. CASE w.at \in AtSaving
  <2>1. UNCHANGED <<codes, codesTmp, sentinel>>
    BY <1>2 DEF Goes, TruncateCodes, Create, TruncateSentinel, TruncateTmp, WriteTmp
  <2>2. work'[p].at \in AtSaving /\ w.op # "regenerate"
    BY <1>2, GoesOn DEF InStep, InitWork, RebindWork, RegenerateWork, SetWork
  <2>3. \A h : CodesJob(work[p], h)' /\ NotPlaced(work[p], h)'
    BY <2>2 DEF CodesJob, HasCodes, NotPlaced
  <2> QED BY <1>1, <2>1, <2>2, <2>3, QuietCodes
<1>3. CASE w.at \notin AtSaving
  <2> PICK t \in Home : t = w.home
    BY <1>1 DEF InStep, InitWork, RebindWork, RegenerateWork, SetWork
  <2>1. w.at \in AtCodes \cup AtSeal /\ HasCodes(w) /\ w.codes \in Codes /\ Readable(w.codes)
    <3>1. w.at \in AtCodes \cup AtSeal
      BY <1>3, GoesOn
    <3>2. HasCodes(w) /\ w.codes \in Codes
      BY <3>1, InHome
    <3>3. w.codes \in RecoveryCodesFile
      BY <3>2 DEF Codes, RecoveryCodesFile, Types
    <3> QED BY <3>1, <3>2, <3>3, HomeConstants DEF Readable
  <2>2. \A h \in Home \ {t} : codes'[h] = codes[h] /\ codesTmp'[h] = codesTmp[h] /\ sentinel'[h] = sentinel[h]
    BY <1>3 DEF Goes, TruncateCodes, Create, TruncateSentinel, TruncateTmp, WriteTmp, Types, disk
  <2>3. work'[p].at \in AtCodes => w.at \in AtCodes
    BY GoesOn
  <2>4. ASSUME <<"codes", t>> \notin crowd
        PROVE  /\ CodesFile(t)' /\ CodesJob(work[p], t)' /\ NotPlaced(work[p], t)'
               /\ Readable(codes'[t]) => Readable(codes[t]) /\ codes'[t].gen = codes[t].gen
    <3>1. CodesFile(t) /\ CodesJob(w, t) /\ NotPlaced(w, t)
      BY <2>4 DEF CodesInv, CodesKept
    <3>2. \A g : OwnerKnows(g) => OwnerKnows(g)'
      BY <1>1, KnownStays DEF SameCommand, Making
    <3>3. CASE TruncateCodes(p)
      <4>1. /\ codes'[t] = Torn /\ UNCHANGED <<sentinel, codesTmp>> /\ work'[p].at = "write-codes"
            /\ w.op = "init" /\ w.at = "codes"
        BY <1>1, <3>3, GoneAt DEF TruncateCodes, Types
      <4>2. sentinel[t] = Absent
        BY <2>1, <3>1, <4>1 DEF CodesJob
      <4>3. CodesFile(t)' /\ NotPlaced(work[p], t)'
        BY <1>1, <3>1, <4>1, <4>2 DEF CodesFile, NotPlaced, Readable, SameCommand
      <4>4. CodesJob(work[p], t)'
        BY <1>1, <2>1, <3>1, <4>1, <4>2 DEF CodesJob, SameCommand, Making, Unspent
      <4> QED BY <4>1, <4>3, <4>4 DEF Readable
    <3>4. CASE ~TruncateCodes(p)
      <4>1. codes' = codes
        BY <3>4 DEF Goes, TruncateCodes, Create, TruncateSentinel, TruncateTmp, WriteTmp, disk
      <4>2. CASE w.op = "init"
        <5>1. w.at \in AtSeal /\ work'[p].at \in AtSeal /\ codesTmp' = codesTmp
          BY <1>1, <1>3, <2>1, <3>4, <4>2, GoesOn, InHome
             DEF Goes, TruncateCodes, Create, TruncateSentinel, TruncateTmp, WriteTmp, disk
        <5>2. codes[t] = w.codes /\ codes[t].gen \in shown
          BY <3>1, <4>2, <5>1, SealedKnows
        <5>3. CodesFile(t)'
          BY <1>1, <2>1, <3>1, <4>1, <5>2 DEF CodesFile, OwnerKnows
        <5>4. CodesJob(work[p], t)' /\ NotPlaced(work[p], t)'
          BY <1>1, <2>1, <3>1, <4>1, <4>2, <5>1, <5>2 DEF CodesJob, SameCommand, Making, NotPlaced
        <5> QED BY <4>1, <5>3, <5>4
      <4>3. CASE w.op # "init"
        <5>1. w.at \in AtCodes /\ work'[p].at \in AtCodes /\ w.op \in {"rebind", "regenerate"} /\ sentinel' = sentinel
          BY <1>1, <1>3, <2>1, <4>3, GoesOn, InHome
             DEF Goes, TruncateCodes, Create, TruncateSentinel, TruncateTmp, WriteTmp, disk
        <5>2. CodesFile(t)'
          BY <1>1, <3>1, <3>2, <4>1, <5>1 DEF CodesFile, OwnerKnows, Readable
        <5>3. work'[p].at = "rename-codes" => codesTmp'[t] = w.codes
          BY <1>1, <5>1, GoneAt DEF Goes, TruncateCodes, Create, TruncateSentinel, TruncateTmp, WriteTmp, Types
        <5>4. work'[p].codes = w.codes
          BY <1>1, <5>1 DEF SameCommand, Making
        <5>5. CodesJob(work[p], t)'
          BY <1>1, <2>1, <3>1, <4>1, <4>3, <5>1, <5>3, <5>4
             DEF CodesJob, SameCommand, Making, Unspent, Unconsumed, Readable, mark_code_consumed
        <5>6. NotPlaced(work[p], t)'
          BY <1>1, <3>1, <4>1, <5>1, <5>4 DEF NotPlaced, SameCommand, Readable
        <5> QED BY <4>1, <5>2, <5>5, <5>6
      <4> QED BY <4>2, <4>3
    <3> QED BY <3>3, <3>4
  <2> QED BY <1>1, <2>1, <2>2, <2>3, <2>4, CodesFrame
<1> QED BY <1>2, <1>3

LEMMA CompletesCodes ==
  ASSUME Types, Crowded, CodesInv, NEW p \in Terminal, Completes(p)
  PROVE  \A h \in Home : <<"codes", h>> \notin crowd => CodesKept(h)'
<1> DEFINE w == work[p]
<1>1. /\ Only(p) /\ UNCHANGED <<crowd, blind>> /\ shown \subseteq shown' /\ InStep(w) /\ work'[p] = Following(w)
      /\ w.at \in {"write-codes", "write-sentinel", "show", "rename-codes", "rename-config"}
      /\ w.at \notin {"read-codes", "load-config"}
  BY CompletesOn DEF Completes, WriteCodes, WriteSentinel, Show, RenameCodes, RenameConfig, ghosts
<1>2. CASE Show(p) \/ RenameConfig(p)
  <2>1. work'[p] = Idle /\ UNCHANGED <<codes, codesTmp, sentinel, spent, twice>>
    BY <1>1, <1>2, FollowingIs DEF Show, RenameConfig, disk
  <2>2. w.op = "regenerate" => w.codes.gen \in shown'
    BY <1>1, <1>2 DEF Show, RenameConfig, InStep, InitWork, RebindWork, RegenerateWork, SetWork
  <2>3. \A h : CodesJob(work[p], h)' /\ NotPlaced(work[p], h)'
    BY <2>1 DEF CodesJob, HasCodes, NotPlaced, Idle
  <2> QED BY <1>1, <2>1, <2>2, <2>3, QuietCodes
<1>3. CASE WriteCodes(p) \/ WriteSentinel(p) \/ RenameCodes(p)
  <2> PICK t \in Home : t = w.home
    BY <1>1 DEF InStep, InitWork, RebindWork, RegenerateWork, SetWork
  <2>1. /\ w.at \in AtCodes \cup AtSeal \cup {"write-codes"} /\ HasCodes(w) /\ w.codes \in Codes
        /\ w.op = "init" => w.at \in {"write-codes", "write-sentinel"}
        /\ w.op # "init" => w.at = "rename-codes" /\ w.op \in {"rebind", "regenerate"}
    BY <1>1, <1>3, InHome DEF WriteCodes, WriteSentinel, RenameCodes
  <2>2. Readable(w.codes)
    BY <2>1, HomeConstants DEF Codes, RecoveryCodesFile, Types, Readable
  <2>3. SameCommand(work'[p], w) /\ work'[p] # Idle
    <3>1. work'[p] # Idle
      <4>1. \E at \in {"sentinel", "unlock", "config", "show"} : \E todo : work'[p] = [w EXCEPT !.at = at, !.todo = todo]
        BY <1>1, <2>1, FollowingIs
      <4>2. "at" \in DOMAIN w
        BY <1>1 DEF InStep, InitWork, RebindWork, RegenerateWork, SetWork
      <4>3. work'[p].at \in {"sentinel", "unlock", "config", "show"}
        BY <4>1, <4>2
      <4> QED BY <4>3 DEF Idle
    <3> QED BY <3>1, CompletesOn
  <2>4. /\ w.op = "init" /\ w.at = "write-codes" => work'[p].at = "sentinel"
        /\ w.op = "init" /\ w.at = "write-sentinel" => work'[p].at = "unlock"
        /\ w.op = "rebind" => work'[p].at = "config"
        /\ w.op = "regenerate" => work'[p].at = "show"
    <3>1. {"at", "todo"} \subseteq DOMAIN w
      BY <1>1 DEF InStep, InitWork, RebindWork, RegenerateWork, SetWork
    <3>2. ASSUME NEW at, NEW todo, work'[p] = [w EXCEPT !.at = at, !.todo = todo] PROVE work'[p].at = at
      BY <3>1, <3>2
    <3>3. ASSUME w.op = "init", w.at = "write-codes" PROVE work'[p].at = "sentinel"
      <4>1. work'[p] = [w EXCEPT !.at = "sentinel", !.todo = <<"sentinel", "unlock", "config">>]
        BY <1>1, <3>3, FollowingIs
      <4> QED BY <3>2, <4>1
    <3>4. ASSUME w.op = "init", w.at = "write-sentinel" PROVE work'[p].at = "unlock"
      <4>1. work'[p] = [w EXCEPT !.at = "unlock", !.todo = <<"unlock", "config">>]
        BY <1>1, <3>4, FollowingIs
      <4> QED BY <3>2, <4>1
    <3>5. ASSUME w.op = "rebind" PROVE work'[p].at = "config"
      <4>1. work'[p] = [w EXCEPT !.at = "config", !.todo = <<"config">>]
        BY <1>1, <2>1, <3>5, FollowingIs
      <4> QED BY <3>2, <4>1
    <3>6. ASSUME w.op = "regenerate" PROVE work'[p].at = "show"
      <4>1. work'[p] = [w EXCEPT !.at = "show", !.todo = <<"show">>]
        BY <1>1, <2>1, <3>6, FollowingIs
      <4> QED BY <3>2, <4>1
    <3> QED BY <3>3, <3>4, <3>5, <3>6
  <2>5. /\ \A h \in Home \ {t} : codes'[h] = codes[h] /\ codesTmp'[h] = codesTmp[h] /\ sentinel'[h] = sentinel[h]
        /\ \A h \in Home \ {t} : h \in twice' => h \in twice
        /\ \A h \in Home \ {t} : \A g, s : <<h, g, s>> \in spent' => <<h, g, s>> \in spent
    BY <1>3 DEF WriteCodes, WriteSentinel, RenameCodes, Types, ghosts
  <2>6. work'[p].at \in AtCodes => w.at \in AtCodes
    BY <2>1, <2>4
  <2>7. ASSUME <<"codes", t>> \notin crowd
        PROVE  /\ CodesFile(t)' /\ CodesJob(work[p], t)' /\ NotPlaced(work[p], t)'
               /\ Readable(codes'[t]) => \/ Readable(codes[t]) /\ codes'[t].gen = codes[t].gen
                                         \/ w.op \in Making /\ codes'[t].gen = w.codes.gen
    <3>1. CodesFile(t) /\ CodesJob(w, t) /\ NotPlaced(w, t)
      BY <2>7 DEF CodesInv, CodesKept
    <3>2. NotPlaced(work[p], t)'
      BY <2>1, <2>3, <2>4 DEF NotPlaced, SameCommand
    <3>3. CASE w.op = "init" /\ w.at = "write-codes"
      <4>1. /\ codes'[t] = w.codes /\ UNCHANGED <<sentinel, spent, twice>> /\ w.codes.gen \in shown
            /\ sentinel[t] = Absent /\ Unspent(t, w.codes.gen)
        BY <1>3, <2>1, <3>1, <3>3 DEF WriteCodes, WriteSentinel, RenameCodes, Types, ghosts, CodesJob, Making
      <4>2. CodesFile(t)'
        BY <3>1, <4>1 DEF CodesFile, Unspent
      <4>3. CodesJob(work[p], t)'
        BY <1>1, <2>3, <2>4, <3>3, <4>1 DEF CodesJob, SameCommand, Making
      <4> QED BY <3>2, <3>3, <4>1, <4>2, <4>3 DEF Making
    <3>4. CASE w.op = "init" /\ w.at = "write-sentinel"
      <4>1. codes[t] = w.codes /\ codes[t].gen \in shown /\ UNCHANGED <<codes, spent, twice>>
        BY <1>3, <3>1, <3>4, SealedKnows DEF WriteCodes, WriteSentinel, RenameCodes, ghosts
      <4>2. CodesFile(t)'
        BY <1>1, <2>2, <3>1, <4>1 DEF CodesFile, OwnerKnows
      <4>3. CodesJob(work[p], t)'
        BY <2>3, <2>4, <3>4 DEF CodesJob, HasCodes, SameCommand
      <4> QED BY <3>2, <3>4, <4>1, <4>2, <4>3 DEF Making
    <3>5. CASE w.op = "regenerate"
      <4>1. /\ codes'[t] = w.codes /\ UNCHANGED <<sentinel, spent, twice>> /\ Unspent(t, w.codes.gen)
            /\ work'[p].op = "regenerate" /\ work'[p].codes = w.codes
        BY <1>3, <2>1, <2>3, <3>1, <3>5
           DEF WriteCodes, WriteSentinel, RenameCodes, Types, CodesJob, Making, SameCommand
      <4>2. CodesFile(t)'
        BY <2>2, <3>1, <4>1 DEF CodesFile, OwnerKnows, Unspent
      <4>3. CodesJob(work[p], t)'
        BY <2>3, <2>4, <3>5 DEF CodesJob, HasCodes, SameCommand
      <4> QED BY <3>2, <3>5, <4>1, <4>2, <4>3 DEF Making
    <3>6. CASE w.op = "rebind"
      <4> PICK c : c = codes[t]
        OBVIOUS
      <4>1. /\ Unconsumed(c, w.gen, w.slot) /\ w.codes = mark_code_consumed(c, w.slot) /\ c \in Codes
            /\ codes'[t] = w.codes /\ sentinel' = sentinel
            /\ spent' = spent \cup {<<t, w.gen, w.slot>>}
            /\ twice' = IF <<t, w.gen, w.slot>> \in spent THEN twice \cup {t} ELSE twice
        BY <1>3, <2>1, <3>1, <3>6
           DEF WriteCodes, WriteSentinel, RenameCodes, Types, CodesJob, Making, Unconsumed, Readable
      <4>2. /\ c.gen = w.gen /\ w.slot \notin c.used /\ Readable(c)
            /\ w.codes.gen = c.gen /\ w.codes.used = c.used \cup {w.slot}
        BY <4>1 DEF Unconsumed, mark_code_consumed, Codes
      <4>3. <<t, w.gen, w.slot>> \notin spent
        BY <1>1, <3>1, <3>6, <4>2 DEF CodesFile, InStep, InitWork, RebindWork, RegenerateWork, SetWork
      <4>4. OwnerKnows(c.gen) => OwnerKnows(c.gen)'
        <5> PICK g : g = c.gen
          OBVIOUS
        <5>1. OwnerKnows(g) => OwnerKnows(g)'
          BY <1>1, <3>6, KnownStays
        <5> QED BY <5>1
      <4>5. CodesFile(t)'
        <5>1. sentinel'[t] # Absent => Readable(codes'[t]) /\ OwnerKnows(codes[t].gen)'
          BY <2>2, <3>1, <4>1, <4>2, <4>4 DEF CodesFile, OwnerKnows
        <5>2. \A s \in Slot : <<t, codes'[t].gen, s>> \in spent' => s \in codes'[t].used
          BY <3>1, <4>1, <4>2 DEF CodesFile
        <5> QED BY <3>1, <4>1, <4>3, <5>1, <5>2 DEF CodesFile
      <4>6. CodesJob(work[p], t)'
        BY <2>3, <2>4, <3>6 DEF CodesJob, HasCodes, SameCommand
      <4> QED BY <3>2, <4>1, <4>2, <4>5, <4>6
    <3> QED BY <2>1, <3>3, <3>4, <3>5, <3>6
  <2> QED BY <1>1, <2>1, <2>3, <2>5, <2>6, <2>7, CodesFrame
<1> QED BY <1>2, <1>3 DEF Completes

LEMMA ReadsCodes ==
  ASSUME Types, Crowded, CodesInv, NEW p \in Terminal, Reads(p)
  PROVE  \A h \in Home : <<"codes", h>> \notin crowd => CodesKept(h)'
<1> DEFINE w == work[p]
<1>1. UNCHANGED <<codes, codesTmp, sentinel, spent, twice, shown, blind, crowd>>
  BY DEF Reads, UnlockNew, ReadCodes, LoadForRebind, LoadForUpdate, disk, ghosts
<1>2. \A h \in Home : <<"codes", h>> \notin crowd => CodesFile(h) /\ CodesJob(w, h)
  BY DEF CodesInv, CodesKept
<1>3. CASE UnlockNew(p)
  <2>1. Only(p) /\ w.op = "init" /\ work'[p].op = "init" /\ work'[p].at = "config"
    BY <1>3, UnlockReads DEF SameCommand
  <2>2. \A h : CodesJob(work[p], h)' /\ NotPlaced(work[p], h)'
    BY <2>1 DEF CodesJob, HasCodes, NotPlaced
  <2> QED BY <1>1, <2>1, <2>2, QuietCodes
<1>4. CASE ReadCodes(p)
  <2>1. /\ Only(p) /\ w.op = "rebind" /\ work'[p].op = "rebind" /\ work'[p].at = "load-config"
        /\ work'[p].home = w.home /\ work'[p].gen = w.gen /\ work'[p].slot = w.slot
        /\ work'[p].codes = codes[w.home]
        /\ Unconsumed(codes[w.home], w.gen, w.slot)
    BY <1>4, CodesRead DEF SameCommand, RebindWork, ReadCodes
  <2>2. \A h : CodesJob(work[p], h)' /\ NotPlaced(work[p], h)'
    BY <1>1, <2>1 DEF CodesJob, HasCodes, NotPlaced, Making, Unconsumed, Readable, mark_code_consumed
  <2> QED BY <1>1, <2>1, <2>2, QuietCodes
<1>5. CASE LoadForRebind(p)
  <2>1. /\ Only(p) /\ w.op = "rebind" /\ work'[p].op = "rebind" /\ w.at = "load-config" /\ work'[p].at = "codes"
        /\ work'[p].home = w.home /\ work'[p].gen = w.gen /\ work'[p].slot = w.slot
        /\ work'[p].codes = mark_code_consumed(w.codes, w.slot)
    BY <1>5, RebindLoads DEF SameCommand, RebindWork
  <2>2. \A h \in Home : <<"codes", h>> \notin crowd => CodesJob(work[p], h)' /\ NotPlaced(work[p], h)'
    BY <1>1, <1>2, <2>1 DEF CodesJob, HasCodes, NotPlaced, Making, Unconsumed, Readable, mark_code_consumed
  <2> QED BY <1>1, <2>1, <2>2, QuietCodes
<1>6. CASE LoadForUpdate(p)
  <2>1. Only(p) /\ w.op = "set" /\ work'[p].op = "set"
    BY <1>6, UpdateLoads DEF SameCommand, SetWork
  <2>2. \A h : CodesJob(work[p], h)' /\ NotPlaced(work[p], h)'
    BY <2>1 DEF CodesJob, HasCodes, NotPlaced
  <2> QED BY <1>1, <2>1, <2>2, QuietCodes
<1> QED BY <1>3, <1>4, <1>5, <1>6 DEF Reads

(* A regenerate that dies of placing its codes leaves them to be known as  *)
(* never shown; before, they are nowhere.                                  *)
LEMMA FailCodes ==
  ASSUME Types, Crowded, CodesInv, NEW p \in Terminal, Fail(p)
  PROVE  \A h \in Home : <<"codes", h>> \notin crowd => CodesKept(h)'
<1>1. Only(p) /\ work'[p] = Idle /\ UNCHANGED <<codes, codesTmp, sentinel, spent, twice, shown, crowd>>
      /\ blind \subseteq blind'
  BY FailsIdle DEF Fail, disk
<1>2. \A h : CodesJob(work[p], h)' /\ NotPlaced(work[p], h)'
  BY <1>1 DEF CodesJob, HasCodes, NotPlaced, Idle
<1>3. ASSUME NEW h \in Home, <<"codes", h>> \notin crowd, Readable(codes[h]), work[p].op = "regenerate",
             work[p].codes.gen = codes[h].gen
      PROVE  codes[h].gen \in blind'
  <2>1. work[p].at \notin AtCodes
    BY <1>3 DEF CodesInv, CodesKept, NotPlaced
  <2>2. InStep(work[p])
    BY <1>3 DEF Types, IsWork, Idle
  <2>3. work[p].todo = <<"show">>
    BY <1>3, <2>1, <2>2 DEF InStep, InitWork, RebindWork, RegenerateWork, SetWork
  <2> QED BY <1>3, <2>3, Todo DEF Fail
<1> QED BY <1>1, <1>2, <1>3, QuietCodes

LEMMA BeginCodes ==
  ASSUME Types, Crowded, CodesInv, NEW p \in Terminal, Command(p)
  PROVE  \A h \in Home : <<"codes", h>> \notin crowd' => CodesKept(h)'
<1>1. /\ Only(p) /\ work[p] = Idle /\ UNCHANGED <<codes, codesTmp, sentinel, spent, twice, blind>>
      /\ crowd \subseteq crowd' /\ shown \subseteq shown'
  BY CommandBegins DEF disk
<1>2. ASSUME NEW h \in Home PROVE CodesJob(work[p], h)' /\ NotPlaced(work[p], h)'
  <2>1. Unspent(h, commands + 1)
    BY DEF Unspent, Types
  <2>2. Readable(codes[h]) => codes[h].gen # commands + 1
    BY DEF Types, Codes, Readable
  <2>3. CodesJob(work[p], h)'
    <3>1. CASE work'[p].op = "init" /\ work'[p].at = "codes"
      <4>1. work'[p].codes.gen = commands + 1 /\ commands + 1 \in shown' /\ sentinel[work'[p].home] = Absent
        BY <3>1, CommandBegins
      <4>2. Unspent(h, work[p].codes.gen)'
        BY <1>1, <2>1, <4>1 DEF Unspent
      <4> QED BY <1>1, <3>1, <4>1, <4>2 DEF CodesJob
    <3>2. CASE work'[p].op = "regenerate" /\ work'[p].at = "codes"
      <4>1. Unspent(h, work[p].codes.gen)'
        BY <1>1, <2>1, <3>2, CommandBegins DEF Unspent
      <4> QED BY <3>2, <4>1 DEF CodesJob
    <3>3. CASE work'[p].op = "rebind" /\ work'[p].at = "read-codes"
      BY <3>3 DEF CodesJob, Making
    <3>4. CASE work'[p].op = "set"
      BY <3>4 DEF CodesJob, HasCodes
    <3> QED BY <3>1, <3>2, <3>3, <3>4, CommandBegins
  <2>4. NotPlaced(work[p], h)'
    BY <1>1, <2>2, CommandBegins DEF NotPlaced, Readable
  <2> QED BY <2>3, <2>4
<1> QED BY <1>1, <1>2, QuietCodes DEF Idle

LEMMA OwnerCodes ==
  ASSUME Types, CodesInv, ByHand
  PROVE  \A h \in Home : <<"codes", h>> \notin crowd' => CodesKept(h)'
<1>1. CASE \E h, n \in Home : Copy(h, n)
  <2> PICK h \in Home, n \in Home : Copy(h, n)
    BY <1>1
  <2>1. \A p \in Terminal, g \in Home : CodesJob(work[p], g)' /\ NotPlaced(work[p], g)'
    BY DEF Copy, CodesJob, HasCodes, NotPlaced, Idle
  <2>2. /\ codes'[n] = codes[h] /\ sentinel'[n] = sentinel[h]
        /\ \A g \in Home \ {n} : codes'[g] = codes[g] /\ sentinel'[g] = sentinel[g]
    BY DEF Copy, Types
  <2>3. /\ n \in twice' => h \in twice
        /\ \A g \in Home \ {n} : g \in twice' => g \in twice
        /\ \A k, s : <<n, k, s>> \in spent' => <<h, k, s>> \in spent
        /\ \A g \in Home \ {n} : \A k, s : <<g, k, s>> \in spent' => <<g, k, s>> \in spent
    <3>1. twice' = (twice \ {n}) \cup {x \in {n} : h \in twice}
      BY DEF Copy
    <3>2. spent' = {c \in spent : c[1] # n} \cup {<<n, c[2], c[3]>> : c \in {d \in spent : d[1] = h}}
      BY DEF Copy
    <3>3. \A c \in spent : c = <<c[1], c[2], c[3]>>
      BY DEF Types
    <3>4. ASSUME NEW k, NEW s, <<n, k, s>> \in spent' PROVE <<h, k, s>> \in spent
      <4>1. PICK c \in spent : c[1] = h /\ <<n, c[2], c[3]>> = <<n, k, s>>
        BY <3>2, <3>4
      <4>2. c[2] = k /\ c[3] = s
        BY <4>1
      <4>3. c = <<h, k, s>>
        BY <3>3, <4>1, <4>2
      <4> QED BY <4>3
    <3>5. ASSUME NEW g \in Home \ {n}, NEW k, NEW s, <<g, k, s>> \in spent' PROVE <<g, k, s>> \in spent
      BY <3>2, <3>5
    <3> QED BY <3>1, <3>4, <3>5
  <2>4. /\ <<"codes", n>> \notin crowd' => <<"codes", h>> \notin crowd
        /\ \A g \in Home \ {n} : <<"codes", g>> \notin crowd' => <<"codes", g>> \notin crowd
    BY DEF Copy
  <2>5. UNCHANGED <<shown, blind, work>>
    BY DEF Copy
  <2>6. ASSUME NEW a \in Home, NEW b \in Home, CodesFile(a), codes'[b] = codes[a], sentinel'[b] = sentinel[a],
               b \in twice' => a \in twice, \A k, s : <<b, k, s>> \in spent' => <<a, k, s>> \in spent
        PROVE  CodesFile(b)'
    BY <2>5, <2>6 DEF CodesFile, OwnerKnows, Readable
  <2>7. \A g \in Home : <<"codes", g>> \notin crowd' => CodesFile(g)'
    BY <2>2, <2>3, <2>4, <2>6 DEF CodesInv, CodesKept
  <2> QED BY <2>1, <2>7 DEF CodesKept
<1>2. CASE (\E h \in Home, f \in Field : EditConfig(h, f)) \/ \E h \in Home : MoveAside(h)
  <2>1. UNCHANGED <<codes, codesTmp, sentinel, spent, twice, shown, blind, work>> /\ crowd \subseteq crowd'
    BY <1>2 DEF EditConfig, MoveAside, ghosts
  <2> QED BY <2>1 DEF CodesInv, CodesKept, CodesFile, CodesJob, NotPlaced, OwnerKnows, Readable, Unspent, Unconsumed,
                      HasCodes, mark_code_consumed
<1> QED BY <1>1, <1>2 DEF ByHand

LEMMA NextCodes == Types /\ Crowded /\ CodesInv /\ [Next]_vars => CodesInv'
<1> SUFFICES ASSUME Types, Crowded, CodesInv, [Next]_vars
             PROVE  \A h \in Home : <<"codes", h>> \notin crowd' => CodesKept(h)'
  BY NextDistinct DEF CodesInv
<1>1. ASSUME NEW p \in Terminal, CommandStep(p)
      PROVE  \A h \in Home : <<"codes", h>> \notin crowd' => CodesKept(h)'
  BY <1>1, StepKinds, StepCrowd, GoesCodes, CompletesCodes, ReadsCodes, FailCodes
<1>2. CASE UNCHANGED vars
  BY <1>2 DEF vars, disk, ghosts, CodesInv, CodesKept, CodesFile, CodesJob, NotPlaced, OwnerKnows, Readable, Unspent,
              Unconsumed, HasCodes, mark_code_consumed
<1> QED BY <1>1, <1>2, BeginCodes, OwnerCodes DEF Next

LEMMA InitCodes == Init => CodesInv
<1> SUFFICES ASSUME Init PROVE CodesInv
  OBVIOUS
<1>1. Distinct
  BY DEF Init, Distinct, Idle, Making
<1>2. FreshCodes(0) \notin {Absent, Torn}
  BY HomeConstants DEF FreshCodes, RecoveryCodesFile
<1>3. \A h \in Home : CodesFile(h)
  BY <1>2 DEF Init, CodesFile, OwnerKnows, FreshCodes, Readable
<1>4. \A h \in Home, p \in Terminal : CodesJob(work[p], h) /\ NotPlaced(work[p], h)
  BY DEF Init, Idle, CodesJob, NotPlaced, HasCodes
<1> QED BY <1>1, <1>3, <1>4 DEF CodesInv, CodesKept

LEMMA Honoured == Types /\ CarryInv /\ CodesInv => CodesHonoured
<1> SUFFICES ASSUME Types, CarryInv, CodesInv PROVE CodesHonoured
  OBVIOUS
<1>1. VaultHasItsCodes
  BY DEF CodesInv, CodesKept, CodesFile, OwnerKnows, VaultHasItsCodes
<1>2. CodeSpentOnce
  BY DEF CodesInv, CodesKept, CodesFile, CodeSpentOnce, Types
<1> QED BY <1>1, <1>2, ByCodeOnly DEF CodesHonoured
------------------------------------------------------------------------------
(* The invariant of the whole: what every theorem below rests on.          *)
HomeInv == Types /\ Crowded /\ SettingsInv /\ CodesInv /\ CarryInv

LEMMA AlwaysHomeInv == Spec => []HomeInv
<1>1. Init => HomeInv
  BY InitTypes, InitCrowded, InitSettings, InitCodes, InitCarry DEF HomeInv
<1>2. HomeInv /\ [Next]_vars => HomeInv'
  BY NextTypes, NextCrowded, NextSettings, NextCodes, NextCarry DEF HomeInv
<1> QED BY <1>1, <1>2, PTL DEF Spec

(* The settings that verify are those the complete commands left, unless   *)
(* two commands had the configuration in hand at once: whatever fails or   *)
(* dies on the way, and whatever is edited by hand, copied or moved aside. *)
THEOREM SettingsAreKept == Spec => []SettingsKept
<1>1. HomeInv => SettingsKept
  BY Kept DEF HomeInv
<1> QED BY <1>1, AlwaysHomeInv, PTL

(* A vault has codes that its owner knows, a move of it costs one of them, *)
(* and a code pays for one move: init, rebind-home and recovery-codes      *)
(* regenerate, stopped anywhere.                                           *)
THEOREM CodesAreHonoured == Spec => []CodesHonoured
<1>1. HomeInv => CodesHonoured
  BY Honoured DEF HomeInv
<1> QED BY <1>1, AlwaysHomeInv, PTL
================================================================================
