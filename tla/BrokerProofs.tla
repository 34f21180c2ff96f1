----------------------------- MODULE BrokerProofs -----------------------------
(***************************************************************************)
(* Proofs about the server: about Broker, for every set of profiles,       *)
(* allowlists, requests and configurations and any number of changes made  *)
(* behind its back while it serves a call, and about WorkspaceServer, for  *)
(* every set of workspaces, templates and terminals.                       *)
(***************************************************************************)
EXTENDS Broker, WorkspaceServer, TLAPS

(* An environment that may only tighten never removes a prompt the signed  *)
(* settings ask for (the ratchet of policy.rs).                            *)
THEOREM RatchetKeepsPrompts ==
  ASSUME NEW env \in ModeOrUnset, NEW override \in ModeOrUnset,
         NEW global \in Mode, NEW destructive \in BOOLEAN,
         should_prompt(SignedMode(override, global), destructive)
  PROVE  should_prompt(resolve_mode_ratcheted(env, override, global, FALSE), destructive)
<1> DEFINE m == SignedMode(override, global)
<1>1. m \in Mode
  BY DEF SignedMode, ModeOrUnset
<1>2. CASE EnvWins(env, m, FALSE)
  <2>1. env \in Mode /\ Strictness[env] > Strictness[m]
    BY <1>2 DEF EnvWins, ModeOrUnset
  <2>2. env = "ask" \/ (env = "ask-destructive" /\ m = "silent")
    BY <1>1, <2>1 DEF Mode, Strictness
  <2> QED BY <1>2, <2>2 DEF should_prompt, resolve_mode_ratcheted
<1>3. CASE ~EnvWins(env, m, FALSE)
  BY <1>3 DEF resolve_mode_ratcheted
<1> QED BY <1>2, <1>3

------------------------------------------------------------------------------
(* Types.                                                                  *)

Step == {"off", "idle", "screen", "prepare", "inspect", "quarantine", "check", "judge",
         "lookup", "ask", "quota", "resolve", "consume", "run", "respond"}

JobFields == {"call", "known", "value", "read", "meta", "text", "secret", "event", "out",
              "answer", "changed", "healthy"}

IsMeta(m) == DOMAIN m = {"hmac", "quarantined"} /\ m.hmac \in Text

IsJob(j) ==
  /\ DOMAIN j = JobFields
  /\ j.call \in Call \cup {NoCall}
  /\ j.known \in Nat /\ j.value \in Nat /\ j.out \in Nat
  /\ j.read \in Text /\ j.text \in Text /\ IsMeta(j.meta)

IsCli(c) ==
  \/ c = NoCli
  \/ /\ c.step = "load"
     /\ c.text \in Policy /\ c.text.of \in Profile
  \/ /\ c.step = "save"
     /\ c.text \in Policy /\ c.text.of \in Profile /\ IsMeta(c.meta)

DiskTypes ==
  /\ now \in Nat /\ vars \in Nat
  /\ yaml \in [Profile -> Text] /\ signed \in [Profile -> SUBSET Policy]
  /\ DOMAIN meta = Profile /\ \A p \in Profile : IsMeta(meta[p])
  /\ IsCli(cli)

MemoryTypes ==
  /\ vault \in {"Locked", "LockedPendingUnlock", "Unlocked"}
  /\ writer \in {"none", "up", "failed"}
  /\ cache \in [CacheKey -> Nat] /\ granted \in [CacheKey -> Int]
  /\ used \in [Profile -> Nat] /\ exposed \in [Profile -> Nat]

(* A request is being served exactly while the server is between steps.    *)
CallTypes ==
  /\ pc \in Step /\ IsJob(job)
  /\ pc \notin {"off", "idle"} => job.call \in Call

BrokerTypes == DiskTypes /\ MemoryTypes /\ CallTypes

(* Changing one field of a job leaves the others alone.                    *)
LEMMA JobExcept ==
  ASSUME NEW j, DOMAIN j = JobFields, NEW f \in JobFields, NEW v
  PROVE  /\ DOMAIN [j EXCEPT ![f] = v] = JobFields
         /\ [j EXCEPT ![f] = v][f] = v
         /\ \A g \in JobFields \ {f} : [j EXCEPT ![f] = v][g] = j[g]
OBVIOUS

(* The fields of a job at the start of a call.                             *)
LEMMA NoJobFields ==
  /\ IsJob(NoJob)
  /\ NoJob.call = NoCall /\ NoJob.known = 0 /\ NoJob.value = 0 /\ NoJob.out = 0
  /\ NoJob.event = "none" /\ NoJob.answer = "none"
  /\ NoJob.changed = FALSE /\ NoJob.healthy = FALSE
<1>1. DOMAIN NoJob = JobFields
  BY DEF NoJob, JobFields
<1> QED
  BY <1>1 DEF NoJob, IsJob, IsMeta, Text

(* What is left of a job when its call is over.                            *)
LEMMA AnswerFields ==
  ASSUME IsJob(job), NEW why, NEW out \in Nat, Answer(why, out)
  PROVE  /\ pc' = "respond" /\ IsJob(job')
         /\ job'.call = job.call /\ job'.known = job.known
         /\ job'.value = 0 /\ job'.out = out /\ job'.answer = why
         /\ job'.changed = job.changed /\ job'.healthy = job.healthy
<1>1. job' = [call |-> job.call, known |-> job.known, value |-> 0, read |-> NoPolicy,
              meta |-> [hmac |-> NoPolicy, quarantined |-> FALSE],
              text |-> NoPolicy, secret |-> FALSE, event |-> "none", out |-> out,
              answer |-> why, changed |-> job.changed, healthy |-> job.healthy]
  BY DEF Answer, NoJob
<1>2. DOMAIN job' = JobFields
  BY <1>1 DEF JobFields
<1>3. job'.meta = NoJob.meta
  BY <1>1 DEF NoJob
<1>4. IsMeta(job'.meta)
  BY <1>3, NoJobFields DEF IsJob
<1>5. /\ job'.call = job.call /\ job'.known = job.known /\ job'.value = 0
      /\ job'.read = NoPolicy /\ job'.text = NoPolicy /\ job'.out = out /\ job'.answer = why
  BY <1>1
<1>6. job'.changed = job.changed /\ job'.healthy = job.healthy
  BY <1>1
<1>7. IsJob(job')
  BY <1>2, <1>4, <1>5 DEF IsJob, Text
<1> QED
  BY <1>5, <1>6, <1>7 DEF Answer

(* Profiles and texts of the request being served.                         *)
LEMMA SubjectTyped ==
  ASSUME CallTypes, pc \notin {"off", "idle"}
  PROVE  Subject \in Profile /\ job.call \in Call
BY BrokerConstants DEF CallTypes, Subject, CallType

LEMMA InitTypes == BrokerInit => BrokerTypes
<1> SUFFICES ASSUME BrokerInit PROVE BrokerTypes
  OBVIOUS
<1>1. DiskTypes
  <2>1. signed \in [Profile -> SUBSET Policy]
    BY DEF BrokerInit
  <2>2. DOMAIN meta = Profile /\ \A p \in Profile : IsMeta(meta[p])
    BY DEF BrokerInit, IsMeta
  <2>3. IsCli(cli)
    BY DEF BrokerInit, IsCli
  <2> QED BY <2>1, <2>2, <2>3, BrokerConstants DEF BrokerInit, DiskTypes
<1>2. MemoryTypes
  BY DEF BrokerInit, MemoryTypes, NoCache, NoGrants, NoUses
<1>3. CallTypes
  BY NoJobFields DEF BrokerInit, CallTypes, Step
<1> QED BY <1>1, <1>2, <1>3 DEF BrokerTypes

LEMMA BootTypes == BrokerTypes /\ Boot => BrokerTypes'
<1> SUFFICES ASSUME BrokerTypes, Boot PROVE BrokerTypes'
  OBVIOUS
<1>1. DiskTypes'
  BY DEF BrokerTypes, DiskTypes, Boot, disk, allowlists, IsCli,
     IsMeta
<1>2. MemoryTypes'
  BY DEF BrokerTypes, MemoryTypes, Boot, memory, VaultStateKind
<1>3. CallTypes'
  BY DEF BrokerTypes, CallTypes, Boot, Step, IsJob, IsMeta
<1> QED BY <1>1, <1>2, <1>3 DEF BrokerTypes

LEMMA ExitTypes == BrokerTypes /\ Exit => BrokerTypes'
<1> SUFFICES ASSUME BrokerTypes, Exit PROVE BrokerTypes'
  OBVIOUS
<1>1. DiskTypes'
  BY DEF BrokerTypes, DiskTypes, Exit, disk, allowlists, IsCli, IsMeta
<1>2. MemoryTypes'
  BY DEF BrokerTypes, MemoryTypes, Exit, NoCache, NoGrants, NoUses
<1>3. CallTypes'
  BY NoJobFields DEF CallTypes, Exit, Step
<1> QED BY <1>1, <1>2, <1>3 DEF BrokerTypes

LEMMA ExpireTypes == BrokerTypes /\ ExpireKey => BrokerTypes'
<1> SUFFICES ASSUME BrokerTypes, ExpireKey PROVE BrokerTypes'
  OBVIOUS
<1>1. DiskTypes'
  BY DEF BrokerTypes, DiskTypes, ExpireKey, disk, allowlists, IsCli, IsMeta
<1>2. MemoryTypes'
  BY DEF BrokerTypes, MemoryTypes, ExpireKey, memory
<1>3. CallTypes'
  BY DEF BrokerTypes, CallTypes, ExpireKey, IsJob, IsMeta, JobFields
<1> QED BY <1>1, <1>2, <1>3 DEF BrokerTypes

(* A step of the server leaves the disk to the others, but for the         *)
(* quarantine.                                                             *)
LEMMA ServeDiskTypes == BrokerTypes /\ Serve => DiskTypes'
<1> SUFFICES ASSUME BrokerTypes, Serve PROVE DiskTypes'
  OBVIOUS
<1>1. CASE Quarantine
  <2>1. Subject \in Profile
    BY <1>1, SubjectTyped DEF BrokerTypes, Quarantine, AtStep
  <2>2. IsMeta([job.meta EXCEPT !.quarantined = TRUE])
    BY DEF BrokerTypes, CallTypes, IsJob, IsMeta
  <2>3. DOMAIN meta' = Profile /\ \A p \in Profile : IsMeta(meta'[p])
    BY <1>1, <2>1, <2>2 DEF Quarantine, BrokerTypes, DiskTypes
  <2> QED BY <1>1, <2>3 DEF Quarantine, BrokerTypes, DiskTypes
<1>2. CASE UNCHANGED <<now, disk>>
  BY <1>2 DEF BrokerTypes, DiskTypes, disk, allowlists
<1> QED
  BY <1>1, <1>2 DEF Serve, Receive, Screen, Prepare, Inspect, GuardFreeText,
     ReadAllowlist, CheckAllowlist, Judge, Lookup, Ask, approve, CheckQuota,
     Resolve, Consume, Run, Respond

LEMMA ServeMemoryTypes == BrokerTypes /\ Serve => MemoryTypes'
<1> SUFFICES ASSUME BrokerTypes, Serve PROVE MemoryTypes'
  OBVIOUS
<1>1. CASE Receive
  BY <1>1 DEF BrokerTypes, MemoryTypes, Receive, HealNotNeeded,
     HealWithoutSession, HealFully, WriterStarts, HealRelocked, server, memory
<1>2. CASE Lookup
  BY <1>2 DEF BrokerTypes, MemoryTypes, Lookup, server
<1>3. CASE Ask
  BY <1>3, BrokerConstants DEF BrokerTypes, DiskTypes, MemoryTypes, Ask,
     approve, server
<1>4. CASE Consume
  BY <1>4 DEF BrokerTypes, MemoryTypes, Consume, server
<1>5. CASE Run
  BY <1>5 DEF BrokerTypes, MemoryTypes, Run, HandsOut, HandsOutNothing, RunsPrimitive, server
<1>6. CASE UNCHANGED <<server, memory>>
  BY <1>6 DEF BrokerTypes, MemoryTypes, server, memory
<1> QED
  BY <1>1, <1>2, <1>3, <1>4, <1>5, <1>6 DEF Serve, Screen, Prepare, Inspect,
     GuardFreeText, ReadAllowlist, Quarantine, CheckAllowlist, Judge,
     CheckQuota, Resolve, Respond

LEMMA ServeCallTypes == BrokerTypes /\ Serve => CallTypes'
<1> SUFFICES ASSUME BrokerTypes, Serve PROVE CallTypes'
  OBVIOUS
<1> USE DEF BrokerTypes, CallTypes, Step, AtStep, Continue
<1>1. ASSUME NEW why, NEW out \in Nat, Answer(why, out), pc \notin {"off", "idle"}
      PROVE  CallTypes'
  BY <1>1, AnswerFields
<1>2. CASE Receive
  BY <1>2, NoJobFields DEF Receive, IsJob, IsMeta, NoJob
<1>3. CASE Screen
  <2>1. KnownValue \in Nat
    BY DEF DiskTypes, KnownValue
  <2>2. ASSUME job' = [job EXCEPT !.known = KnownValue], pc' = "prepare"
        PROVE  CallTypes'
    BY <1>3, <2>1, <2>2 DEF IsJob, IsMeta, JobFields, Screen
  <2> QED BY <1>1, <1>3, <2>2 DEF Screen, Refuse
<1>4. CASE Prepare
  <2>1. ASSUME job' = [job EXCEPT !.value = vars], pc' = "inspect" PROVE CallTypes'
    BY <1>4, <2>1 DEF DiskTypes, IsJob, IsMeta, JobFields, Prepare
  <2> QED BY <1>1, <1>4, <2>1 DEF Prepare, Refuse
<1>5. CASE Inspect
  <2>0. Subject \in Profile
    BY <1>5, SubjectTyped DEF Inspect, GuardFreeText, ReadAllowlist
  <2>1. ASSUME job' = [job EXCEPT !.meta = meta[Subject]], pc' = "quarantine" PROVE CallTypes'
    BY <1>5, <2>0, <2>1 DEF DiskTypes, IsJob, IsMeta, JobFields, Inspect,
       GuardFreeText, ReadAllowlist
  <2>2. ASSUME job' = [job EXCEPT !.read = yaml[Subject]], pc' = "check" PROVE CallTypes'
    BY <1>5, <2>0, <2>2 DEF DiskTypes, IsJob, IsMeta, JobFields, Inspect,
       GuardFreeText, ReadAllowlist
  <2> QED BY <1>1, <1>5, <2>1, <2>2 DEF Inspect, GuardFreeText, ReadAllowlist,
     Refuse
<1>6. CASE Quarantine
  BY <1>1, <1>6 DEF Quarantine, Refuse
<1>7. CASE CheckAllowlist
  BY <1>1, <1>7 DEF CheckAllowlist, Refuse
<1>8. CASE Judge
  BY <1>8 DEF Judge
<1>9. CASE Lookup
  <2>0. LookupText \in Text
    BY <1>9, SubjectTyped DEF Lookup, LookupText, DiskTypes, Text
  <2>1. ASSUME job' = [job EXCEPT !.text = LookupText], pc' = "ask" PROVE CallTypes'
    BY <1>9, <2>0, <2>1 DEF IsJob, IsMeta, JobFields, Lookup
  <2> QED BY <1>9, <2>1 DEF Lookup
<1>10. CASE Ask
  <2>1. ASSUME job' = [job EXCEPT !.text = NoPolicy], pc' = "quota" PROVE CallTypes'
    BY <1>10, <2>1 DEF IsJob, IsMeta, JobFields, Ask, approve, Text
  <2> QED BY <1>1, <1>10, <2>1 DEF Ask, approve, Refuse
<1>11. CASE CheckQuota
  BY <1>1, <1>11 DEF CheckQuota, Refuse
<1>12. CASE Resolve
  <2>1. ASSUME NEW found, job' = [job EXCEPT !.secret = found], pc' = "consume" PROVE CallTypes'
    BY <1>12, <2>1 DEF IsJob, IsMeta, JobFields, Resolve
  <2> QED BY <1>1, <1>12, <2>1 DEF Resolve, Refuse
<1>13. CASE Consume
  <2>1. ASSUME NEW event, job' = [job EXCEPT !.event = event], pc' = "run" PROVE CallTypes'
    BY <1>13, <2>1 DEF IsJob, IsMeta, JobFields, Consume
  <2> QED BY <1>1, <1>13, <2>1 DEF Consume, RecordStarted, Refuse
<1>14. CASE Run
  BY <1>1, <1>14 DEF Run, HandsOut, HandsOutNothing, RunsPrimitive, IsJob
<1>15. CASE Respond
  BY <1>15, NoJobFields DEF Respond
<1> QED
  BY <1>2, <1>3, <1>4, <1>5, <1>6, <1>7, <1>8, <1>9, <1>10, <1>11, <1>12, <1>13, <1>14, <1>15
  DEF Serve

(* What happens outside leaves the server's memory to it, and its call but *)
(* for the two history fields.                                             *)
LEMMA OutsideTypes == BrokerTypes /\ Outside => BrokerTypes'
<1> SUFFICES ASSUME BrokerTypes, Outside PROVE BrokerTypes'
  OBVIOUS
<1>1. DiskTypes'
  <2> USE DEF BrokerTypes, DiskTypes
  <2>1. CASE ChangeSession \/ ChangeConfig \/ SetVar \/ EditAllowlist \/ Tick
    BY <2>1 DEF ChangeSession, ChangeConfig, SetVar, EditAllowlist, Tick, Edit, disk, allowlists
  <2>2. CASE WriteAllowlist
    <3>1. PICK text \in Policy : /\ text.of \in Profile
                                 /\ yaml' = [yaml EXCEPT ![text.of] = text]
                                 /\ cli' = [step |-> "load", text |-> text]
      BY <2>2 DEF WriteAllowlist
    <3> QED BY <2>2, <3>1 DEF WriteAllowlist, Edit, Text, IsCli
  <2>3. CASE LoadMeta
    <3>1. cli.text \in Policy /\ cli.text.of \in Profile
      BY <2>3 DEF LoadMeta, IsCli, NoCli
    <3>2. IsMeta([meta[cli.text.of] EXCEPT !.hmac = cli.text])
      BY <3>1 DEF IsMeta, Text
    <3>3. IsCli(cli')
      BY <2>3, <3>1, <3>2 DEF LoadMeta, IsCli
    <3> QED BY <2>3, <3>3 DEF LoadMeta
  <2>4. CASE SaveMeta
    <3>1. cli.text \in Policy /\ cli.text.of \in Profile /\ IsMeta(cli.meta)
      BY <2>4 DEF SaveMeta, IsCli, NoCli
    <3>2. DOMAIN meta' = Profile /\ \A p \in Profile : IsMeta(meta'[p])
      BY <2>4, <3>1 DEF SaveMeta
    <3> QED BY <2>4, <3>1, <3>2 DEF SaveMeta, IsCli
  <2>5. CASE SetAllowlistFails
    BY <2>5 DEF SetAllowlistFails, IsCli
  <2> QED BY <2>1, <2>2, <2>3, <2>4, <2>5 DEF Outside
<1>2. MemoryTypes'
  BY DEF BrokerTypes, MemoryTypes, Outside, ChangeSession, ChangeConfig, SetVar, EditAllowlist,
     WriteAllowlist, LoadMeta, SaveMeta, SetAllowlistFails, Tick, Edit, server, memory
<1>3. CallTypes'
  <2>1. /\ pc' = pc
        /\ \/ job' = job
           \/ job' = [job EXCEPT !.healthy = FALSE]
           \/ job' = [job EXCEPT !.changed = TRUE]
    BY DEF Outside, ChangeSession, ChangeConfig, SetVar, EditAllowlist,
       WriteAllowlist, LoadMeta, SaveMeta, SetAllowlistFails, Tick, Edit
  <2> QED BY <2>1 DEF BrokerTypes, CallTypes, IsJob, IsMeta, JobFields
<1> QED BY <1>1, <1>2, <1>3 DEF BrokerTypes

LEMMA NextTypes == BrokerTypes /\ [BrokerNext]_bvars => BrokerTypes'
<1>1. ASSUME BrokerTypes, UNCHANGED bvars PROVE BrokerTypes'
  BY <1>1 DEF bvars, disk, server, memory, allowlists, BrokerTypes, DiskTypes, MemoryTypes,
     CallTypes
<1> QED
  BY <1>1, BootTypes, ExitTypes, ExpireTypes, ServeDiskTypes, ServeMemoryTypes, ServeCallTypes,
     OutsideTypes DEF BrokerNext, BrokerTypes

(* Every variable of the broker keeps its type, and a request is being     *)
(* served whenever the server is between two of its steps.                 *)
THEOREM BrokerTyped == BrokerSpec => []BrokerTypes
<1> QED BY InitTypes, NextTypes, PTL DEF BrokerSpec

------------------------------------------------------------------------------
(* What a step can move.                                                   *)

(* Whatever happens outside the server, or to its key, the call goes on    *)
(* from where it was: of what it knows only the history changes.           *)
LEMMA CallKept ==
  ASSUME BrokerTypes, Outside \/ ExpireKey
  PROVE  /\ pc' = pc
         /\ job'.call = job.call /\ job'.known = job.known /\ job'.value = job.value
         /\ job'.read = job.read /\ job'.meta = job.meta /\ job'.event = job.event
         /\ job'.out = job.out /\ job'.answer = job.answer
         /\ job'.healthy => job.healthy
         /\ job'.changed = job.changed \/ job'.changed = TRUE
         /\ UNCHANGED <<config, writer, memory>>
<1>1. /\ pc' = pc /\ UNCHANGED <<config, writer, memory>>
      /\ \/ job' = job
         \/ job' = [job EXCEPT !.healthy = FALSE]
         \/ job' = [job EXCEPT !.changed = TRUE]
  BY DEF Outside, ChangeSession, ChangeConfig, SetVar, EditAllowlist, WriteAllowlist,
     LoadMeta, SaveMeta, SetAllowlistFails, Tick, Edit, ExpireKey, server, memory
<1>2. DOMAIN job = JobFields
  BY DEF BrokerTypes, CallTypes, IsJob
<1> QED BY <1>1, <1>2 DEF JobFields

LEMMA StutterKeeps ==
  ASSUME UNCHANGED bvars
  PROVE  UNCHANGED <<now, session, conf, vars, yaml, meta, cli, signed, vault, config, writer,
                     cache, used, granted, exposed, pc, job>>
BY DEF bvars, disk, server, memory, allowlists

(* The server and its call start from nothing.                             *)
LEMMA Ends ==
  ASSUME Boot \/ Exit
  PROVE  /\ pc' \in {"off", "idle"} /\ UNCHANGED <<now, disk>>
         /\ Boot => UNCHANGED <<memory, job>>
         /\ Exit => /\ job' = NoJob /\ cache' = NoCache /\ granted' = NoGrants
                    /\ used' = NoUses /\ exposed' = NoUses
BY DEF Boot, Exit

------------------------------------------------------------------------------
(* The quota of the escape hatch.                                          *)

(* A raw request about to run has been counted and has not been handed its *)
(* plaintext yet; without this the run step could hand out one more than   *)
(* was counted.                                                            *)
QuotaInv ==
  /\ QuotaHolds
  /\ pc = "run" /\ job.call.raw => exposed[Subject] < used[Subject]

LEMMA CountersKept ==
  ASSUME BrokerTypes, QuotaInv, UNCHANGED <<used, exposed>>,
         pc' = "run" => pc = "run" /\ job'.call = job.call
  PROVE  QuotaInv'
BY DEF QuotaInv, QuotaHolds, Subject

LEMMA QuotaNext == BrokerTypes /\ QuotaInv /\ [BrokerNext]_bvars => QuotaInv'
<1> SUFFICES ASSUME BrokerTypes, QuotaInv, [BrokerNext]_bvars PROVE QuotaInv'
  OBVIOUS
<1>1. CASE Boot
  BY <1>1, CountersKept DEF Boot, memory
<1>2. CASE Exit
  BY <1>2 DEF Exit, QuotaInv, QuotaHolds, NoUses, DefaultMaxUses
<1>3. CASE Outside \/ ExpireKey
  BY <1>3, CallKept, CountersKept DEF memory
<1>4. CASE UNCHANGED bvars
  BY <1>4, StutterKeeps, CountersKept
<1>5. CASE Consume
  <2>0. Subject \in Profile /\ IsJob(job)
    BY <1>5, SubjectTyped DEF Consume, AtStep, BrokerTypes, CallTypes
  <2>1. CASE UNCHANGED used /\ pc' = "respond"
    BY <1>5, <2>1, CountersKept DEF Consume
  <2>2. CASE QuotaLeft /\ RecordStarted /\ pc' = "run"
    <3>1. job'.call = job.call /\ exposed' = exposed
      BY <1>5, <2>0, <2>2 DEF RecordStarted, Consume, IsJob, JobFields
    <3>2. CASE ~job.call.raw
      BY <1>5, <2>2, <3>1, <3>2 DEF Consume, QuotaInv, QuotaHolds, Answer, Refuse
    <3>3. CASE job.call.raw
      <4>1. used' = [used EXCEPT ![Subject] = @ + 1]
        BY <1>5, <2>2, <3>3 DEF Consume, Answer, Refuse
      <4>2. used[Subject] \in Nat /\ exposed[Subject] \in Nat /\ exposed[Subject] <= used[Subject]
        BY <2>0 DEF BrokerTypes, MemoryTypes, QuotaInv, QuotaHolds
      <4>3. \/ used[Subject] + 1 <= DefaultMaxUses
            \/ \E text \in Policy : used[Subject] + 1 <= text.uses
        <5>1. used[Subject] < MaxUses(Subject)
          BY <2>2, <3>3 DEF QuotaLeft
        <5>2. CASE yaml[Subject] = NoPolicy
          BY <4>2, <5>1, <5>2 DEF MaxUses, DefaultMaxUses
        <5>3. CASE yaml[Subject] # NoPolicy
          <6>1. yaml[Subject] \in Policy /\ yaml[Subject].uses \in Nat
            BY <2>0, <5>3, BrokerConstants DEF BrokerTypes, DiskTypes, Text, PolicyType
          <6> QED BY <4>2, <5>1, <5>3, <6>1 DEF MaxUses
        <5> QED BY <5>2, <5>3
      <4>4. QuotaHolds'
        BY <2>0, <3>1, <4>1, <4>2, <4>3
        DEF BrokerTypes, MemoryTypes, QuotaInv, QuotaHolds
      <4>5. Subject' = Subject
        BY <3>1 DEF Subject
      <4>6. exposed'[Subject] < used'[Subject]
        BY <2>0, <3>1, <4>1, <4>2 DEF BrokerTypes, MemoryTypes
      <4> QED BY <4>4, <4>5, <4>6 DEF QuotaInv
    <3> QED BY <3>2, <3>3
  <2> QED BY <1>5, <2>1, <2>2 DEF Consume, Continue, Refuse, Answer
<1>6. CASE Run
  <2>0. Subject \in Profile
    BY <1>6, SubjectTyped DEF Run, AtStep, BrokerTypes
  <2>1. pc = "run" /\ pc' = "respond" /\ used' = used
    BY <1>6 DEF Run, AtStep, HandsOut, HandsOutNothing, RunsPrimitive, Answer
  <2>2. CASE HandsOut
    <3>1. exposed[Subject] < used[Subject] /\ exposed' = [exposed EXCEPT ![Subject] = @ + 1]
      BY <2>1, <2>2 DEF HandsOut, QuotaInv
    <3> QED BY <2>0, <2>1, <3>1 DEF QuotaInv, QuotaHolds, BrokerTypes, MemoryTypes
  <2>3. CASE exposed' = exposed
    BY <2>1, <2>3, CountersKept
  <2> QED BY <1>6, <2>2, <2>3 DEF Run, HandsOutNothing, RunsPrimitive
<1>7. CASE Serve /\ ~Consume /\ ~Run
  <2>1. UNCHANGED <<used, exposed>> /\ pc' # "run"
    BY <1>7 DEF Serve, Receive, Screen, Prepare, Inspect, GuardFreeText,
       ReadAllowlist, Quarantine, CheckAllowlist, Judge, Lookup, Ask, approve,
       CheckQuota, Resolve, Respond, Continue, Refuse, Answer, memory
  <2> QED BY <2>1, CountersKept
<1> QED BY <1>1, <1>2, <1>3, <1>4, <1>5, <1>6, <1>7 DEF BrokerNext

(* The escape hatch never hands out more plaintexts than it counted uses,  *)
(* nor counts more uses than an allowlist permits, whatever becomes of the *)
(* allowlist between the two checks of the quota.                          *)
THEOREM QuotaKept == BrokerSpec => []QuotaHolds
<1>1. BrokerInit => QuotaInv
  BY DEF BrokerInit, QuotaInv, QuotaHolds, NoUses, DefaultMaxUses
<1>2. QuotaInv => QuotaHolds
  BY DEF QuotaInv
<1> QED BY <1>1, <1>2, QuotaNext, BrokerTyped, PTL DEF BrokerSpec

------------------------------------------------------------------------------
(* The approval cache.                                                     *)

(* An entry of the cache expires one lifetime after the human's grant, and *)
(* there is no entry without one.                                          *)
CacheInv ==
  \A key \in CacheKey :
    \/ granted[key] = -1 /\ cache[key] = 0
    \/ granted[key] \in Nat /\ cache[key] = granted[key] + CacheTtl

LEMMA CacheNext == BrokerTypes /\ CacheInv /\ [BrokerNext]_bvars => CacheInv'
<1> SUFFICES ASSUME BrokerTypes, CacheInv, [BrokerNext]_bvars PROVE CacheInv'
  OBVIOUS
<1>1. CASE UNCHANGED <<cache, granted>>
  BY <1>1 DEF CacheInv
<1>2. CASE Exit
  BY <1>2 DEF Exit, CacheInv, NoCache, NoGrants
<1>3. CASE Lookup
  BY <1>1, <1>3 DEF Lookup, CacheInv, BrokerTypes, MemoryTypes
<1>4. CASE Ask
  BY <1>1, <1>4 DEF Ask, approve, CacheInv, BrokerTypes, DiskTypes, MemoryTypes
<1>5. CASE Serve /\ ~Lookup /\ ~Ask
  BY <1>1, <1>5 DEF Serve, Receive, Screen, Prepare, Inspect, GuardFreeText,
     ReadAllowlist, Quarantine, CheckAllowlist, Judge, CheckQuota, Resolve,
     Consume, Run, Respond, memory
<1>6. CASE Boot \/ Outside \/ ExpireKey \/ UNCHANGED bvars
  BY <1>1, <1>6, CallKept, StutterKeeps, Ends DEF memory
<1> QED BY <1>2, <1>3, <1>4, <1>5, <1>6 DEF BrokerNext

(* A call that passes the approval on the cache rests on a human's grant,  *)
(* less than the cache's lifetime ago, of the same profile under the same  *)
(* allowlist text: for every text the file may have taken meanwhile.       *)
THEOREM CachedIsGranted == BrokerSpec => CacheHitBacked
<1> DEFINE Backed ==
      Lookup /\ pc' = "quota" =>
        LET text == IF Unlocked THEN yaml[Subject] ELSE NoPolicy
            at   == granted[<<Subject, text>>]
        IN  at # -1 /\ now - at < CacheTtl
<1>1. BrokerTypes /\ CacheInv /\ [BrokerNext]_bvars => [Backed]_bvars
  <2> SUFFICES ASSUME BrokerTypes, CacheInv, Lookup, pc' = "quota"
               PROVE  /\ granted[<<Subject, LookupText>>] # -1
                      /\ now - granted[<<Subject, LookupText>>] < CacheTtl
    BY DEF LookupText
  <2>1. <<Subject, LookupText>> \in CacheKey
    BY SubjectTyped DEF Lookup, AtStep, BrokerTypes, DiskTypes, LookupText, CacheKey, Text
  <2>2. now < cache[<<Subject, LookupText>>]
    BY DEF Lookup, Fresh, Continue
  <2> QED BY <2>1, <2>2, BrokerConstants DEF CacheInv, BrokerTypes, DiskTypes
<1>2. BrokerInit => CacheInv
  BY DEF BrokerInit, CacheInv, NoCache, NoGrants
<1>3. CacheHitBacked <=> [][Backed]_bvars
  BY DEF CacheHitBacked
<1> QED BY <1>1, <1>2, <1>3, CacheNext, BrokerTyped, PTL DEF BrokerSpec

------------------------------------------------------------------------------
(* The signatures.                                                         *)

(* The HMAC of every profile is one set-allowlist has made, or missing: in *)
(* the metadata on disk, in what set-allowlist is about to save and in the *)
(* copy the quarantine is about to write back.  An unlocked vault goes     *)
(* with a verified configuration, which the call keeps when the key        *)
(* expires under it.                                                       *)
Signatures ==
  /\ Unlocked => config.signed
  /\ \A p \in Profile : meta[p].hmac \in signed[p] \cup {NoPolicy}
  /\ cli.step = "save" => cli.meta.hmac = cli.text
  /\ pc = "quarantine" => job.meta.hmac \in signed[Subject] \cup {NoPolicy}
  /\ pc = "check" => job.read # NoPolicy
  /\ AdmittedAsSigned

(* A text is never unsigned again: what was admitted stays admitted, while *)
(* the metadata moves on.                                                  *)
LEMMA SignedGrows ==
  ASSUME BrokerTypes, [BrokerNext]_bvars, NEW p \in Profile
  PROVE  signed[p] \subseteq signed'[p]
<1>1. CASE SaveMeta
  BY <1>1 DEF SaveMeta, BrokerTypes, DiskTypes
<1>2. CASE signed' = signed
  BY <1>2
<1>3. CASE Outside \/ ExpireKey
  BY <1>1, <1>2, <1>3 DEF Outside, ExpireKey, ChangeSession, ChangeConfig, SetVar, EditAllowlist,
     WriteAllowlist, LoadMeta, SetAllowlistFails, Tick, disk, allowlists
<1>4. CASE Boot \/ Exit
  BY <1>2, <1>4, Ends DEF disk, allowlists
<1>5. CASE Serve
  BY <1>2, <1>5 DEF Serve, Receive, Screen, Prepare, Inspect, GuardFreeText,
     ReadAllowlist, Quarantine, CheckAllowlist, Judge, Lookup, Ask, approve,
     CheckQuota, Resolve, Consume, Run, Respond, disk, allowlists
<1>6. CASE UNCHANGED bvars
  BY <1>2, <1>6, StutterKeeps
<1> QED BY <1>3, <1>4, <1>5, <1>6 DEF BrokerNext

(* The metadata files: set-allowlist writes what it signs, the quarantine  *)
(* writes back a HMAC that was good when it was read.                      *)
LEMMA MetaNext ==
  BrokerTypes /\ Signatures /\ [BrokerNext]_bvars =>
    /\ \A p \in Profile : meta'[p].hmac \in signed'[p] \cup {NoPolicy}
    /\ cli'.step = "save" => cli'.meta.hmac = cli'.text
<1> SUFFICES ASSUME BrokerTypes, Signatures, [BrokerNext]_bvars
             PROVE  /\ \A p \in Profile : meta'[p].hmac \in signed'[p] \cup {NoPolicy}
                    /\ cli'.step = "save" => cli'.meta.hmac = cli'.text
  OBVIOUS
<1>1. CASE UNCHANGED <<meta, cli>>
  BY <1>1, SignedGrows DEF Signatures
<1>2. CASE Quarantine
  <2>1. Subject \in Profile /\ IsMeta(job.meta)
    BY <1>2, SubjectTyped DEF Quarantine, AtStep, BrokerTypes, CallTypes, IsJob
  <2>2. [job.meta EXCEPT !.quarantined = TRUE].hmac = job.meta.hmac
    BY <2>1 DEF IsMeta
  <2>3. UNCHANGED <<cli, signed>>
    BY <1>2 DEF Quarantine
  <2> QED
    BY <1>2, <2>1, <2>2, <2>3 DEF Quarantine, AtStep, Signatures, BrokerTypes, DiskTypes
<1>3. CASE LoadMeta
  <2>1. cli.text \in Policy /\ cli.text.of \in Profile
    BY <1>3 DEF LoadMeta, BrokerTypes, DiskTypes, IsCli, NoCli
  <2>2. [meta[cli.text.of] EXCEPT !.hmac = cli.text].hmac = cli.text
    BY <2>1 DEF BrokerTypes, DiskTypes, IsMeta
  <2> QED BY <1>3, <2>2 DEF LoadMeta, Signatures
<1>4. CASE SaveMeta
  <2>1. cli.text \in Policy /\ cli.text.of \in Profile
    BY <1>4 DEF SaveMeta, BrokerTypes, DiskTypes, IsCli, NoCli
  <2> QED BY <1>4, <2>1 DEF SaveMeta, Signatures, BrokerTypes, DiskTypes, NoCli
<1>5. CASE WriteAllowlist \/ SetAllowlistFails
  BY <1>5 DEF WriteAllowlist, SetAllowlistFails, Signatures, NoCli
<1>6. CASE ChangeSession \/ ChangeConfig \/ SetVar \/ EditAllowlist \/ Tick \/ ExpireKey
  BY <1>1, <1>6 DEF ChangeSession, ChangeConfig, SetVar, EditAllowlist, Tick, ExpireKey,
     disk, allowlists
<1>7. CASE Boot \/ Exit \/ UNCHANGED bvars
  BY <1>1, <1>7, Ends, StutterKeeps DEF disk, allowlists
<1>8. CASE Serve /\ ~Quarantine
  BY <1>1, <1>8 DEF Serve, Receive, Screen, Prepare, Inspect, GuardFreeText,
     ReadAllowlist, CheckAllowlist, Judge, Lookup, Ask, approve, CheckQuota,
     Resolve, Consume, Run, Respond, disk, allowlists
<1> QED
  BY <1>2, <1>3, <1>4, <1>5, <1>6, <1>7, <1>8 DEF BrokerNext, Outside

(* What the server trusts: a vault is only opened with a configuration     *)
(* that verifies.                                                          *)
LEMMA ConfigNext ==
  BrokerTypes /\ Signatures /\ [BrokerNext]_bvars => (Unlocked => config.signed)'
<1> SUFFICES ASSUME BrokerTypes, Signatures, [BrokerNext]_bvars PROVE (Unlocked => config.signed)'
  OBVIOUS
<1> USE DEF Unlocked, Signatures
<1>1. CASE UNCHANGED <<vault, config>>
  BY <1>1
<1>2. CASE Boot
  BY <1>2, BrokerConstants DEF Boot, VerifiedConfig
<1>3. CASE Exit \/ ExpireKey
  BY <1>3 DEF Exit, ExpireKey
<1>4. CASE Receive
  BY <1>4 DEF Receive, HealNotNeeded, HealWithoutSession, HealFully,
     WriterStarts, HealRelocked, server
<1>5. CASE Serve /\ ~Receive
  BY <1>1, <1>5 DEF Serve, Screen, Prepare, Inspect, GuardFreeText,
     ReadAllowlist, Quarantine, CheckAllowlist, Judge, Lookup, Ask, approve,
     CheckQuota, Resolve, Consume, Run, Respond, server
<1>6. CASE Outside
  BY <1>1, <1>6 DEF Outside, ChangeSession, ChangeConfig, SetVar, EditAllowlist, WriteAllowlist,
     LoadMeta, SaveMeta, SetAllowlistFails, Tick, Edit, server
<1>7. CASE UNCHANGED bvars
  BY <1>1, <1>7, StutterKeeps
<1> QED BY <1>2, <1>3, <1>4, <1>5, <1>6, <1>7 DEF BrokerNext

(* What a call rests on between two steps.                                 *)
CallSigned ==
  /\ pc = "quarantine" => job.meta.hmac \in signed[Subject] \cup {NoPolicy}
  /\ pc = "check" => job.read # NoPolicy
  /\ AdmittedAsSigned

LEMMA CallSignedKept ==
  ASSUME BrokerTypes, Signatures, [BrokerNext]_bvars,
         pc' = pc, job'.call = job.call, job'.read = job.read, job'.meta = job.meta,
         config' = config
  PROVE  CallSigned'
<1>1. ASSUME pc \notin {"off", "idle"}
      PROVE  signed[Subject] \subseteq signed'[Subject] /\ Subject' = Subject
  BY <1>1, SubjectTyped, SignedGrows DEF BrokerTypes, Subject
<1> QED BY <1>1 DEF CallSigned, Signatures, AdmittedAsSigned, Admitted

LEMMA ServeSigned == BrokerTypes /\ Signatures /\ Serve => CallSigned'
<1> SUFFICES ASSUME BrokerTypes, Signatures, Serve PROVE CallSigned'
  OBVIOUS
<1> DEFINE Before == {"off", "idle", "screen", "prepare", "inspect", "respond"}
           After  == {"judge", "lookup", "ask", "quota", "resolve", "consume", "run"}
<1>1. CASE pc' \in Before
  BY <1>1 DEF CallSigned, AdmittedAsSigned, Admitted
<1>2. ASSUME pc \in After, pc' \in After, UNCHANGED <<config, signed>>,
             job'.call = job.call, job'.read = job.read
      PROVE  CallSigned'
  BY <1>2 DEF CallSigned, Signatures, AdmittedAsSigned, Admitted, Subject
<1>3. CASE Receive \/ Screen \/ Prepare \/ Quarantine \/ Respond \/ Run
  BY <1>1, <1>3 DEF Receive, Screen, Prepare, Quarantine, Respond, Run, HandsOut,
     HandsOutNothing, RunsPrimitive, Answer, Refuse, Continue
<1>4. CASE Inspect
  <2>1. Subject \in Profile /\ IsJob(job) /\ signed' = signed
    BY <1>4, SubjectTyped DEF Inspect, GuardFreeText, ReadAllowlist, AtStep,
       BrokerTypes, CallTypes, disk, allowlists
  <2>2. ASSUME job' = [job EXCEPT !.meta = meta[Subject]], pc' = "quarantine"
        PROVE  CallSigned'
    <3>1. job'.meta = meta[Subject] /\ Subject' = Subject
      BY <2>1, <2>2 DEF IsJob, JobFields, Subject
    <3> QED BY <2>1, <2>2, <3>1 DEF CallSigned, AdmittedAsSigned, Admitted, Signatures
  <2>3. ASSUME job' = [job EXCEPT !.read = yaml[Subject]], yaml[Subject] # NoPolicy, pc' = "check"
        PROVE  CallSigned'
    <3>1. job'.read = yaml[Subject]
      BY <2>1, <2>3 DEF IsJob, JobFields
    <3> QED BY <2>3, <3>1 DEF CallSigned, AdmittedAsSigned, Admitted
  <2> QED
    BY <1>1, <1>4, <2>2, <2>3 DEF Inspect, GuardFreeText, ReadAllowlist, Refuse,
       Answer, Continue
<1>5. CASE CheckAllowlist
  <2>1. Subject \in Profile /\ signed' = signed /\ config' = config /\ pc = "check"
    BY <1>5, SubjectTyped
    DEF CheckAllowlist, AtStep, BrokerTypes, CallTypes, disk, allowlists, server
  <2>2. CASE Unlocked /\ Genuine(Subject, job.read) /\ pc' = "judge" /\ UNCHANGED job
    <3>1. config.signed /\ job.read \in signed[Subject] /\ job.read.of = Subject
      BY <2>1, <2>2 DEF Genuine, Signatures
    <3> QED BY <2>1, <2>2, <3>1 DEF CallSigned, AdmittedAsSigned, Subject
  <2> QED BY <1>1, <1>5, <2>2 DEF CheckAllowlist, Refuse, Answer, Continue
<1>6. CASE Judge \/ Lookup \/ Ask \/ CheckQuota \/ Resolve \/ Consume
  <2>1. /\ pc \in After /\ (pc' \in After \/ pc' \in Before) /\ UNCHANGED <<config, signed>>
        /\ DOMAIN job = JobFields
    BY <1>6 DEF Judge, Lookup, Ask, approve, CheckQuota, Resolve, Consume,
       AtStep, Continue, Refuse, Answer, server, disk, allowlists, BrokerTypes,
       CallTypes, IsJob
  <2>2. pc' \in After =>
          \/ job' = job
          \/ job' = [job EXCEPT !.text = LookupText]
          \/ job' = [job EXCEPT !.text = NoPolicy]
          \/ \E found \in BOOLEAN : job' = [job EXCEPT !.secret = found]
          \/ \E event \in {"started", "failed"} : job' = [job EXCEPT !.event = event]
    BY <1>6 DEF Judge, Lookup, Ask, approve, CheckQuota, Resolve, Consume,
       RecordStarted, Refuse, Answer
  <2>3. pc' \in After => job'.call = job.call /\ job'.read = job.read
    BY <2>1, <2>2 DEF JobFields
  <2> QED BY <1>1, <1>2, <2>1, <2>3
<1> QED BY <1>3, <1>4, <1>5, <1>6 DEF Serve

LEMMA SignaturesNext == BrokerTypes /\ Signatures /\ [BrokerNext]_bvars => Signatures'
<1> SUFFICES ASSUME BrokerTypes, Signatures, [BrokerNext]_bvars PROVE CallSigned'
  BY MetaNext, ConfigNext DEF Signatures, CallSigned
<1>1. CASE Boot \/ Exit
  BY <1>1, Ends DEF CallSigned, AdmittedAsSigned, Admitted
<1>2. CASE Outside \/ ExpireKey
  BY <1>2, CallKept, CallSignedKept
<1>3. CASE UNCHANGED bvars
  BY <1>3, StutterKeeps, CallSignedKept
<1> QED BY <1>1, <1>2, <1>3, ServeSigned DEF BrokerNext

(* No call is admitted under a configuration that was never verified, nor  *)
(* against a text that set-allowlist has not signed for its profile:       *)
(* whatever is done to the files, in whatever order, between the steps of  *)
(* the call and those of set-allowlist and of the quarantine.              *)
THEOREM OnlySignedAdmitted == BrokerSpec => []AdmittedAsSigned
<1>1. BrokerInit => Signatures
  <2> SUFFICES ASSUME BrokerInit PROVE Signatures
    OBVIOUS
  <2>1. \A p \in Profile : meta[p].hmac \in signed[p] \cup {NoPolicy}
    BY DEF BrokerInit
  <2>2. ~Unlocked /\ cli.step # "save" /\ pc = "off"
    BY DEF BrokerInit, Unlocked, NoCli
  <2> QED BY <2>1, <2>2 DEF Signatures, AdmittedAsSigned, Admitted
<1>2. Signatures => AdmittedAsSigned
  BY DEF Signatures
<1> QED BY <1>1, <1>2, SignaturesNext, BrokerTyped, PTL DEF BrokerSpec

------------------------------------------------------------------------------
(* The output filter.                                                      *)

(* The snapshot is taken before the references are resolved, and resolving *)
(* needs an unlocked vault: so, unless vars.blob changed, the snapshot     *)
(* holds every value the call has used, and the answer shows no other.     *)
SnapshotCovers ==
  /\ pc = "screen" => job.value = 0 /\ job.out = 0
  /\ pc = "prepare" /\ Unlocked /\ ~job.changed => job.known = vars
  /\ job.value # 0 /\ ~job.changed => job.known = job.value
  /\ job.out # 0 /\ ~job.changed => job.known = job.out

(* Steps that use no variable.                                             *)
LEMMA SnapshotKept ==
  ASSUME SnapshotCovers,
         pc' # "screen" \/ (job'.value = 0 /\ job'.out = 0),
         pc' = "prepare" =>
           pc = "prepare" /\ (Unlocked' => Unlocked) /\ (vars' = vars \/ job'.changed = TRUE),
         job'.known = job.known, job'.value = job.value \/ job'.value = 0,
         job'.out = job.out \/ job'.out = 0,
         job'.changed = job.changed \/ job'.changed = TRUE
  PROVE  SnapshotCovers'
BY DEF SnapshotCovers

(* What a primitive can answer.                                            *)
LEMMA RunAnswers ==
  ASSUME Run
  PROVE  \E why \in {"ok", "error"}, shown \in {0, job.value} : Answer(why, shown)
<1>1. CASE HandsOut
  <2>1. Answer("ok", 0)
    BY <1>1 DEF HandsOut
  <2> QED BY <2>1
<1>2. CASE HandsOutNothing
  <2>1. Answer("error", 0)
    BY <1>2 DEF HandsOutNothing
  <2> QED BY <2>1
<1>3. CASE RunsPrimitive
  BY <1>3 DEF RunsPrimitive
<1> QED BY <1>1, <1>2, <1>3 DEF Run

LEMMA ServeSnapshot == BrokerTypes /\ SnapshotCovers /\ Serve => SnapshotCovers'
<1> SUFFICES ASSUME BrokerTypes, SnapshotCovers, Serve PROVE SnapshotCovers'
  OBVIOUS
<1>0. IsJob(job)
  BY DEF BrokerTypes, CallTypes
<1>1. ASSUME NEW why, Refuse(why) PROVE SnapshotCovers'
  <2>1. /\ pc' = "respond" /\ job'.known = job.known /\ job'.value = 0 /\ job'.out = 0
        /\ job'.changed = job.changed
    BY <1>0, <1>1, AnswerFields DEF Refuse
  <2> QED BY <2>1, SnapshotKept
<1>2. CASE Receive
  <2>1. pc' = "screen" /\ job'.value = 0 /\ job'.out = 0
    BY <1>2, NoJobFields DEF Receive, Continue, IsJob, JobFields, NoJob
  <2> QED BY <2>1 DEF SnapshotCovers
<1>3. CASE Screen
  <2>1. ASSUME job' = [job EXCEPT !.known = KnownValue], pc' = "prepare"
        PROVE  SnapshotCovers'
    <3>1. /\ job'.known = KnownValue /\ job'.value = 0 /\ job'.out = 0
          /\ UNCHANGED <<vault, vars>>
      BY <1>0, <1>3, <2>1 DEF IsJob, JobFields, Screen, AtStep, SnapshotCovers, server, disk
    <3> QED BY <2>1, <3>1 DEF SnapshotCovers, KnownValue, Unlocked
  <2> QED BY <1>1, <1>3, <2>1 DEF Screen, Continue
<1>4. CASE Prepare
  <2>1. ASSUME job' = [job EXCEPT !.value = vars], Unlocked, pc' = "inspect"
        PROVE  SnapshotCovers'
    <3>1. /\ job'.value = vars /\ job'.known = job.known /\ job'.out = job.out
          /\ job'.changed = job.changed /\ pc = "prepare"
      BY <1>0, <1>4, <2>1 DEF IsJob, JobFields, Prepare, AtStep
    <3> QED BY <2>1, <3>1 DEF SnapshotCovers
  <2>2. ASSUME UNCHANGED job, pc' = "inspect" PROVE SnapshotCovers'
    BY <2>2, SnapshotKept
  <2> QED BY <1>1, <1>4, <2>1, <2>2 DEF Prepare, Continue
<1>5. CASE Inspect \/ Quarantine \/ CheckAllowlist \/ Judge \/ Lookup \/ Ask \/ CheckQuota
           \/ Resolve \/ Consume
  <2>1. \/ \E why : Refuse(why)
        \/ /\ pc' \notin {"screen", "prepare"}
           /\ \/ job' = job
              \/ job' = [job EXCEPT !.meta = meta[Subject]]
              \/ job' = [job EXCEPT !.read = yaml[Subject]]
              \/ job' = [job EXCEPT !.text = LookupText]
              \/ job' = [job EXCEPT !.text = NoPolicy]
              \/ \E found \in BOOLEAN : job' = [job EXCEPT !.secret = found]
              \/ \E event \in {"started", "failed"} : job' = [job EXCEPT !.event = event]
    BY <1>5 DEF Inspect, GuardFreeText, ReadAllowlist, Quarantine,
       CheckAllowlist, Judge, Lookup, Ask, approve, CheckQuota, Resolve,
       Consume, RecordStarted, Continue
  <2>2. CASE ~\E why : Refuse(why)
    <3>1. /\ job'.known = job.known /\ job'.value = job.value /\ job'.out = job.out
          /\ job'.changed = job.changed
      BY <1>0, <2>1, <2>2 DEF IsJob, JobFields
    <3> QED BY <2>1, <2>2, <3>1, SnapshotKept
  <2> QED BY <1>1, <2>2
<1>6. CASE Run
  <2>1. PICK why \in {"ok", "error"}, shown \in {0, job.value} : Answer(why, shown)
    BY <1>6, RunAnswers
  <2>2. shown \in Nat
    BY <1>0, <2>1 DEF IsJob
  <2>3. /\ pc' = "respond" /\ job'.known = job.known /\ job'.value = 0 /\ job'.out = shown
        /\ job'.changed = job.changed
    BY <1>0, <2>1, <2>2, AnswerFields
  <2> QED BY <2>1, <2>3 DEF SnapshotCovers
<1>7. CASE Respond
  BY <1>7, NoJobFields DEF Respond, Continue, SnapshotCovers
<1> QED BY <1>2, <1>3, <1>4, <1>5, <1>6, <1>7 DEF Serve

LEMMA SnapshotNext == BrokerTypes /\ SnapshotCovers /\ [BrokerNext]_bvars => SnapshotCovers'
<1> SUFFICES ASSUME BrokerTypes, SnapshotCovers, [BrokerNext]_bvars PROVE SnapshotCovers'
  OBVIOUS
<1>1. CASE Boot
  <2>1. UNCHANGED job /\ pc' = "idle"
    BY <1>1 DEF Boot
  <2> QED BY <2>1, SnapshotKept
<1>2. CASE Exit
  BY <1>2, NoJobFields DEF Exit, SnapshotCovers
<1>3. CASE SetVar
  <2>1. job'.changed = TRUE /\ UNCHANGED vault
    BY <1>3 DEF SetVar, Edit, server, BrokerTypes, CallTypes, IsJob, JobFields
  <2> QED BY <1>3, <2>1, CallKept, SnapshotKept DEF Outside, SnapshotCovers
<1>4. CASE (Outside /\ ~SetVar) \/ ExpireKey
  <2>1. UNCHANGED vars /\ (Unlocked' => Unlocked)
    BY <1>4 DEF Outside, ChangeSession, ChangeConfig, EditAllowlist, WriteAllowlist,
       LoadMeta, SaveMeta, SetAllowlistFails, Tick, Edit, server, ExpireKey, disk, Unlocked
  <2> QED BY <1>4, <2>1, CallKept, SnapshotKept DEF SnapshotCovers
<1>5. CASE UNCHANGED bvars
  BY <1>5, StutterKeeps, SnapshotKept DEF SnapshotCovers, Unlocked
<1> QED BY <1>1, <1>2, <1>3, <1>4, <1>5, ServeSnapshot DEF BrokerNext

(* A substituted value reaches the client unmasked at most when vars.blob  *)
(* was changed while the call ran, whenever the key expires.               *)
THEOREM FilterHolds == BrokerSpec => []MaskedUnlessChanged
<1>1. BrokerInit => SnapshotCovers
  BY NoJobFields DEF BrokerInit, SnapshotCovers
<1>2. BrokerTypes /\ SnapshotCovers => MaskedUnlessChanged
  BY DEF SnapshotCovers, MaskedUnlessChanged, Leaks, Masked
<1> QED BY <1>1, <1>2, SnapshotNext, BrokerTyped, PTL DEF BrokerSpec

------------------------------------------------------------------------------
(* The healed vault.                                                       *)

(* A call that could be served when it began is one whose vault is         *)
(* unlocked; an unlocked vault, and a call that got past one, goes with a  *)
(* writer, or with one that failed to start.                               *)
Healed ==
  /\ pc = "off" => vault = "Locked"
  /\ job.healthy => Unlocked
  /\ NoFalseLock
  /\ Unlocked \/ Admitted => writer # "none"
  /\ RunsAudited

LEMMA ServeHealed == BrokerTypes /\ Healed /\ Serve => Healed'
<1> SUFFICES ASSUME BrokerTypes, Healed, Serve PROVE Healed'
  OBVIOUS
<1>0. IsJob(job)
  BY DEF BrokerTypes, CallTypes
<1> DEFINE Locks == {"pending_unlock", "lvr_vault_locked", "vault_locked"}
<1>1. ASSUME NEW why, NEW out \in Nat, Answer(why, out), UNCHANGED server,
             why \in Locks => ~Unlocked
      PROVE  Healed'
  <2>1. pc' = "respond" /\ job'.answer = why /\ job'.healthy = job.healthy
    BY <1>0, <1>1, AnswerFields
  <2> QED
    BY <1>1, <2>1 DEF Healed, NoFalseLock, RunsAudited, Admitted, Unlocked, server
<1>2. ASSUME UNCHANGED server, job'.healthy = job.healthy, job'.answer = job.answer,
             pc' # "off", Admitted' => Admitted \/ Unlocked,
             pc' = "run" => job'.event \in {"started", "failed"} \/ writer = "failed"
      PROVE  Healed'
  BY <1>2 DEF Healed, NoFalseLock, RunsAudited, Admitted, Unlocked, server
<1>3. CASE Receive
  <2>1. /\ pc' = "screen" /\ job'.answer = "none"
        /\ job'.healthy <=> Unlocked \/ (session /\ conf.signed)
    BY <1>3, NoJobFields DEF Receive, Continue, IsJob, JobFields, NoJob
  <2>2. /\ Unlocked \/ (session /\ conf.signed) => Unlocked'
        /\ Unlocked' => writer' # "none"
    BY <1>3 DEF Receive, HealNotNeeded, HealWithoutSession, HealFully,
       WriterStarts, HealRelocked, server, Unlocked, Healed, BrokerTypes,
       MemoryTypes
  <2> QED BY <2>1, <2>2 DEF Healed, NoFalseLock, RunsAudited, Admitted
<1>4. CASE Screen
  <2>1. ASSUME job' = [job EXCEPT !.known = KnownValue], pc' = "prepare" PROVE Healed'
    BY <1>0, <1>2, <1>4, <2>1 DEF IsJob, JobFields, Screen, Admitted
  <2> QED BY <1>1, <1>4, <2>1 DEF Screen, Refuse, Continue, Unlocked
<1>5. CASE Prepare
  <2>1. ASSUME job' = [job EXCEPT !.value = vars] \/ UNCHANGED job, pc' = "inspect" PROVE Healed'
    BY <1>0, <1>2, <1>5, <2>1 DEF IsJob, JobFields, Prepare, Admitted
  <2> QED BY <1>1, <1>5, <2>1 DEF Prepare, Refuse, Continue
<1>6. CASE Inspect
  <2>1. ASSUME \/ job' = [job EXCEPT !.meta = meta[Subject]]
               \/ job' = [job EXCEPT !.read = yaml[Subject]],
               pc' \in {"quarantine", "check"}
        PROVE  Healed'
    BY <1>0, <1>2, <1>6, <2>1 DEF IsJob, JobFields, Inspect, GuardFreeText,
       ReadAllowlist, Admitted
  <2>2. job.call.form \in {"no_profile", "bad_profile"} => job.call.form \notin Locks
    OBVIOUS
  <2> QED BY <1>1, <1>6, <2>1, <2>2 DEF Inspect, GuardFreeText, ReadAllowlist,
     Refuse, Continue
<1>7. CASE Quarantine
  BY <1>1, <1>7 DEF Quarantine, Refuse, server
<1>8. CASE CheckAllowlist
  <2>1. ASSUME Unlocked, UNCHANGED job, pc' = "judge" PROVE Healed'
    BY <1>2, <1>8, <2>1 DEF CheckAllowlist
  <2> QED BY <1>1, <1>8, <2>1 DEF CheckAllowlist, Refuse, Continue
<1>9. CASE Judge \/ Lookup \/ Ask \/ CheckQuota \/ Resolve
  <2>1. /\ Admitted /\ UNCHANGED server
        /\ \/ \E why \in {"approval_denied", "approval_no_biometric", "quota", "stale", "resolver"} : Refuse(why)
           \/ /\ pc' \notin {"off", "run"}
              /\ \/ job' = job
                 \/ job' = [job EXCEPT !.text = LookupText]
                 \/ job' = [job EXCEPT !.text = NoPolicy]
                 \/ \E found \in BOOLEAN : job' = [job EXCEPT !.secret = found]
    BY <1>9 DEF Judge, Lookup, Ask, approve, error_type, CheckQuota, Resolve,
       Continue, AtStep, Admitted
  <2>2. CASE \E why \in {"approval_denied", "approval_no_biometric", "quota", "stale", "resolver"} : Refuse(why)
    BY <1>1, <2>1, <2>2 DEF Refuse
  <2>3. CASE ~\E why \in {"approval_denied", "approval_no_biometric", "quota", "stale", "resolver"} : Refuse(why)
    <3>1. pc' \notin {"off", "run"} /\ job'.healthy = job.healthy /\ job'.answer = job.answer
      BY <1>0, <2>1, <2>3 DEF IsJob, JobFields
    <3> QED BY <1>2, <2>1, <3>1
  <2> QED BY <2>2, <2>3
<1>10. CASE Consume
  <2>1. Admitted /\ UNCHANGED server /\ writer \in {"up", "failed"}
    BY <1>10 DEF Consume, AtStep, Admitted, Healed, BrokerTypes, MemoryTypes
  <2>2. ASSUME RecordStarted, pc' = "run" PROVE Healed'
    <3>1. /\ job'.healthy = job.healthy /\ job'.answer = job.answer
          /\ job'.event \in {"started", "failed"} \/ writer = "failed"
      BY <1>0, <2>1, <2>2 DEF RecordStarted, IsJob, JobFields
    <3> QED BY <1>2, <2>1, <2>2, <3>1
  <2> QED BY <1>1, <1>10, <2>1, <2>2 DEF Consume, Refuse, Continue
<1>11. CASE Run
  <2>1. PICK why \in {"ok", "error"}, shown \in {0, job.value} : Answer(why, shown)
    BY <1>11, RunAnswers
  <2>2. shown \in Nat /\ why \notin Locks /\ UNCHANGED server
    BY <1>0, <1>11, <2>1 DEF IsJob, Run
  <2> QED BY <1>1, <2>1, <2>2
<1>12. CASE Respond
  BY <1>12, NoJobFields
  DEF Respond, Continue, Healed, NoFalseLock, RunsAudited, Admitted, Unlocked, server
<1> QED
  BY <1>3, <1>4, <1>5, <1>6, <1>7, <1>8, <1>9, <1>10, <1>11, <1>12 DEF Serve

LEMMA HealedNext == BrokerTypes /\ Healed /\ [BrokerNext]_bvars => Healed'
<1> SUFFICES ASSUME BrokerTypes, Healed, [BrokerNext]_bvars PROVE Healed'
  OBVIOUS
<1> USE DEF Healed, NoFalseLock, RunsAudited, Admitted, Unlocked
<1>1. CASE Boot
  <2>1. ~job.healthy
    BY <1>1 DEF Boot
  <2> QED BY <1>1, <2>1 DEF Boot
<1>2. CASE Exit
  BY <1>2, NoJobFields DEF Exit
<1>3. CASE ExpireKey
  <2>1. ~job'.healthy
    BY <1>3 DEF ExpireKey, BrokerTypes, CallTypes, IsJob, JobFields
  <2> QED BY <1>3, <2>1, CallKept DEF ExpireKey
<1>4. CASE Outside
  <2>1. UNCHANGED vault
    BY <1>4 DEF Outside, ChangeSession, ChangeConfig, SetVar, EditAllowlist, WriteAllowlist,
       LoadMeta, SaveMeta, SetAllowlistFails, Tick, Edit, server
  <2> QED BY <1>4, <2>1, CallKept
<1>5. CASE UNCHANGED bvars
  BY <1>5, StutterKeeps
<1> QED BY <1>1, <1>2, <1>3, <1>4, <1>5, ServeHealed DEF BrokerNext

(* A healed vault is healed whole: the next call is not refused for a      *)
(* locked vault, and a primitive runs with its Started row, or after a     *)
(* failure to write it; in every order of boots, expiries, unlocks and     *)
(* edits of config.toml.                                                   *)
THEOREM HealsWhole == BrokerSpec => []HealedWhole
<1>1. BrokerInit => Healed
  BY NoJobFields DEF BrokerInit, Healed, NoFalseLock, RunsAudited, Admitted, Unlocked
<1>2. Healed => HealedWhole
  BY DEF Healed, HealedWhole
<1> QED BY <1>1, <1>2, HealedNext, BrokerTyped, PTL DEF BrokerSpec
------------------------------------------------------------------------------
(* The workspace.                                                          *)

PassFields == {"at", "ws", "jwt", "list", "todo", "file", "failed"}

IsPass(r) ==
  /\ DOMAIN r = PassFields
  /\ r.list \in [Template -> Nat] /\ r.todo \subseteq Template
  /\ r.at \in {"none", "ask", "write", "etag"}
  /\ r.at # "none" => r.ws \in Workspace
  /\ r.at = "etag" => r.file \in Template

(* A JWT is of the workspace it is stored for.                             *)
WorkspaceTypes ==
  /\ copy \in [Workspace -> [Template -> Nat]] /\ etag \in [Workspace -> [Template -> Nat]]
  /\ whole \in [Workspace -> [Template -> Nat]]
  /\ published \in [Workspace -> [Template -> Nat]]
  /\ DOMAIN pass = Process /\ \A p \in Process : IsPass(pass[p])
  /\ DOMAIN stale = Workspace /\ DOMAIN token = Workspace
  /\ barred \subseteq Workspace /\ bound \subseteq Workspace

(* A step of a pass, or of anything that begins one.                       *)
PassOnly(p) == \A q \in Process \ {p} : pass'[q] = pass[q]

LEMMA PassFieldsSet ==
  ASSUME NEW r, IsPass(r)
  PROVE  /\ \A t : [r EXCEPT !.todo = @ \ {t}].todo = r.todo \ {t}
         /\ IsPass(NoPass)
BY DEF IsPass, PassFields, NoPass, Nothing

LEMMA StartPassTypes ==
  ASSUME WorkspaceTypes, NEW p \in Process, NEW w \in Workspace, NEW jwt, StartPass(p, w, jwt)
  PROVE  /\ DOMAIN pass' = Process /\ PassOnly(p) /\ IsPass(pass'[p])
         /\ pass'[p].at = "ask" /\ pass'[p].ws = w
<1>1. pass' = [pass EXCEPT ![p] = [NoPass EXCEPT !.at = "ask", !.ws = w, !.jwt = jwt]]
  BY DEF StartPass
<1>2. /\ [NoPass EXCEPT !.at = "ask", !.ws = w, !.jwt = jwt].at = "ask"
      /\ [NoPass EXCEPT !.at = "ask", !.ws = w, !.jwt = jwt].ws = w
      /\ IsPass([NoPass EXCEPT !.at = "ask", !.ws = w, !.jwt = jwt])
  BY DEF NoPass, IsPass, PassFields, Nothing
<1> QED BY <1>1, <1>2 DEF WorkspaceTypes, PassOnly

LEMMA EndPassTypes ==
  ASSUME WorkspaceTypes, NEW p \in Process, EndPass(p)
  PROVE  /\ DOMAIN pass' = Process /\ PassOnly(p) /\ IsPass(pass'[p]) /\ pass'[p].at = "none"
<1>1. IsPass(NoPass) /\ NoPass.at = "none"
  BY DEF NoPass, IsPass, PassFields, Nothing
<1> QED BY <1>1 DEF WorkspaceTypes, PassOnly, EndPass

(* What each step of a pass makes of it.                                   *)
LEMMA ListedPass ==
  ASSUME WorkspaceTypes, NEW p \in Process, Listed(p)
  PROVE  /\ DOMAIN pass' = Process /\ PassOnly(p) /\ IsPass(pass'[p])
         /\ pass[p].at = "ask" /\ pass'[p].at = "write" /\ pass'[p].ws = pass[p].ws
         /\ pass'[p].list = published[pass[p].ws]
         /\ pass'[p].todo = {t \in Template : published[pass[p].ws][t] > 0}
<1>1. IsPass(pass[p]) /\ pass[p].at = "ask" /\ published[pass[p].ws] \in [Template -> Nat]
  BY DEF WorkspaceTypes, Listed, At, IsPass
<1>2. pass' = [pass EXCEPT ![p].at = "write", ![p].list = published[pass[p].ws],
                           ![p].todo = {t \in Template : published[pass[p].ws][t] > 0}]
  BY DEF Listed
<1>3. /\ DOMAIN pass'[p] = PassFields /\ pass'[p].at = "write" /\ pass'[p].ws = pass[p].ws
      /\ pass'[p].list = published[pass[p].ws]
      /\ pass'[p].todo = {t \in Template : published[pass[p].ws][t] > 0}
  BY <1>1, <1>2 DEF WorkspaceTypes, IsPass, PassFields
<1>4. IsPass(pass'[p])
  BY <1>1, <1>3 DEF IsPass
<1> QED BY <1>1, <1>2, <1>3, <1>4 DEF WorkspaceTypes, PassOnly

LEMMA RejectedPass ==
  ASSUME WorkspaceTypes, NEW p \in Process, RejectTemplate(p)
  PROVE  /\ DOMAIN pass' = Process /\ PassOnly(p) /\ IsPass(pass'[p])
         /\ pass[p].at = "write" /\ pass'[p].at = "write" /\ pass'[p].ws = pass[p].ws
         /\ pass'[p].list = pass[p].list /\ pass'[p].failed = TRUE
<1>1. IsPass(pass[p]) /\ pass[p].at = "write"
  BY DEF WorkspaceTypes, RejectTemplate, At
<1>2. PICK t \in pass[p].todo : pass' = [pass EXCEPT ![p] = [Checked(p, t) EXCEPT !.failed = TRUE]]
  BY DEF RejectTemplate
<1>3. /\ DOMAIN pass'[p] = PassFields /\ pass'[p].at = "write" /\ pass'[p].ws = pass[p].ws
      /\ pass'[p].list = pass[p].list /\ pass'[p].failed = TRUE
      /\ pass'[p].todo = pass[p].todo \ {t}
  BY <1>1, <1>2 DEF WorkspaceTypes, IsPass, PassFields, Checked
<1>4. IsPass(pass'[p])
  BY <1>1, <1>3 DEF IsPass
<1> QED BY <1>1, <1>2, <1>3, <1>4 DEF WorkspaceTypes, PassOnly

LEMMA WrittenPass ==
  ASSUME WorkspaceTypes, NEW p \in Process, WriteTemplate(p)
  PROVE  \E t \in pass[p].todo :
         /\ t \in Template
         /\ copy' = [copy EXCEPT ![pass[p].ws][t] = pass[p].list[t]]
         /\ DOMAIN pass' = Process /\ PassOnly(p) /\ IsPass(pass'[p])
         /\ pass[p].at = "write" /\ pass'[p].at = "etag" /\ pass'[p].ws = pass[p].ws
         /\ pass'[p].list = pass[p].list /\ pass'[p].failed = pass[p].failed
         /\ pass'[p].todo = pass[p].todo \ {t} /\ pass'[p].file = t
<1>1. IsPass(pass[p]) /\ pass[p].at = "write"
  BY DEF WorkspaceTypes, WriteTemplate, At
<1>2. PICK t \in pass[p].todo :
        /\ copy' = [copy EXCEPT ![pass[p].ws][t] = pass[p].list[t]]
        /\ pass' = [pass EXCEPT ![p] = [Checked(p, t) EXCEPT !.at = "etag", !.file = t]]
  BY DEF WriteTemplate
<1>3. /\ DOMAIN pass'[p] = PassFields /\ pass'[p].at = "etag" /\ pass'[p].ws = pass[p].ws
      /\ pass'[p].list = pass[p].list /\ pass'[p].failed = pass[p].failed
      /\ pass'[p].todo = pass[p].todo \ {t} /\ pass'[p].file = t
  BY <1>1, <1>2 DEF WorkspaceTypes, IsPass, PassFields, Checked
<1>4. IsPass(pass'[p]) /\ t \in Template
  BY <1>1, <1>3 DEF IsPass
<1> QED BY <1>1, <1>2, <1>3, <1>4 DEF WorkspaceTypes, PassOnly

LEMMA EtaggedPass ==
  ASSUME WorkspaceTypes, NEW p \in Process, EtagDone(p)
  PROVE  /\ DOMAIN pass' = Process /\ PassOnly(p) /\ IsPass(pass'[p])
         /\ pass[p].at = "etag" /\ pass'[p].at = "write" /\ pass'[p].ws = pass[p].ws
         /\ pass'[p].list = pass[p].list /\ pass'[p].failed = pass[p].failed
         /\ pass'[p].todo = pass[p].todo
<1>1. IsPass(pass[p]) /\ pass[p].at = "etag"
  BY DEF WorkspaceTypes, EtagDone, At
<1>2. pass' = [pass EXCEPT ![p].at = "write", ![p].file = Nil]
  BY DEF EtagDone
<1>3. /\ DOMAIN pass'[p] = PassFields /\ pass'[p].at = "write" /\ pass'[p].ws = pass[p].ws
      /\ pass'[p].list = pass[p].list /\ pass'[p].failed = pass[p].failed
      /\ pass'[p].todo = pass[p].todo
  BY <1>1, <1>2 DEF WorkspaceTypes, IsPass, PassFields
<1>4. IsPass(pass'[p])
  BY <1>1, <1>3 DEF IsPass
<1> QED BY <1>1, <1>2, <1>3, <1>4 DEF WorkspaceTypes, PassOnly

(* All that is done to the cache is done by a pass.                        *)
LEMMA OutsidePasses ==
  ASSUME WorkspaceTypes,
         ShellCommand \/ (\E w \in Workspace : SignOut(w)) \/ ServerStep \/ BrokerStep
  PROVE  /\ UNCHANGED <<copy, etag, whole, crossed, stale, barred>>
         /\ published' \in [Workspace -> [Template -> Nat]]
         /\ \A w \in Workspace, t \in Template : published[w][t] <= published'[w][t]
         /\ \/ UNCHANGED pass
            \/ \E p \in Process, w \in Workspace : \E jwt : StartPass(p, w, jwt)
<1> USE DEF wdisk, cloud, wserver, wbounds, wghosts, Change, WorkspaceTypes
<1>1. CASE UNCHANGED <<copy, etag, whole, crossed, stale, barred, published, pass>>
  BY <1>1
<1>2. CASE ShellCommand
  <2>1. PICK p \in Shell, w \in Workspace : SignIn(p, w) \/ RefreshAllowlists(p, w) \/ AddSecret(p, w)
    BY <1>2 DEF ShellCommand
  <2>2. p \in Process
    BY DEF Process
  <2>3. CASE SignIn(p, w)
    BY <2>2, <2>3 DEF SignIn
  <2>4. CASE RefreshAllowlists(p, w)
    <3>1. StartPass(p, w, token[w])
      BY <2>4 DEF RefreshAllowlists
    <3> QED BY <2>2, <2>4, <3>1 DEF RefreshAllowlists
  <2>5. CASE AddSecret(p, w)
    BY <1>1, <2>5 DEF AddSecret
  <2> QED BY <2>1, <2>3, <2>4, <2>5
<1>3. CASE \E w \in Workspace : SignOut(w)
  BY <1>1, <1>3 DEF SignOut
<1>4. CASE SyncTick
  <2>1. PICK w \in bound : StartPass(Server, w, held)
    BY <1>4 DEF SyncTick
  <2>2. Server \in Process /\ w \in Workspace
    BY <2>1 DEF Process
  <2> QED BY <1>4, <2>1, <2>2 DEF SyncTick
<1>5. CASE ServerStep /\ ~SyncTick
  BY <1>1, <1>5 DEF ServerStep, ListSessions, BindLocal, BindRemote, Local, ResolverFor, Renew,
     BeginCall, AllowlistCacheStale, ResolveSecret, GetSecret, IssueToken, IssueRefused, CallGoes
<1>6. CASE BrokerStep
  <2>1. ASSUME NEW jwt, Expire(jwt) PROVE UNCHANGED <<copy, etag, whole, crossed, stale, barred, published, pass>>
    BY <2>1 DEF Expire
  <2>2. ASSUME NEW w \in member, Dismiss(w)
        PROVE  UNCHANGED <<copy, etag, whole, crossed, stale, barred, published, pass>>
    BY <2>2 DEF Dismiss
  <2>3. ASSUME NEW w \in Workspace, NEW t \in Template, Publish(w, t)
        PROVE  /\ UNCHANGED <<copy, etag, whole, crossed, stale, barred, pass>>
               /\ published' \in [Workspace -> [Template -> Nat]]
               /\ \A v \in Workspace, u \in Template : published[v][u] <= published'[v][u]
    BY <2>3 DEF Publish
  <2> QED BY <1>1, <1>6, <2>1, <2>2, <2>3 DEF BrokerStep
<1> QED BY <1>2, <1>3, <1>4, <1>5, <1>6

(* A step of a pass leaves what the broker published and the other passes  *)
(* alone.                                                                  *)
LEMMA PassStepFrame ==
  ASSUME WorkspaceTypes, NEW p \in Process, PassStep(p)
  PROVE  /\ UNCHANGED <<published, token>> /\ bound' \subseteq Workspace
         /\ DOMAIN pass' = Process /\ PassOnly(p) /\ IsPass(pass'[p])
<1> USE DEF wdisk, cloud, wserver, wbounds, wghosts
<1>1. CASE Listed(p)
  BY <1>1, ListedPass DEF Listed, WorkspaceTypes
<1>2. CASE RejectTemplate(p)
  BY <1>2, RejectedPass DEF RejectTemplate, WorkspaceTypes
<1>3. CASE WriteTemplate(p)
  BY <1>3, WrittenPass DEF WriteTemplate, WorkspaceTypes
<1>4. CASE WriteEtag(p) \/ EtagFails(p)
  BY <1>4, EtaggedPass DEF WriteEtag, EtagFails, EtagDone, WorkspaceTypes
<1>5. CASE NotModified(p) \/ ListFails(p) \/ FinishPass(p) \/ ProcessDies(p)
  BY <1>5, EndPassTypes DEF NotModified, ListFails, FinishPass, ProcessDies, WorkspaceTypes
<1> QED BY <1>1, <1>2, <1>3, <1>4, <1>5 DEF PassStep

LEMMA WorkspaceTypesNext == WorkspaceTypes /\ [WsNext]_wsvars => WorkspaceTypes'
<1> SUFFICES ASSUME WorkspaceTypes, [WsNext]_wsvars PROVE WorkspaceTypes'
  OBVIOUS
<1> USE DEF wdisk, cloud, wserver, wbounds, wghosts
<1>1. CASE UNCHANGED wsvars
  BY <1>1 DEF wsvars, WorkspaceTypes, IsPass
<1>2. ASSUME NEW p \in Process, PassStep(p) PROVE WorkspaceTypes'
  <2>1. DOMAIN pass' = Process /\ \A q \in Process : IsPass(pass'[q])
    BY <1>2, PassStepFrame DEF PassOnly, WorkspaceTypes
  <2>2. /\ IsPass(pass[p])
        /\ copy \in [Workspace -> [Template -> Nat]] /\ etag \in [Workspace -> [Template -> Nat]]
        /\ whole \in [Workspace -> [Template -> Nat]]
    BY DEF WorkspaceTypes
  <2>3. copy' \in [Workspace -> [Template -> Nat]]
    <3>1. CASE WriteTemplate(p)
      <4>1. PICK t \in Template : copy' = [copy EXCEPT ![pass[p].ws][t] = pass[p].list[t]]
        BY <3>1, WrittenPass
      <4>2. pass[p].list[t] \in Nat /\ pass[p].ws \in Workspace
        BY <2>2, <3>1 DEF IsPass, WriteTemplate, At
      <4> QED BY <2>2, <4>1, <4>2
    <3>2. CASE copy' = copy
      BY <2>2, <3>2
    <3> QED
      BY <1>2, <3>1, <3>2 DEF PassStep, Listed, NotModified, ListFails, RejectTemplate, WriteEtag,
         EtagFails, EtagDone, FinishPass, ProcessDies
  <2>4. etag' \in [Workspace -> [Template -> Nat]]
    <3>1. CASE WriteEtag(p)
      <4>1. etag' = [etag EXCEPT ![pass[p].ws][pass[p].file] = pass[p].list[pass[p].file]]
        BY <3>1 DEF WriteEtag
      <4>2. pass[p].ws \in Workspace /\ pass[p].file \in Template /\ pass[p].list[pass[p].file] \in Nat
        BY <2>2, <3>1 DEF IsPass, WriteEtag, EtagDone, At
      <4> QED BY <2>2, <4>1, <4>2
    <3>2. CASE etag' = etag
      BY <2>2, <3>2
    <3> QED
      BY <1>2, <3>1, <3>2 DEF PassStep, Listed, NotModified, ListFails, RejectTemplate,
         WriteTemplate, EtagFails, FinishPass, ProcessDies
  <2>5. whole' \in [Workspace -> [Template -> Nat]] /\ barred' \subseteq Workspace
    <3>1. CASE FinishPass(p)
      <4>1. pass[p].list \in [Template -> Nat] /\ pass[p].ws \in Workspace
        BY <2>2, <3>1 DEF IsPass, FinishPass, At
      <4> QED BY <2>2, <3>1, <4>1 DEF FinishPass, WorkspaceTypes
    <3>2. CASE whole' = whole /\ barred' \subseteq barred
      BY <2>2, <3>2 DEF WorkspaceTypes
    <3> QED
      BY <1>2, <3>1, <3>2 DEF PassStep, Listed, NotModified, ListFails, RejectTemplate,
         WriteTemplate, WriteEtag, EtagFails, EtagDone, ProcessDies
  <2>6. DOMAIN stale' = Workspace
    BY <1>2 DEF PassStep, Listed, NotModified, ListFails, RejectTemplate, WriteTemplate, WriteEtag,
       EtagFails, EtagDone, FinishPass, ProcessDies, WorkspaceTypes
  <2> QED BY <1>2, <2>1, <2>3, <2>4, <2>5, <2>6, PassStepFrame DEF WorkspaceTypes
<1>3. CASE ShellCommand \/ (\E w \in Workspace : SignOut(w)) \/ ServerStep \/ BrokerStep
  <2>1. DOMAIN pass' = Process /\ \A q \in Process : IsPass(pass'[q])
    BY <1>3, OutsidePasses, StartPassTypes DEF PassOnly, WorkspaceTypes
  <2>2. DOMAIN token' = Workspace /\ bound' \subseteq Workspace
    <3>1. CASE ShellCommand
      BY <3>1 DEF ShellCommand, SignIn, RefreshAllowlists, AddSecret, WorkspaceTypes
    <3>2. CASE \E w \in Workspace : SignOut(w)
      BY <3>2 DEF SignOut, WorkspaceTypes
    <3>3. CASE ServerStep
      BY <3>3 DEF ServerStep, ListSessions, BindLocal, BindRemote, Local, ResolverFor, Renew, Active,
         SyncTick, BeginCall, AllowlistCacheStale, ResolveSecret, GetSecret, IssueToken, IssueRefused,
         CallGoes, WorkspaceTypes
    <3>4. CASE BrokerStep
      BY <3>4 DEF BrokerStep, Expire, Dismiss, Publish, WorkspaceTypes
    <3> QED BY <1>3, <3>1, <3>2, <3>3, <3>4
  <2> QED BY <1>3, <2>1, <2>2, OutsidePasses DEF WorkspaceTypes
<1> QED BY <1>1, <1>2, <1>3 DEF WsNext

(* What a pass that is writing may rely on, as long as no other crossed    *)
(* it: the cache is not ahead of its list, and holds what it has written.  *)
Writes(p) == pass[p].at \in {"write", "etag"}

PassKeepsUp(p) ==
  LET w == pass[p].ws IN
  Writes(p) /\ w \notin crossed =>
    /\ \A t \in Template : copy[w][t] <= pass[p].list[t]
    /\ \A t \in Template \ pass[p].todo :
         pass[p].list[t] > 0 /\ ~pass[p].failed => copy[w][t] = pass[p].list[t]
    /\ pass[p].at = "etag" => copy[w][pass[p].file] = pass[p].list[pass[p].file]

(* Neither the cache nor a list is ahead of the broker: so a new list is   *)
(* never behind the cache.                                                 *)
NoneAhead ==
  /\ \A w \in Workspace, t \in Template : copy[w][t] <= published[w][t]
  /\ \A p \in Process : Writes(p) =>
       \A t \in Template : pass[p].list[t] <= published[pass[p].ws][t]

Alone ==
  \A p, q \in Process :
    p # q /\ Writes(p) /\ Writes(q) /\ pass[p].ws = pass[q].ws => pass[p].ws \in crossed

CopyInv == CacheKeepsUp /\ NoneAhead /\ Alone /\ \A p \in Process : PassKeepsUp(p)

(* A pass that ends or has only begun writes nothing.                      *)
LEMMA QuietSteps ==
  ASSUME WorkspaceTypes, CopyInv, NEW p \in Process, PassOnly(p), ~Writes(p)',
         UNCHANGED <<copy, etag, crossed>>,
         \A w \in Workspace \ crossed, t \in Template : whole'[w][t] <= copy[w][t],
         \A w \in Workspace, t \in Template : published[w][t] <= published'[w][t],
         WorkspaceTypes'
  PROVE  CopyInv'
<1>1. CacheKeepsUp'
  BY DEF CopyInv, CacheKeepsUp
<1>2. NoneAhead'
  <2>1. \A w \in Workspace, t \in Template : copy'[w][t] <= published'[w][t]
    BY DEF CopyInv, NoneAhead, WorkspaceTypes
  <2>2. ASSUME NEW q \in Process, Writes(q)', NEW t \in Template
        PROVE  pass'[q].list[t] <= published'[pass'[q].ws][t]
    <3>1. q # p /\ pass'[q] = pass[q] /\ Writes(q)
      BY <2>2 DEF PassOnly, Writes
    <3>2. pass[q].ws \in Workspace /\ pass[q].list[t] \in Nat
      BY <3>1 DEF WorkspaceTypes, IsPass, Writes
    <3>3. pass[q].list[t] <= published[pass[q].ws][t]
      BY <3>1 DEF CopyInv, NoneAhead
    <3> QED BY <3>1, <3>2, <3>3 DEF WorkspaceTypes
  <2> QED BY <2>1, <2>2 DEF NoneAhead
<1>3. Alone'
  BY DEF CopyInv, Alone, PassOnly, Writes
<1>4. ASSUME NEW q \in Process PROVE PassKeepsUp(q)'
  BY DEF CopyInv, PassKeepsUp, PassOnly, Writes
<1> QED BY <1>1, <1>2, <1>3, <1>4 DEF CopyInv

LEMMA ListedKeepsUp ==
  ASSUME WorkspaceTypes, CopyInv, NEW p \in Process, Listed(p), WorkspaceTypes'
  PROVE  CopyInv'
<1> DEFINE w == pass[p].ws
<1>0. /\ UNCHANGED <<copy, etag, whole, published>> /\ crossed \subseteq crossed'
      /\ \A q \in Process \ {p} : pass[q].ws = w /\ Writes(q) => w \in crossed'
  BY DEF Listed, wdisk, cloud, Writes
<1>1. /\ PassOnly(p) /\ pass[p].at = "ask" /\ pass'[p].at = "write" /\ pass'[p].ws = w
      /\ pass'[p].list = published[w] /\ pass'[p].todo = {t \in Template : published[w][t] > 0}
  BY ListedPass
<1>2. w \in Workspace
  BY <1>1 DEF WorkspaceTypes, IsPass
<1>3. CacheKeepsUp'
  BY <1>0 DEF CopyInv, CacheKeepsUp
<1>4. NoneAhead'
  <2>1. \A t \in Template : published[w][t] \in Nat
    BY <1>2 DEF WorkspaceTypes
  <2> QED BY <1>0, <1>1, <2>1 DEF CopyInv, NoneAhead, PassOnly, Writes
<1>5. Alone'
  BY <1>0, <1>1 DEF CopyInv, Alone, PassOnly, Writes
<1>6. PassKeepsUp(p)'
  BY <1>0, <1>1, <1>2 DEF CopyInv, NoneAhead, PassKeepsUp, WorkspaceTypes
<1>7. ASSUME NEW q \in Process \ {p} PROVE PassKeepsUp(q)'
  BY <1>0, <1>1 DEF CopyInv, PassKeepsUp, PassOnly, Writes
<1> QED BY <1>3, <1>4, <1>5, <1>6, <1>7 DEF CopyInv

LEMMA RejectedKeepsUp ==
  ASSUME WorkspaceTypes, CopyInv, NEW p \in Process, RejectTemplate(p), WorkspaceTypes'
  PROVE  CopyInv'
<1>0. UNCHANGED <<copy, etag, whole, published, crossed>>
  BY DEF RejectTemplate, wdisk, cloud, wghosts
<1>1. /\ PassOnly(p) /\ pass[p].at = "write" /\ pass'[p].at = "write" /\ pass'[p].ws = pass[p].ws
      /\ pass'[p].list = pass[p].list /\ pass'[p].failed = TRUE
  BY RejectedPass
<1>3. CacheKeepsUp' /\ NoneAhead' /\ Alone'
  BY <1>0, <1>1 DEF CopyInv, CacheKeepsUp, NoneAhead, Alone, PassOnly, Writes
<1>4. PassKeepsUp(p)'
  BY <1>0, <1>1 DEF CopyInv, PassKeepsUp, Writes
<1>5. ASSUME NEW q \in Process \ {p} PROVE PassKeepsUp(q)'
  BY <1>0, <1>1 DEF CopyInv, PassKeepsUp, PassOnly, Writes
<1> QED BY <1>3, <1>4, <1>5 DEF CopyInv

LEMMA WrittenKeepsUp ==
  ASSUME WorkspaceTypes, CopyInv, NEW p \in Process, WriteTemplate(p), WorkspaceTypes'
  PROVE  CopyInv'
<1> DEFINE w == pass[p].ws
<1>0. UNCHANGED <<etag, whole, published, crossed>>
  BY DEF WriteTemplate, cloud, wghosts
<1>1. PICK t \in pass[p].todo :
         /\ t \in Template
         /\ copy' = [copy EXCEPT ![w][t] = pass[p].list[t]]
         /\ PassOnly(p)
         /\ pass[p].at = "write" /\ pass'[p].at = "etag" /\ pass'[p].ws = w
         /\ pass'[p].list = pass[p].list /\ pass'[p].failed = pass[p].failed
         /\ pass'[p].todo = pass[p].todo \ {t} /\ pass'[p].file = t
  BY WrittenPass
<1>2. w \in Workspace /\ pass[p].list[t] \in Nat
  BY <1>1 DEF WorkspaceTypes, IsPass
<1>3. /\ copy'[w][t] = pass[p].list[t]
      /\ \A v \in Workspace, u \in Template : v # w \/ u # t => copy'[v][u] = copy[v][u]
  BY <1>1, <1>2 DEF WorkspaceTypes
<1>4. w \notin crossed => copy[w][t] <= pass[p].list[t]
  BY <1>1 DEF CopyInv, PassKeepsUp, Writes
<1>5. CacheKeepsUp'
  <2>1. ASSUME NEW v \in Workspace \ crossed, NEW u \in Template PROVE copy[v][u] <= copy'[v][u]
    <3>1. copy[v][u] \in Nat
      BY DEF WorkspaceTypes
    <3>2. CASE v = w /\ u = t
      BY <1>3, <1>4, <3>2
    <3>3. CASE v # w \/ u # t
      BY <1>3, <3>1, <3>3
    <3> QED BY <3>2, <3>3
  <2>2. \A v \in Workspace, u \in Template : /\ copy'[v][u] \in Nat /\ copy[v][u] \in Nat
                                            /\ etag[v][u] \in Nat /\ whole[v][u] \in Nat
    BY DEF WorkspaceTypes
  <2> QED BY <1>0, <2>1, <2>2 DEF CopyInv, CacheKeepsUp
<1>6. NoneAhead'
  <2>1. pass[p].list[t] <= published[w][t]
    BY <1>1 DEF CopyInv, NoneAhead, Writes
  <2>2. \A v \in Workspace, u \in Template : copy'[v][u] <= published'[v][u]
    BY <1>0, <1>3, <2>1 DEF CopyInv, NoneAhead
  <2>3. \A q \in Process : Writes(q)' =>
          \A u \in Template : pass'[q].list[u] <= published'[pass'[q].ws][u]
    BY <1>0, <1>1 DEF CopyInv, NoneAhead, PassOnly, Writes
  <2> QED BY <2>2, <2>3 DEF NoneAhead
<1>7. Alone'
  BY <1>0, <1>1 DEF CopyInv, Alone, PassOnly, Writes
<1>8. PassKeepsUp(p)'
  <2> SUFFICES ASSUME w \notin crossed
               PROVE  /\ \A u \in Template : copy'[w][u] <= pass[p].list[u]
                      /\ \A u \in Template \ (pass[p].todo \ {t}) :
                           pass[p].list[u] > 0 /\ ~pass[p].failed => copy'[w][u] = pass[p].list[u]
    BY <1>0, <1>1, <1>3 DEF PassKeepsUp
  <2>1. /\ \A u \in Template : copy[w][u] <= pass[p].list[u]
        /\ \A u \in Template \ pass[p].todo :
             pass[p].list[u] > 0 /\ ~pass[p].failed => copy[w][u] = pass[p].list[u]
    BY <1>1 DEF CopyInv, PassKeepsUp, Writes
  <2> QED BY <1>2, <1>3, <2>1
<1>9. ASSUME NEW q \in Process \ {p} PROVE PassKeepsUp(q)'
  <2> SUFFICES ASSUME Writes(q), pass[q].ws \notin crossed
               PROVE  PassKeepsUp(q)'
    BY <1>0, <1>1 DEF PassKeepsUp, PassOnly, Writes
  <2>1. pass[q].ws # w
    BY <1>1 DEF CopyInv, Alone, Writes
  <2>2. pass[q].ws \in Workspace /\ pass'[q] = pass[q] /\ (pass[q].at = "etag" => pass[q].file \in Template)
    BY <1>1 DEF WorkspaceTypes, IsPass, Writes, PassOnly
  <2>3. \A u \in Template : copy'[pass[q].ws][u] = copy[pass[q].ws][u]
    BY <1>3, <2>1, <2>2
  <2>4. PassKeepsUp(q)
    BY DEF CopyInv
  <2> QED BY <1>0, <2>2, <2>3, <2>4 DEF PassKeepsUp, Writes
<1> QED BY <1>5, <1>6, <1>7, <1>8, <1>9 DEF CopyInv

LEMMA EtaggedKeepsUp ==
  ASSUME WorkspaceTypes, CopyInv, NEW p \in Process, WriteEtag(p) \/ EtagFails(p), WorkspaceTypes'
  PROVE  CopyInv'
<1> DEFINE w == pass[p].ws
           t == pass[p].file
<1>0. UNCHANGED <<copy, whole, published, crossed>>
  BY DEF WriteEtag, EtagFails, EtagDone, cloud, wghosts
<1>1. /\ PassOnly(p) /\ pass[p].at = "etag" /\ pass'[p].at = "write" /\ pass'[p].ws = pass[p].ws
      /\ pass'[p].list = pass[p].list /\ pass'[p].failed = pass[p].failed
      /\ pass'[p].todo = pass[p].todo
  BY EtaggedPass DEF WriteEtag, EtagFails
<1>2. w \in Workspace /\ t \in Template /\ pass[p].list[t] \in Nat
  BY <1>1 DEF WorkspaceTypes, IsPass
<1>3. CacheKeepsUp'
  <2>1. CASE etag' = etag
    BY <1>0, <2>1 DEF CopyInv, CacheKeepsUp
  <2>2. CASE etag' = [etag EXCEPT ![w][t] = pass[p].list[t]]
    <3>1. w \notin crossed => copy[w][t] = pass[p].list[t]
      BY <1>1 DEF CopyInv, PassKeepsUp, Writes
    <3>2. /\ etag'[w][t] = pass[p].list[t]
          /\ \A v \in Workspace, u \in Template : v # w \/ u # t => etag'[v][u] = etag[v][u]
      BY <1>2, <2>2 DEF WorkspaceTypes
    <3> QED BY <1>0, <1>2, <3>1, <3>2 DEF CopyInv, CacheKeepsUp
  <2> QED BY <2>1, <2>2 DEF WriteEtag, EtagFails
<1>4. NoneAhead' /\ Alone'
  BY <1>0, <1>1 DEF CopyInv, NoneAhead, Alone, PassOnly, Writes
<1>5. PassKeepsUp(p)'
  BY <1>0, <1>1 DEF CopyInv, PassKeepsUp, Writes
<1>6. ASSUME NEW q \in Process \ {p} PROVE PassKeepsUp(q)'
  BY <1>0, <1>1 DEF CopyInv, PassKeepsUp, PassOnly, Writes
<1> QED BY <1>3, <1>4, <1>5, <1>6 DEF CopyInv

LEMMA CopyNext == WorkspaceTypes /\ CopyInv /\ [WsNext]_wsvars => CopyInv'
<1> SUFFICES ASSUME WorkspaceTypes, CopyInv, [WsNext]_wsvars PROVE CopyInv'
  OBVIOUS
<1>0. WorkspaceTypes'
  BY WorkspaceTypesNext
<1>a. \A w \in Workspace \ crossed, t \in Template : whole[w][t] <= copy[w][t]
  BY DEF CopyInv, CacheKeepsUp
<1>b. \A w \in Workspace, t \in Template : published[w][t] <= published[w][t]
  BY DEF WorkspaceTypes
<1>1. ASSUME UNCHANGED <<copy, etag, crossed, whole, pass>>,
             \A w \in Workspace, t \in Template : published[w][t] <= published'[w][t]
      PROVE  CopyInv'
  <2>1. CacheKeepsUp' /\ Alone' /\ \A p \in Process : PassKeepsUp(p)'
    BY <1>1 DEF CopyInv, CacheKeepsUp, Alone, PassKeepsUp, Writes
  <2>2. NoneAhead'
    <3>1. \A w \in Workspace, t \in Template : /\ copy[w][t] \in Nat /\ published[w][t] \in Nat
                                              /\ published'[w][t] \in Nat
      BY <1>0 DEF WorkspaceTypes
    <3>2. \A p \in Process : Writes(p) =>
            pass[p].ws \in Workspace /\ \A t \in Template : pass[p].list[t] \in Nat
      BY DEF WorkspaceTypes, IsPass, Writes
    <3>3. \A w \in Workspace, t \in Template : copy'[w][t] <= published'[w][t]
      BY <1>1, <3>1 DEF CopyInv, NoneAhead
    <3>4. ASSUME NEW p \in Process, Writes(p), NEW t \in Template
          PROVE  pass[p].list[t] <= published'[pass[p].ws][t]
      <4>1. pass[p].list[t] <= published[pass[p].ws][t]
        BY <3>4 DEF CopyInv, NoneAhead
      <4>2. published[pass[p].ws][t] <= published'[pass[p].ws][t]
        BY <1>1, <3>2, <3>4
      <4> QED BY <3>1, <3>2, <3>4, <4>1, <4>2
    <3> QED BY <1>1, <3>3, <3>4 DEF NoneAhead, Writes
  <2> QED BY <2>1, <2>2 DEF CopyInv
<1>2. CASE UNCHANGED wsvars
  BY <1>1, <1>2, <1>b DEF wsvars, wdisk, cloud, wghosts
<1>3. ASSUME NEW p \in Process, PassStep(p) PROVE CopyInv'
  <2>1. PassOnly(p) /\ UNCHANGED published
    BY <1>3, PassStepFrame
  <2>2. CASE NotModified(p) \/ ListFails(p) \/ ProcessDies(p)
    <3>1. UNCHANGED <<copy, etag, crossed, whole>>
      BY <2>2 DEF NotModified, ListFails, ProcessDies, wdisk, wghosts
    <3>2. ~Writes(p)'
      BY <2>2, EndPassTypes DEF NotModified, ListFails, ProcessDies, Writes
    <3> QED BY <1>0, <1>a, <1>b, <2>1, <3>1, <3>2, QuietSteps
  <2>3. CASE FinishPass(p)
    <3>1. UNCHANGED <<copy, etag, crossed>> /\ ~Writes(p)'
      BY <2>3, EndPassTypes DEF FinishPass, Writes
    <3>2. \A w \in Workspace \ crossed, t \in Template : whole'[w][t] <= copy[w][t]
      <4>1. CASE whole' = whole
        BY <1>a, <4>1
      <4>2. CASE ~pass[p].failed /\ whole' = [whole EXCEPT ![pass[p].ws] = pass[p].list]
        <5>1. pass[p].ws \in Workspace /\ pass[p].at = "write" /\ pass[p].todo = {}
          BY <2>3 DEF FinishPass, At, WorkspaceTypes, IsPass
        <5>2. pass[p].ws \notin crossed =>
                \A t \in Template : pass[p].list[t] > 0 => copy[pass[p].ws][t] = pass[p].list[t]
          BY <4>2, <5>1 DEF CopyInv, PassKeepsUp, Writes
        <5>3. \A t \in Template : pass[p].list[t] \in Nat /\ copy[pass[p].ws][t] \in Nat
          BY <5>1 DEF WorkspaceTypes, IsPass
        <5>4. pass[p].ws \notin crossed => \A t \in Template : pass[p].list[t] <= copy[pass[p].ws][t]
          BY <5>2, <5>3
        <5> QED BY <1>a, <4>2, <5>1, <5>4 DEF WorkspaceTypes
      <4> QED BY <2>3, <4>1, <4>2 DEF FinishPass
    <3> QED BY <1>0, <1>b, <2>1, <3>1, <3>2, QuietSteps
  <2> QED
    BY <1>0, <1>3, <2>2, <2>3, ListedKeepsUp, RejectedKeepsUp, WrittenKeepsUp, EtaggedKeepsUp
    DEF PassStep
<1>4. CASE ShellCommand \/ (\E w \in Workspace : SignOut(w)) \/ ServerStep \/ BrokerStep
  <2>1. CASE UNCHANGED pass
    BY <1>1, <1>4, <2>1, OutsidePasses
  <2>2. CASE \E p \in Process, w \in Workspace : \E jwt : StartPass(p, w, jwt)
    <3>1. PICK p \in Process, w \in Workspace : \E jwt : StartPass(p, w, jwt)
      BY <2>2
    <3>2. PassOnly(p) /\ ~Writes(p)'
      BY <3>1, StartPassTypes DEF Writes
    <3> QED BY <1>0, <1>a, <1>4, <3>2, OutsidePasses, QuietSteps
  <2> QED BY <1>4, <2>1, <2>2, OutsidePasses
<1> QED BY <1>2, <1>3, <1>4 DEF WsNext

(* A workspace without a sentinel is one whose bar was lifted; the server  *)
(* holds a JWT of the workspace it is bound to, and a call that has passed *)
(* the sentinel carries one of a workspace no longer barred.               *)
BarInv ==
  /\ NoneWhileBarred
  /\ \A w \in barred : stale[w]
  /\ \A w \in Workspace : token[w] # Nil => token[w].ws = w
  /\ mode = "remote" => bound = {held.ws}
  /\ call.at # "none" => mode \in {"local", "remote"}
  /\ call.at = "issue" /\ mode = "remote" => call.jwt.ws \notin barred

LEMMA BarNext == WorkspaceTypes /\ BarInv /\ [WsNext]_wsvars => BarInv'
<1> SUFFICES ASSUME WorkspaceTypes, BarInv, [WsNext]_wsvars PROVE BarInv'
  OBVIOUS
<1> USE DEF wdisk, cloud, wserver, wbounds, wghosts
<1>1. ASSUME UNCHANGED <<handed, token, mode, bound, held, call>>,
             barred' \subseteq barred, \A w \in barred' : stale'[w]
      PROVE  BarInv'
  BY <1>1 DEF BarInv, NoneWhileBarred
<1>2. CASE UNCHANGED wsvars
  BY <1>1, <1>2 DEF wsvars, BarInv
<1>3. ASSUME NEW p \in Process, PassStep(p) PROVE BarInv'
  <2>1. barred' \subseteq barred /\ handed' = handed /\ token' = token
    BY <1>3 DEF PassStep, Listed, NotModified, ListFails, RejectTemplate, WriteTemplate, WriteEtag,
       EtagFails, EtagDone, FinishPass, ProcessDies
  <2>2. \A w \in barred' : stale'[w]
    <3>1. CASE NotModified(p) \/ FinishPass(p)
      <4>1. IsPass(pass[p]) /\ pass[p].ws \in Workspace
        BY <3>1 DEF NotModified, FinishPass, At, WorkspaceTypes, IsPass
      <4>2. CASE NotModified(p)
        BY <4>1, <4>2 DEF NotModified, WorkspaceTypes, BarInv
      <4>3. CASE FinishPass(p) /\ pass[p].failed
        <5>1. barred' = barred /\ stale' = [stale EXCEPT ![pass[p].ws] = @ /\ ~Recovers(p)]
          BY <4>3 DEF FinishPass
        <5>2. ASSUME NEW w \in barred PROVE stale'[w]
          <6>1. stale[w] /\ w \in Workspace /\ ~Recovers(p)
            BY <4>3 DEF BarInv, WorkspaceTypes, Recovers
          <6>2. CASE w = pass[p].ws
            BY <4>1, <5>1, <6>1, <6>2 DEF WorkspaceTypes
          <6>3. CASE w # pass[p].ws
            BY <4>1, <5>1, <6>1, <6>3 DEF WorkspaceTypes
          <6> QED BY <6>2, <6>3
        <5> QED BY <5>1, <5>2
      <4>4. CASE FinishPass(p) /\ ~pass[p].failed
        <5>1. /\ barred' = barred \ {pass[p].ws}
              /\ stale' = [stale EXCEPT ![pass[p].ws] = @ /\ ~Recovers(p)]
          BY <4>4 DEF FinishPass
        <5>2. ASSUME NEW w \in barred, w # pass[p].ws PROVE stale'[w]
          BY <5>1, <5>2 DEF BarInv, WorkspaceTypes
        <5> QED BY <5>1, <5>2
      <4> QED BY <3>1, <4>2, <4>3, <4>4
    <3>2. CASE UNCHANGED <<stale, barred>>
      BY <3>2 DEF BarInv
    <3> QED
      BY <1>3, <3>1, <3>2 DEF PassStep, Listed, ListFails, RejectTemplate, WriteTemplate, WriteEtag,
         EtagFails, EtagDone, ProcessDies
  <2>3. CASE UNCHANGED wserver
    BY <1>1, <2>1, <2>2, <2>3
  <2>4. CASE mode' = "down" /\ call' = NoToolCall
    BY <2>1, <2>2, <2>4 DEF BarInv, NoneWhileBarred, NoToolCall
  <2> QED
    BY <1>3, <2>3, <2>4 DEF PassStep, Listed, NotModified, ListFails, RejectTemplate, WriteTemplate,
       WriteEtag, EtagFails, EtagDone, FinishPass, ProcessDies
<1>4. ASSUME NEW p \in Shell, NEW w \in Workspace,
             SignIn(p, w) \/ RefreshAllowlists(p, w) \/ AddSecret(p, w)
      PROVE  BarInv'
  <2>1. \A v \in Workspace : token'[v] # Nil => token'[v].ws = v
    <3>1. NewJwt(w).ws = w
      BY DEF NewJwt
    <3>2. token' = token \/ token' = [token EXCEPT ![w] = NewJwt(w)]
      BY <1>4 DEF SignIn, RefreshAllowlists, AddSecret
    <3> QED BY <3>1, <3>2 DEF BarInv, WorkspaceTypes
  <2> QED BY <1>4, <2>1 DEF SignIn, RefreshAllowlists, AddSecret, BarInv, NoneWhileBarred
<1>5. CASE \E w \in Workspace : SignOut(w)
  <2>1. \A v \in Workspace : token'[v] # Nil => token'[v].ws = v
    BY <1>5 DEF SignOut, BarInv, WorkspaceTypes
  <2> QED BY <1>5, <2>1 DEF SignOut, BarInv, NoneWhileBarred
<1>6. CASE ServerStep
  <2>1. CASE ListSessions \/ BindLocal
    BY <2>1 DEF ListSessions, BindLocal, Local, BarInv, NoneWhileBarred
  <2>2. CASE BindRemote
    <3>1. PICK w \in Workspace : mode = "listed" /\ ResolverFor(w)
      BY <2>2 DEF BindRemote
    <3> QED BY <3>1 DEF ResolverFor, BarInv, NoneWhileBarred
  <2>3. CASE Renew
    <3>1. PICK w \in bound : token' = [token EXCEPT ![w] = NewJwt(w)] /\ held' = NewJwt(w)
      BY <2>3 DEF Renew
    <3>0. mode = "remote" /\ bound = {held.ws} /\ bound \subseteq Workspace
      BY <2>3 DEF Renew, BarInv, WorkspaceTypes
    <3>2. bound = {w} /\ w \in Workspace
      BY <3>0
    <3>3. NewJwt(w).ws = w
      BY DEF NewJwt
    <3>4. \A v \in Workspace : token'[v] # Nil => token'[v].ws = v
      BY <3>1, <3>2, <3>3 DEF BarInv, WorkspaceTypes
    <3> QED BY <2>3, <3>1, <3>2, <3>3, <3>4 DEF Renew, BarInv, NoneWhileBarred
  <2>4. CASE SyncTick
    BY <1>1, <2>4 DEF SyncTick, BarInv
  <2>5. CASE BeginCall \/ AllowlistCacheStale \/ ResolveSecret \/ GetSecret \/ IssueRefused
    <3>1. /\ UNCHANGED <<handed, token, mode, bound, held, barred, stale>>
          /\ \/ call'.at \in {"none", "sentinel"}
             \/ ~Blocked /\ call'.at = "issue" /\ call'.jwt = held /\ call.at = "sentinel"
          /\ call'.at # "none" => mode \in {"local", "remote"}
      BY <2>5 DEF BeginCall, AllowlistCacheStale, ResolveSecret, GetSecret, IssueRefused, CallGoes,
         BarInv
    <3>2. ~Blocked /\ mode = "remote" => held.ws \notin barred
      BY DEF Blocked, BarInv
    <3> QED BY <3>1, <3>2 DEF BarInv, NoneWhileBarred
  <2>6. CASE IssueToken
    BY <2>6 DEF IssueToken, CallGoes, BarInv, NoneWhileBarred
  <2> QED BY <1>6, <2>1, <2>2, <2>3, <2>4, <2>5, <2>6 DEF ServerStep
<1>7. CASE BrokerStep
  BY <1>1, <1>7 DEF BrokerStep, Expire, Dismiss, Publish, BarInv
<1> QED BY <1>2, <1>3, <1>4, <1>5, <1>6, <1>7 DEF WsNext, ShellCommand

LEMMA WorkspaceStart == WsInit => WorkspaceTypes /\ CopyInv /\ BarInv
<1> SUFFICES ASSUME WsInit PROVE WorkspaceTypes /\ CopyInv /\ BarInv
  OBVIOUS
<1>1. \A p \in Process : pass[p] = NoPass /\ IsPass(pass[p]) /\ pass[p].at = "none"
  BY DEF WsInit, NoPass, IsPass, PassFields, Nothing
<1>2. /\ copy = [w \in Workspace |-> Nothing] /\ etag = copy /\ whole = copy
      /\ Nothing \in [Template -> Nat] /\ \A t \in Template : Nothing[t] = 0
  BY DEF WsInit, Nothing
<1>3. published \in [Workspace -> [Template -> Nat]]
  BY DEF WsInit
<1>4. WorkspaceTypes
  BY <1>1, <1>2, <1>3 DEF WsInit, WorkspaceTypes
<1>5. CopyInv
  <2>1. \A w \in Workspace, t \in Template : copy[w][t] = 0 /\ published[w][t] \in Nat
    BY <1>2, <1>3
  <2> QED
    BY <1>1, <1>2, <2>1 DEF CopyInv, CacheKeepsUp, NoneAhead, Alone, PassKeepsUp, Writes
<1>6. BarInv
  <2>1. \A w \in Workspace : token[w] # Nil => token[w].ws = w
    BY DEF WsInit
  <2> QED BY <2>1 DEF WsInit, BarInv, NoneWhileBarred, NoToolCall
<1> QED BY <1>4, <1>5, <1>6

(* The templates on disk are those of the last whole pass or newer, for    *)
(* any number of processes syncing, failing and dying at any step, unless  *)
(* two passes over a workspace cross; and a workspace that was barred      *)
(* hands out no secret before a whole pass.                                *)
THEOREM BarHolds == WsSpec => []BarredUntilWhole
<1>1. CopyInv /\ BarInv => BarredUntilWhole
  BY DEF CopyInv, BarInv, BarredUntilWhole
<1> QED
  BY <1>1, WorkspaceStart, WorkspaceTypesNext, CopyNext, BarNext, PTL DEF WsSpec
=============================================================================
