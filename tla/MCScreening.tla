------------------------------ MODULE MCScreening ------------------------------
(***************************************************************************)
(* What the detection of a secret in the arguments of a call does to the   *)
(* profile of the call (src/mcp/server.rs): with severity block the server *)
(* quarantines it, while the owner's commands and the other calls go on.   *)
(* The scan reads nothing that others write, so it comes first; once the   *)
(* arguments are judged they are forgotten.                                *)
(*                                                                         *)
(* The instances: every text of six letters, and two terminals and two     *)
(* servers on the files of one profile; and of OutputFilter, texts of two  *)
(* and of four characters and five documents of variables.                 *)
(***************************************************************************)
EXTENDS Detection, Profiles, PatternShape, OutputFilter, TLC

VARIABLE verdict \* on the arguments in hand: "none" before they are judged

svars == <<dvars, pvars, verdict>>

DetectionSeverity == {"warn", "error", "block"}

Init == DetectionInit /\ ProfilesInit /\ verdict = "none"

Scan == verdict = "none" /\ DetectionStep /\ UNCHANGED <<pvars, verdict>>

(* Warn and allow let the call go on, error refuses it; neither touches the  *)
(* profile. *)
Judge(severity) ==
  /\ verdict = "none" /\ Spliced
  /\ verdict' = IF Decision(severity) = "block" THEN "block" ELSE "other"
  /\ text' = <<>> /\ limit' = 0 /\ pattern' = 1 /\ pos' = 1 /\ budget' = 0
  /\ closed' = FALSE /\ exhausted' = FALSE
  /\ spans' = {} /\ sorted' = {} /\ open' = NoSpan /\ cursor' = 1 /\ out' = <<>>
  /\ UNCHANGED pvars

Quarantine(s) == verdict = "block" /\ Block(s)

Next ==
  \/ Scan
  \/ \E severity \in DetectionSeverity : Judge(severity)
  \/ /\ verdict # "none"
     /\ \/ \E p \in Owner : Command(p)
        \/ \E p \in Process : FileStep(p)
        \/ \E s \in Server : ServeStep(s) \/ Quarantine(s)
     /\ UNCHANGED <<dvars, verdict>>

------------------------------------------------------------------------------

VARIABLE part

(* Six letters, or no arguments at all. *)
MCTexts == {<<>>} \cup [1..6 -> Word \cup {".", "[", "]"}]

(* What the analyser derives from a pattern when it is compiled holds for    *)
(* everything the pattern matches, as the scan takes for granted             *)
(* (detection/mod.rs:137-149).                                               *)
ASSUME ShapesAssumption == ShapesSound

(* In the place of 3.5 bits per character: more than two characters in three *)
(* are different, which padding dilutes as it does the entropy.              *)
MCHighEntropy(s) == 3 * Cardinality(Range(s)) > 2 * Len(s)

V(t, v) == [type |-> t, value |-> v]

(* A value in another, values that overlap, equal ones, one beside a port    *)
(* and one that is too short.                                                *)
MCDocs ==
  {<<V("text", <<1, 2>>)>>,
   <<V("text", <<1, 2>>), V("path", <<1, 2, 1>>)>>,
   <<V("host", <<1, 2, 1>>), V("text", <<1, 2>>), V("port", <<2, 2>>)>>,
   <<V("text", <<2, 2>>), V("text", <<2, 2>>), V("text", <<1>>)>>,
   <<V("text", <<1, 1>>), V("text", <<1, 2, 2>>)>>}
MCSaying == UNION {[1..n -> {0, 1, 2}] : n \in {2, 4}}
MCNames == {<<1, 2>>, <<0>>}

MCInit ==
  \/ part = "screening" /\ Init /\ doc = NoVars /\ unlocked = FALSE /\ writer = FALSE /\ FilterInit
  \/ part = "filter" /\ text = <<>> /\ limit = (CHOOSE b \in Budgets : TRUE) /\ Init /\ FilterInit

MCNext ==
  \/ part = "screening" /\ Next /\ UNCHANGED <<fvars, part>>
  \/ part = "filter" /\ FilterNext /\ UNCHANGED <<svars, part>>

MCSpec == MCInit /\ [][MCNext]_<<svars, fvars, part>>

MCSymmetry == Permutations(Owner) \cup Permutations(Text) \cup Permutations(Server)
===============================================================================
