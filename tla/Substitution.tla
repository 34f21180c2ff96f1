----------------------------- MODULE Substitution -----------------------------
(***************************************************************************)
(* How the references {{lvr:key}} in the arguments of a call become the    *)
(* values of local variables (src/vars/refs.rs, resolve.rs, validate.rs,   *)
(* rate.rs), while the owner sets variables, links in the directory tree   *)
(* change and time passes.                                                 *)
(*                                                                         *)
(* A text is a sequence of words: the parts of a reference, "/", and what  *)
(* else the rules tell apart. A place in the tree is the sequence of its   *)
(* components, each a sequence of words. Who may set a variable and where  *)
(* it is stored is in VarsStore, that the vault may be locked in Broker,   *)
(* which fields a reference may fill in AllowlistRules. Times are in the   *)
(* unit in which a bucket gains 1 / REFILL of a token.                     *)
(***************************************************************************)
EXTENDS Integers, Sequences, SequencesExt, FiniteSets, FiniteSetsExt

CONSTANTS BURST,    \* tokens of a full bucket
          REFILL,   \* ticks in which a bucket gains a token
          Trees,    \* records [dirs, links]: places, and where links lead
          Typed,    \* what the owner types: records [key, type, value]
          Arguments,   \* sequences of records [pointer, text]: the calls
          Profiles, \* names of the profiles in the vault
          Unset,
          MaxClock, MaxChanges, MaxCalls

VARIABLES tree, doc, clock, bucket, resolved, \* resolved: the last call
          taken,                            \* [key, time] -> values handed out
          changes, ncalls

uvars == <<tree, doc, clock, bucket, resolved, taken, changes, ncalls>>

(* A directory that really is one lies behind no link; a call has no field   *)
(* twice.                                                                    *)
IsText(s) == s \in Seq(Range(s))
ASSUME SubstitutionConstants ==
  /\ BURST \in Nat \ {0} /\ REFILL \in Nat \ {0} /\ MaxClock \in Nat
  /\ Unset \notin [last : Nat, tokens : Nat]
  /\ \A t \in Typed : IsText(t.value) /\ t.type \in {"path", "host", "port", "profile_id", "string"}
  /\ \A t \in Trees : \A p \in t.dirs : \A n \in 1..Len(p) : SubSeq(p, 1, n) \notin DOMAIN t.links
  /\ \A fields \in Arguments :
       /\ Len(fields) \in Nat \ {0} /\ DOMAIN fields = 1..Len(fields)
       /\ \A i, j \in DOMAIN fields :
            /\ IsText(fields[i].text)
            /\ fields[i].pointer = fields[j].pointer => i = j

VarKey == {t.key : t \in Typed}
Var(t, confirmed) == [type |-> t.type, value |-> t.value, verified |-> confirmed]
NoCall == [fields |-> <<>>, sites |-> <<>>, error |-> "none"]

-------------------------------------------------------------------------------
(* References. *)

Digit   == [d \in {"0", "1", "9"} |-> IF d = "0" THEN 0 ELSE IF d = "1" THEN 1 ELSE 9]
Letter  == {"a", "k", "w", "r", "o"}
Upper   == {"A"}
Alnum   == Letter \cup Upper \cup DOMAIN Digit
KeyChar == Letter \cup DOMAIN Digit \cup {".", "..", "-"}
Colon   == {"lvr:", "cfg:", "s3:"} \* words that end with one
Meta    == {"\\", "{{", "}}", "$", " "}

(* The match of (\\?){{(lvr|cfg):key}} that begins at i, as its last word    *)
(* and what it is; an end of 0 when there is none.                           *)
MatchAt(s, i) ==
  LET b == IF s[i] = "\\" THEN i + 1 ELSE i
      e == {n \in b + 3..Len(s) : s[n] = "}}" /\ \A m \in b + 2..n - 1 : s[m] \in KeyChar}
  IN  IF /\ b + 3 <= Len(s) /\ s[b] = "{{" /\ s[b + 1] \in {"lvr:", "cfg:"}
         /\ s[b + 2] \in KeyChar \ {".", "..", "-"} /\ e # {}
      THEN [start |-> b, end |-> Min(e), ns |-> s[b + 1], escaped |-> b # i,
            key |-> SubSeq(s, b + 2, Min(e) - 1)]
      ELSE [end |-> 0]

find_all(s) ==
  LET scan[i \in 1..Len(s) + 1] ==
        IF i > Len(s) THEN <<>>
        ELSE LET m == MatchAt(s, i)
             IN  IF m.end = 0 THEN scan[i + 1] ELSE <<m>> \o scan[m.end + 1]
  IN  scan[1]

-------------------------------------------------------------------------------
(* Places. *)

(* The parts of s between the words in sep.                                  *)
Split(s, sep) ==
  LET parts[i \in 1..Len(s) + 1] ==
        IF i > Len(s) THEN <<<<>>>>
        ELSE IF s[i] = sep THEN <<<<>>>> \o parts[i + 1]
        ELSE [parts[i + 1] EXCEPT ![1] = <<s[i]>> \o @]
  IN  parts[1]

(* Path::components drops empty components and "." within the path.          *)
components(s) ==
  LET parts == Split(s, "/")
      kept[n \in 0..Len(parts)] ==
        IF n = 0 THEN <<>>
        ELSE IF parts[n] \in {<<>>, <<".">>} THEN kept[n - 1] ELSE Append(kept[n - 1], parts[n])
  IN  kept[Len(parts)]
Spelled(p) == IF p = <<>> THEN <<"/">> ELSE FlattenSeq([i \in DOMAIN p |-> <<"/">> \o p[i]])
Ancestor(p, n) == SubSeq(p, 1, n)

(* Where p leads: links are followed from the left, at most once each.       *)
Linked(p) == {n \in 1..Len(p) : Ancestor(p, n) \in DOMAIN tree.links}
Follow(p) == tree.links[Ancestor(p, Min(Linked(p)))] \o SubSeq(p, Min(Linked(p)) + 1, Len(p))
Leads(p) ==
  LET go[n \in 0..Cardinality(DOMAIN tree.links)] ==
        IF n = 0 THEN p ELSE IF Linked(go[n - 1]) = {} THEN go[n - 1] ELSE Follow(go[n - 1])
  IN  go[Cardinality(DOMAIN tree.links)]
Exists(p) == Leads(p) \in tree.dirs

absolute(s) == s # <<>> /\ s[1] = "/"

(* Variant: a path that does not exist is taken as it is.                    *)
final_path_is_canonical_if_there(s) ==
  LET p == components(s)
  IN  absolute(s) /\ ~Contains(p, <<"..">>) /\ (Exists(p) => Leads(p) = p)

(* The deepest ancestor that exists is its own canonical form.               *)
final_path_is_canonical(s) ==
  LET p == components(s)
      there == {n \in 0..Len(p) : Exists(Ancestor(p, n))}
  IN  /\ absolute(s) /\ ~Contains(p, <<"..">>)
      /\ there # {} /\ Leads(Ancestor(p, Max(there))) = Ancestor(p, Max(there))

-------------------------------------------------------------------------------
(* The rules of each type. *)

Number(ds) == FoldLeft(LAMBDA n, d : 10 * n + Digit[d], 0, ds)
Digits(s) == Range(s) \subseteq DOMAIN Digit
NoLeadingZero(s) == s # <<>> /\ (Len(s) = 1 \/ s[1] # "0")

validate_path(v) ==
  IF ~absolute(v) \/ Contains(v, ",") THEN "lvr_type_invalid"
  ELSE IF /\ ~Contains(components(v), <<"..">>) /\ Exists(components(v))
          /\ Spelled(Leads(components(v))) = v
       THEN "ok" ELSE "lvr_path_not_canonical"

(* A name in lower case, or four numbers.                                    *)
validate_host(v) ==
  LET labels == Split(v, ".")
      numbers == \A i \in DOMAIN labels : labels[i] # <<>> /\ Digits(labels[i])
      label(l) == /\ l # <<>> /\ l[1] # "-" /\ Last(l) # "-"
                  /\ Range(l) \subseteq Letter \cup DOMAIN Digit \cup {"-"}
      octet(l) == NoLeadingZero(l) /\ Number(l) <= 255
  IN  IF IF numbers THEN Len(labels) = 4 /\ \A i \in DOMAIN labels : octet(labels[i])
         ELSE \A i \in DOMAIN labels : label(labels[i])
      THEN "ok" ELSE "lvr_type_invalid"

validate_port(v) ==
  IF Digits(v) /\ v[1] # "0" /\ Number(v) \in 1..65535 THEN "ok" ELSE "lvr_type_invalid"

is_safe_path_component(v) == v[1] # "." /\ Range(v) \subseteq Alnum \cup {".", "-"}

validate_value(type, v) ==
  IF v = <<>> \/ Range(v) \cap Meta # {} THEN "lvr_type_invalid"
  ELSE CASE type = "path" -> validate_path(v)
         [] type = "host" -> validate_host(v)
         [] type = "port" -> validate_port(v)
         [] type = "profile_id" -> IF is_safe_path_component(v) THEN "ok" ELSE "lvr_type_invalid"
         [] type = "string" ->
              IF Range(v) \subseteq Alnum \cup Colon \cup {".", "..", "-", "@", "/", ","}
              THEN "ok" ELSE "lvr_type_invalid"

(* The document at the start: what the owner has set and confirmed before.   *)
SubstitutionInit ==
  /\ tree \in Trees
  /\ doc \in [VarKey -> {Unset} \cup {Var(t, TRUE) : t \in Typed}]
  /\ \A t \in Typed, k \in VarKey : doc[k] = Var(t, TRUE) =>
       t.key = k /\ validate_value(t.type, t.value) = "ok"
  /\ clock = 0 /\ bucket = [k \in VarKey |-> Unset]
  /\ resolved = NoCall /\ taken = [k \in VarKey |-> [t \in 0..MaxClock |-> 0]]
  /\ changes = 0 /\ ncalls = 0

-------------------------------------------------------------------------------
(* One argument after the other, in each one reference after the other: the  *)
(* first error ends the call, what was taken from the buckets stays taken.   *)

(* Tokens are counted in the 1 / REFILL parts of one.                        *)
Tokens(b, k) ==
  IF b[k] = Unset THEN BURST * REFILL
  ELSE Min({b[k].tokens + clock - b[k].last, BURST * REFILL})
try_take(b, k) == Tokens(b, k) >= REFILL
Taking(b, k) ==
  [b EXCEPT ![k] = [last |-> clock,
                    tokens |-> IF try_take(b, k) THEN Tokens(b, k) - REFILL ELSE Tokens(b, k)]]

BoundedPointer == {"/profile_id", "/args/cwd", "/args/url"}
is_path_field(pointer) == pointer = "/args/cwd" \/ pointer = "/args/src"

Refusal(b, h) ==
  IF h.key \notin VarKey \/ doc[h.key] = Unset THEN "lvr_undefined"
  ELSE LET var == doc[h.key] IN
       IF ~var.verified THEN "lvr_unverified"
       ELSE IF validate_value(var.type, var.value) # "ok" THEN validate_value(var.type, var.value)
       ELSE IF var.type = "profile_id" /\ var.value \notin Profiles THEN "lvr_profile_not_in_vault"
       ELSE IF ~try_take(b, h.key) THEN "lvr_rate_limited" ELSE "none"

(* st: [bucket, error, sites, given, out, last] while a text is rewritten.   *)
Judged(st, s, pointer, h, e) ==
  CASE e \notin {"none", "lvr_rate_limited"} -> [st EXCEPT !.error = e]
    [] e = "lvr_rate_limited" -> [st EXCEPT !.error = e, !.bucket = Taking(@, h.key)]
    [] e = "none" ->
         [st EXCEPT !.bucket = Taking(@, h.key),
                    !.given[h.key] = @ + 1,
                    !.sites = Append(@, [pointer |-> pointer, key |-> h.key,
                                         type |-> doc[h.key].type, clear |-> <<>>]),
                    !.out = @ \o SubSeq(s, st.last, h.start - 1) \o doc[h.key].value,
                    !.last = h.end + 1]

(* What is replaced: a reference to a variable that is not escaped.          *)
Stands(h) == ~h.escaped /\ h.ns = "lvr:"

TakeHit(st, s, pointer, h) ==
  IF st.error # "none" THEN st ELSE Judged(st, s, pointer, h, Refusal(st.bucket, h))

Rest(done, s) == [done EXCEPT !.out = @ \o SubSeq(s, done.last, Len(s))]

(* A path that references to path variables are part of is judged whole.     *)
PathJudged(done, pointer, hits) ==
  IF /\ done.error = "none" /\ is_path_field(pointer)
     /\ \E i \in DOMAIN hits : Stands(hits[i]) /\ doc[hits[i].key].type = "path"
     /\ done.out[1] # "s3:" /\ ~final_path_is_canonical(done.out)
  THEN [done EXCEPT !.error = "lvr_path_not_canonical"] ELSE done

TakeHits(st, s, pointer, hits) ==
  LET take[n \in 0..Len(hits)] ==
        IF n = 0 THEN [st EXCEPT !.out = <<>>, !.last = 1]
        ELSE IF Stands(hits[n]) THEN TakeHit(take[n - 1], s, pointer, hits[n]) ELSE take[n - 1]
  IN  IF pointer \in BoundedPointer /\ \E i \in DOMAIN hits : ~hits[i].escaped /\ hits[i].ns # "lvr:"
      THEN [st EXCEPT !.error = "cfg_ref_not_resolvable_by_broker"]
      ELSE PathJudged(Rest(take[Len(hits)], s), pointer, hits)

substitute(st, s, pointer) ==
  IF st.error # "none" THEN st ELSE TakeHits(st, s, pointer, find_all(s))

(* The flags of the row: in clear the whole field where the reference stands *)
(* for the profile, the directory or a host.                                 *)
lvr_audit_flags(site, text) ==
  IF site.pointer \in {"/profile_id", "/args/cwd"} \/ site.type = "host" THEN text ELSE <<>>

prepare(fields) ==
  LET start == [bucket |-> bucket, error |-> "none", sites |-> <<>>,
                given |-> [k \in VarKey |-> 0], out |-> <<>>, last |-> 1, texts |-> <<>>]
      Kept(st) == [st EXCEPT !.texts = Append(@, st.out)]
      walk[n \in 0..Len(fields)] ==
        IF n = 0 THEN start ELSE Kept(substitute(walk[n - 1], fields[n].text, fields[n].pointer))
  IN  walk[Len(fields)]

(* What the call becomes once its fields are st.                             *)
Prepared(fields, st) ==
  LET TextOf(site) == st.texts[CHOOSE i \in DOMAIN fields : fields[i].pointer = site.pointer]
  IN  /\ bucket' = st.bucket
      /\ taken' = [k \in VarKey |-> [taken[k] EXCEPT ![clock] = @ + st.given[k]]]
      /\ resolved' = [fields |-> [i \in DOMAIN fields |-> [pointer |-> fields[i].pointer,
                                  text |-> fields[i].text, out |-> st.texts[i]]],
                      error |-> st.error,
                      sites |-> [i \in DOMAIN st.sites |->
                        [st.sites[i] EXCEPT !.clear = lvr_audit_flags(st.sites[i], TextOf(st.sites[i]))]]]

Resolve(fields) ==
  /\ ncalls < MaxCalls /\ ncalls' = ncalls + 1
  /\ Prepared(fields, prepare(fields))
  /\ UNCHANGED <<tree, doc, clock, changes>>

(* vars set: the value is checked in the tree as it is now.                  *)
Set(t, confirmed) ==
  /\ changes < MaxChanges /\ changes' = changes + 1
  /\ validate_value(t.type, t.value) = "ok"
  /\ doc' = [doc EXCEPT ![t.key] = Var(t, confirmed)]
  /\ resolved' = NoCall
  /\ UNCHANGED <<tree, clock, bucket, taken, ncalls>>

Relink(t) ==
  /\ changes < MaxChanges /\ changes' = changes + 1
  /\ tree' = t /\ resolved' = NoCall
  /\ UNCHANGED <<doc, clock, bucket, taken, ncalls>>

Pass ==
  /\ clock < MaxClock /\ clock' = clock + 1 /\ resolved' = NoCall
  /\ UNCHANGED <<tree, doc, bucket, taken, changes, ncalls>>

SubstitutionNext ==
  \/ \E fields \in Arguments : Resolve(fields)
  \/ \E t \in Typed, confirmed \in BOOLEAN : Set(t, confirmed)
  \/ \E t \in Trees : Relink(t)
  \/ Pass

SubstitutionSpec == SubstitutionInit /\ [][SubstitutionNext]_uvars

-------------------------------------------------------------------------------
(* Properties.                                                               *)

(* The document is not changed while resolved holds a call, so that what the *)
(* call was given is still there.                                            *)
Resolved == resolved.error = "none" /\ resolved.fields # <<>>

(* What a text becomes, without a scan: an unescaped reference to a variable *)
(* stands for its value, every other word for itself, in what a value        *)
(* contains nothing is looked for.                                           *)
Standing(s) ==
  {i \in DOMAIN s : /\ MatchAt(s, i).end # 0 /\ Stands(MatchAt(s, i))
                    /\ i > 1 => s[i - 1] # "\\"}
Meaning(s, i) ==
  IF i \in Standing(s) THEN doc[MatchAt(s, i).key].value
  ELSE IF \E b \in Standing(s) : i \in b..MatchAt(s, b).end THEN <<>> ELSE <<s[i]>>
Meant(s) == FlattenSeq([i \in DOMAIN s |-> Meaning(s, i)])

(* resolve.rs, "a single left-to-right pass".                                *)
OncePassed == \A i \in DOMAIN resolved.fields :
  resolved.fields[i].out = Meant(resolved.fields[i].text)

(* A path made with a path variable is the place it spells: there is no ..   *)
(* in it and no component of it is a link, but for a link that leads         *)
(* nowhere, for which Path::exists answers as for no link at all.            *)
AsSpelled == \A i \in DOMAIN resolved.fields :
  LET f == resolved.fields[i]  p == components(f.out)
  IN  /\ is_path_field(f.pointer) /\ f.out # <<>> /\ f.out[1] # "s3:"
      /\ \E j \in DOMAIN resolved.sites :
           resolved.sites[j].pointer = f.pointer /\ resolved.sites[j].type = "path"
      => ~Contains(p, <<"..">>) /\ \A n \in Linked(p) : ~Exists(Ancestor(p, n))

(* lvr_audit_flags, "the flag column stays unambiguous": no field that the   *)
(* flags hold in clear has a comma, unless the caller wrote it or a variable *)
(* of type string brought it.                                                *)
FlagsSplit == \A j \in DOMAIN resolved.sites :
  LET site == resolved.sites[j]
      owns(f) == f.pointer = site.pointer /\ Contains(f.text, ",")
  IN  Contains(site.clear, ",") =>
        \/ \E i \in DOMAIN resolved.fields : owns(resolved.fields[i])
        \/ \E n \in DOMAIN resolved.sites :
             resolved.sites[n].pointer = site.pointer /\ resolved.sites[n].type = "string"

(* RF-CLI-6, "30 per minute, burst 10": in no span of time are more values   *)
(* of a variable handed out than a full bucket and what it gains; and a call *)
(* is refused for that only when a bucket's worth was handed out, the call's *)
(* own included, in the time it takes to fill.                               *)
InAll(counts, from, to) ==
  LET sum[t \in from - 1..to] == IF t < from THEN 0 ELSE sum[t - 1] + counts[t]
  IN  sum[to]
Handed(k, from, to) == InAll(taken[k], from, to)
RateKept ==
  /\ \A k \in VarKey : \A from \in 0..clock : \A to \in from..clock :
       REFILL * Handed(k, from, to) <= BURST * REFILL + (to - from)
  /\ resolved.error = "lvr_rate_limited" =>
       \E k \in VarKey : Handed(k, Max({0, clock - BURST * REFILL}), clock) >= BURST

ResolvedAsMeant == RateKept /\ (Resolved => OncePassed /\ AsSpelled /\ FlagsSplit)
===============================================================================
