------------------------------ MODULE OutputFilter ------------------------------
(***************************************************************************)
(* How the values of local variables and credentials are taken out of what *)
(* a call answers and of what its audit row says (src/vars/filter.rs, the  *)
(* end of tools_call_inner and tools_call in src/mcp/server.rs), and out   *)
(* of the listing of the rows (src/cli/audit.rs).                          *)
(*                                                                         *)
(* A text is a sequence of characters, which are numbers; a credential the *)
(* detection finds is one of them, and so is what replaces it. The marker  *)
(* {{lvr:k}} of the variable k is written -k. What detection finds is in   *)
(* Detection, when a variable may change during a call is in Broker.       *)
(***************************************************************************)
EXTENDS Integers, Sequences, SequencesExt, FiniteSets

CONSTANTS MIN_MASKED_LEN,        \* shorter values stay as they are
          MAX_ERROR_MESSAGE_LEN, \* characters of a row's message
          Token, Redacted,       \* a credential, and its redaction
          Separator, Ellipsis, Digest, \* further characters of the program's own
          Docs,    \* the documents of vars.blob: sequences of [type, value]
          Saying,   \* what a primitive may say
          Names    \* the names of the fields it may answer

VARIABLES stage,    \* of the call: "idle", "run", "filter", "done", "listed"
          doc,      \* vars.blob, <<>> when there is none
          unlocked, \* the vault's key is in memory
          writer,   \* the server has its audit writer
          form,     \* how the call ends
          known,    \* the maskable values the filter works with
          wire,     \* the texts of the answer, by their place in it
          raw,      \* the same before the filter
          row,      \* the call's audit row: [message, flags]
          then,     \* vars.blob when the row was completed
          rows,     \* rows with the flag lvr_output_masked
          listing   \* what `audit` prints of the row

(* A variable's value is a text of the owner's; its key is its position.     *)
IsDoc(d) == DOMAIN d = 1..Len(d) /\ Len(d) \in Nat /\ \A k \in DOMAIN d : d[k].value \in Seq(Nat)

ASSUME FilterConstants ==
  /\ MIN_MASKED_LEN \in Nat \ {0}
  /\ {Token, Redacted, Separator, Ellipsis, Digest} \subseteq Nat /\ Token # Redacted
  /\ MAX_ERROR_MESSAGE_LEN \in Nat \ {0}
  /\ \A d \in Docs : IsDoc(d)
  /\ Saying \cup Names \subseteq Seq(Nat)

fvars == <<stage, doc, unlocked, writer, form, known, wire, raw, row, then, rows, listing>>

Form == {"ok", "raw_token", "invalid_args", "failed"}
Blank == <<>>
NoVars == <<>>
NoRow == [message |-> Blank, flags |-> Blank]

FilterInit ==
  /\ stage = "idle" /\ doc \in Docs \cup {NoVars} /\ unlocked \in BOOLEAN
  /\ writer \in (IF unlocked THEN {TRUE} ELSE BOOLEAN)
  /\ form = "ok" /\ known = Blank /\ wire = <<>> /\ raw = <<>>
  /\ row = NoRow /\ then = NoVars /\ rows = 0 /\ listing = NoRow

-------------------------------------------------------------------------------
(* KnownValues. *)

Maskable(d) == {k \in DOMAIN d : d[k].type # "port" /\ Len(d[k].value) >= MIN_MASKED_LEN}

(* Variant: the values in the order of their keys.                           *)
LongerFirstByKey(d, j, k) == j < k

(* The longest first, those of one length by their keys.                     *)
LongerFirst(d, j, k) ==
  \/ Len(d[j].value) > Len(d[k].value)
  \/ Len(d[j].value) = Len(d[k].value) /\ j < k

from_doc(d) ==
  LET N    == Cardinality(Maskable(d))
      keys == CHOOSE f \in Bijection(1..N, Maskable(d)) :
                 \A m, n \in 1..N : m < n => LongerFirst(d, f[m], f[n])
  IN  [n \in 1..N |-> [key |-> keys[n], value |-> d[keys[n]].value]]

(* Blank when the vault is locked or there is no vars.blob.                *)
known_values == IF unlocked THEN from_doc(doc) ELSE Blank

HasAt(s, i, v) == i + Len(v) - 1 <= Len(s) /\ SubSeq(s, i, i + Len(v) - 1) = v

(* One pass from left to right: the first value of vs that begins here.      *)
scrub_str(vs, s) ==
  LET scan[i \in 1..Len(s) + 1] ==
        IF i > Len(s) THEN <<>>
        ELSE LET hit == SelectInSeq(vs, LAMBDA v : HasAt(s, i, v.value))
             IN  IF hit = 0 THEN <<s[i]>> \o scan[i + 1]
                 ELSE <<-vs[hit].key>> \o scan[i + Len(vs[hit].value)]
  IN  scan[1]

scrub_value(vs, v) == [p \in DOMAIN v |-> scrub_str(vs, v[p])]

Masked(v) == \E p \in DOMAIN v : \E c \in Range(v[p]) : c < 0

Sanitized(s) == [i \in DOMAIN s |-> IF s[i] = Token THEN Redacted ELSE s[i]]

truncate(s) ==
  IF Len(s) <= MAX_ERROR_MESSAGE_LEN THEN s
  ELSE SubSeq(s, 1, MAX_ERROR_MESSAGE_LEN - 1) \o <<Ellipsis>>

-------------------------------------------------------------------------------
(* One call. *)

(* The value of the variable k, if the call names one: in clear where the    *)
(* call has it for its directory, its profile or a host.                     *)
lvr_audit_flags(k, clear) ==
  IF k = 0 THEN Blank ELSE IF clear THEN doc[k].value ELSE <<Digest>>

(* The values are taken before the call, so that the vault may lock in it.   *)
StartCall(k, clear) ==
  /\ stage = "idle" /\ (k # 0 => unlocked)
  /\ known' = known_values /\ stage' = "run"
  /\ row' = IF writer THEN [row EXCEPT !.flags = lvr_audit_flags(k, clear)] ELSE row
  /\ UNCHANGED <<doc, unlocked, writer, form, wire, raw, then, rows, listing>>

(* The text is the rendering of the answer, an object of one field; the      *)
(* structured answer is redacted in its values only.                         *)
build_sanitized_payload(f, name, said) ==
  IF f = "raw_token" THEN [text |-> said, leaf |-> said]
  ELSE [text |-> Sanitized(name \o <<Separator>> \o said),
        name |-> name, leaf |-> Sanitized(said)]

scrub_audit_message(msg) == scrub_str(known_values, msg)

(* The primitive ends, its row is completed, the answer is built: the row's  *)
(* message is cut before the values of now are taken out of it.              *)
Complete(f, name, said) ==
  /\ stage = "run"
  /\ form' = f
  /\ row' = IF ~writer \/ f \in {"ok", "raw_token"} THEN row
            ELSE [row EXCEPT !.message = scrub_audit_message(truncate(Sanitized(said)))]
  /\ wire' = CASE f \in {"ok", "raw_token"} -> build_sanitized_payload(f, name, said)
               [] f = "failed" -> [message |-> Sanitized(said)]
               [] f = "invalid_args" -> [message |-> Sanitized(said),
                                         data |-> Sanitized(said)]
  /\ then' = doc /\ raw' = wire' /\ stage' = "filter"
  /\ UNCHANGED <<doc, unlocked, writer, known, rows, listing>>

(* The one place where answers leave the server.                             *)
Filter ==
  /\ stage = "filter"
  /\ known' = IF known # Blank THEN known ELSE known_values
  /\ wire' = scrub_value(known', wire)
  /\ rows' = IF Masked(wire') /\ writer THEN rows + 1 ELSE rows
  /\ stage' = "done"
  /\ UNCHANGED <<doc, unlocked, writer, form, raw, row, then, listing>>

(* `audit` in a terminal, which opens the vault by its session or not; from  *)
(* here on unlocked is what that process has.                                *)
List(session) ==
  /\ stage = "done" /\ writer
  /\ listing' = IF session THEN scrub_value(from_doc(doc), row) ELSE row
  /\ unlocked' = session /\ stage' = "listed"
  /\ UNCHANGED <<doc, writer, form, known, wire, raw, row, then, rows>>

IdleLock ==
  /\ stage = "run" /\ unlocked
  /\ unlocked' = FALSE
  /\ UNCHANGED <<stage, doc, writer, form, known, wire, raw, row, then, rows, listing>>

(* The owner sets the first variables of this machine.                       *)
FirstVars ==
  /\ stage \in {"run", "filter"} /\ doc = NoVars
  /\ doc' \in Docs
  /\ UNCHANGED <<stage, unlocked, writer, form, known, wire, raw, row, then, rows, listing>>

FilterNext ==
  \/ \E k \in {0} \cup DOMAIN doc, clear \in BOOLEAN : StartCall(k, clear)
  \/ Filter \/ IdleLock \/ FirstVars
  \/ \E session \in BOOLEAN : List(session)
  \/ \E f \in Form, name \in Names, said \in Saying : Complete(f, name, said)

FilterSpec == FilterInit /\ [][FilterNext]_fvars

-------------------------------------------------------------------------------
(* Properties.                                                             *)

Values(d) == {d[k].value : k \in Maskable(d)}
Holds(s, v) == \E i \in DOMAIN s : HasAt(s, i, v)

(* The text a masked one stands for.                                         *)
Expanded(d, s) == FlattenSeq([i \in DOMAIN s |-> IF s[i] < 0 THEN d[-s[i]].value ELSE <<s[i]>>])

(* s is r with values replaced by markers: nothing else is changed, no value *)
(* is left, and where two of them begin at one place no rest of the longer   *)
(* is left behind the marker of the shorter.                                 *)
MaskedFrom(d, r, s) ==
  /\ Expanded(d, s) = r
  /\ \A v \in Values(d) : ~Holds(s, v)
  /\ \A n \in DOMAIN s : s[n] < 0 =>
       LET i == Len(Expanded(d, SubSeq(s, 1, n - 1))) + 1
       IN  \A v \in Values(d) : HasAt(r, i, v) => Len(v) <= Len(d[-s[n]].value)

(* tools_call, "the broker's single egress point": whenever the values could *)
(* be read at the beginning or at the end of a call, its answer is masked in *)
(* every place, also when the vault was locked in between, and the masking   *)
(* is recorded whenever it happened. No credential leaves except by the      *)
(* escape hatch, or as the name of a field. The row's message holds no value *)
(* unless the vault was locked by then (of one that the cut of the message   *)
(* has split, a part may stay); what the row holds in clear the listing      *)
(* masks when it can.                                                        *)
NothingLeavesUnmasked ==
  stage \in {"done", "listed"} =>
    /\ known # Blank => \A p \in DOMAIN wire : MaskedFrom(doc, raw[p], wire[p])
    /\ stage = "done" /\ unlocked /\ doc # NoVars => known = from_doc(doc)
    /\ writer => rows = IF wire # raw THEN 1 ELSE 0
    /\ form # "raw_token" => \A p \in DOMAIN wire \ {"name"} : Token \notin Range(wire[p])
    /\ stage = "done" /\ unlocked =>
         \A v \in Values(then) : ~Holds(row.message, v)
    /\ stage = "listed" /\ unlocked =>
         \A p \in DOMAIN listing : \A v \in Values(doc) : ~Holds(listing[p], v)
===============================================================================
