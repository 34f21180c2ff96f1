----------------------------- MODULE AuditEncoding -----------------------------
(***************************************************************************)
(* The bytes that the tag of an audit row authenticates                    *)
(* (src/audit/hmac.rs).  AuditChain takes a tag for the columns its layout *)
(* binds; this module is the reason why it may: no two rows have one       *)
(* encoding, in whatever layouts, unless they agree on those columns.      *)
(*                                                                         *)
(* A byte is a number, and what the code writes in a fixed width (an id, a *)
(* time, a length, a layout) is one byte here, so that it may have the     *)
(* value of the delimiter.  Of the eight text columns that every layout    *)
(* binds the last two are kept.                                            *)
(***************************************************************************)
EXTENDS Integers, Sequences, FiniteSets, Functions

CONSTANTS Number, \* values of the id and of the time
          Words,  \* values of the text columns, as sequences of bytes
          Codes   \* values of remote_audit_id and error_code, NULL apart

ASSUME EncodingConstants ==
  /\ Number \subseteq Nat /\ Words \subseteq Seq(Nat) /\ Codes \subseteq Seq(Nat)
  /\ IsFiniteSet(Number) /\ IsFiniteSet(Words) /\ IsFiniteSet(Codes)

Bar  == 0   \* the delimiter of the legacy layouts
Null == <<-1>>

Layouts == 1..4

(* RowFields: the columns of one row. *)
RowFields ==
  [id : Number, ts : Number, flags : Words, prev : Words,
   remote : Codes \cup {Null}, code : Codes \cup {Null}, message : Words \cup {Null}]

OrEmpty(o) == IF o = Null THEN <<>> ELSE o

(* legacy_mac: columns joined by bars, each layout a suffix of the one before. *)
Barred(w) == <<Bar>> \o w
legacy_mac(layout, r) ==
  <<r.id, Bar, r.ts>> \o Barred(r.flags) \o Barred(r.prev)
    \o (IF layout >= 2 THEN Barred(OrEmpty(r.remote)) ELSE <<>>)
    \o (IF layout >= 3 THEN Barred(OrEmpty(r.code)) \o Barred(OrEmpty(r.message)) ELSE <<>>)

(* injective_mac: every string with its length, every optional one with a    *)
(* mark.  The domains agree up to their third byte, and their second is not  *)
(* the bar that a legacy encoding has there.                                 *)
V4_DOMAIN                  == <<1, 1, 2>>
NONCANONICAL_LEGACY_DOMAIN == <<1, 1, 3>>

put_str(w) == <<Len(w)>> \o w
put_opt(o) == IF o = Null THEN <<0>> ELSE <<1>> \o put_str(o)

injective_mac(domain, layout, r) ==
  domain \o <<layout, r.id, r.ts>>
    \o put_str(r.flags) \o put_str(r.prev)
    \o put_opt(r.remote) \o put_opt(r.code) \o put_opt(r.message)

HasBar(w) == Bar \in Range(w)

(* Variant: the columns that a later layout has added are not looked at. *)
noncanonical_in_text(layout, r) == layout <= 3 /\ (HasBar(r.flags) \/ HasBar(r.prev))

(* legacy_noncanonical_field: some column but the last has a bar in it. *)
noncanonical(layout, r) ==
  \/ HasBar(r.flags) \/ HasBar(r.prev)
  \/ layout >= 2 /\ HasBar(OrEmpty(r.remote))
  \/ layout >= 3 /\ HasBar(OrEmpty(r.code))

legacy_or_noncanonical(layout, r) ==
  IF noncanonical(layout, r) THEN injective_mac(NONCANONICAL_LEGACY_DOMAIN, layout, r)
  ELSE legacy_mac(layout, r)

(* What the builder of a layout authenticates; it has no argument for the    *)
(* columns that its layout does not bind.                                    *)
compute_hmac_v1(r) ==
  legacy_or_noncanonical(1, [r EXCEPT !.remote = Null, !.code = Null, !.message = Null])
compute_hmac_v2(r) == legacy_or_noncanonical(2, [r EXCEPT !.code = Null, !.message = Null])
compute_hmac_v3(r) == legacy_or_noncanonical(3, r)
compute_hmac_v4(r) == injective_mac(V4_DOMAIN, 4, r)

Encoding(layout, r) ==
  CASE layout = 1 -> compute_hmac_v1(r) [] layout = 2 -> compute_hmac_v2(r)
    [] layout = 3 -> compute_hmac_v3(r) [] layout = 4 -> compute_hmac_v4(r)

(* What a verifier recomputes, or Refused. *)
Refused == <<-2>>
compute_for_layout(layout, r) ==
  CASE layout \in 1..3 /\ noncanonical(layout, r)  -> Refused
    [] layout \in 1..3 /\ ~noncanonical(layout, r) -> legacy_mac(layout, r)
    [] layout = 4                                  -> injective_mac(V4_DOMAIN, 4, r)

------------------------------------------------------------------------------
(* Properties.                                                               *)

(* The columns a layout binds.  A legacy layout reads NULL as the empty      *)
(* string, except in a row that it would not accept anyway.                  *)
Bound(layout, r) ==
  LET NullIf(unbound, o) == IF unbound THEN Null ELSE o
      Seen(o) == IF layout = 4 \/ noncanonical(layout, r) THEN o ELSE OrEmpty(o)
  IN <<layout, r.id, r.ts, r.flags, r.prev, Seen(NullIf(layout < 2, r.remote)),
       Seen(NullIf(layout < 3, r.code)), Seen(NullIf(layout < 3, r.message))>>

Rows == Layouts \X RowFields
Built      == {<<Encoding(x[1], x[2]), Bound(x[1], x[2])>> : x \in Rows}
Recomputed == {<<compute_for_layout(x[1], x[2]), Bound(x[1], x[2])>> : x \in Rows}

(* No two rows have one tag, within a layout or across layouts, unless they  *)
(* agree on the layout and on what it binds; and a verifier that does not    *)
(* refuse a row recomputes what the builder made, so that a row cannot be    *)
(* passed off as one of another layout (hmac.rs:22-36).                      *)
TagsInjective ==
  LET B == Built
  IN /\ Cardinality({b[1] : b \in B}) = Cardinality(B)
     /\ {v \in Recomputed : v[1] # Refused} \subseteq B
===============================================================================
