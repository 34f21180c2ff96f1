------------------------------ MODULE MCProTokens ------------------------------
(***************************************************************************)
(* Small instances of ProTokens, three terminals and two clients, and of   *)
(* OidcLogin, two logins and a range of two ports.  ProTokens takes up     *)
(* where OidcLogin ends, with the tokens of a login that succeeded: a      *)
(* behaviour is one of the one or one of the other.                        *)
(***************************************************************************)
EXTENDS ProTokens, OidcLogin, TLC

VARIABLE part

MCInit ==
  /\ Init /\ OidcInit
  /\ \/ part = "tokens" /\ bound = {}
     \/ part = "login" /\ ~rotates

MCNext ==
  \/ part = "tokens" /\ Next /\ UNCHANGED <<oidcvars, part>>
  \/ part = "login" /\ OidcNext /\ UNCHANGED <<vars, part>>

MCSpec == MCInit /\ [][MCNext]_<<vars, oidcvars, part>>

MCSymmetry == Permutations(Terminal) \cup Permutations(Client)
================================================================================
