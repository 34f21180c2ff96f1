------------------------------- MODULE MCBroker -------------------------------
(***************************************************************************)
(* A small instance of Broker: one profile in use and one other, two       *)
(* allowlists for the first, and calls that take every branch; and one of  *)
(* WorkspaceServer, a server and a terminal in two workspaces.  Broker's   *)
(* server takes its secrets from wherever it can, WorkspaceServer's calls  *)
(* have passed every gate of Broker: a behaviour is one of the one or one  *)
(* of the other.                                                           *)
(***************************************************************************)
EXTENDS Broker, WorkspaceServer, TLC

CONSTANTS p1, p2, o1, o2

Allowlist(p, bounds, m, destructive, uses) ==
  [of |-> p, ops |-> {o1}, bounds |-> bounds, mode |-> m,
   destructive |-> destructive, uses |-> uses]

Strict == Allowlist(p1, TRUE, Unset, TRUE, 1)
Lax    == Allowlist(p1, TRUE, "silent", FALSE, 1)
Other  == Allowlist(p2, FALSE, "ask", FALSE, 1)

Request == [raw |-> FALSE, op |-> o1, profile |-> p1, form |-> "good", ref |-> FALSE,
            hit |-> FALSE, text |-> 0, destructive |-> FALSE]

MCPolicy == {Strict, Lax, Other}
MCCall == {[Request EXCEPT !.ref = TRUE],
           [Request EXCEPT !.raw = TRUE],
           [Request EXCEPT !.op = o2, !.hit = TRUE, !.text = 1],
           [Request EXCEPT !.form = "bad_field"],
           [Request EXCEPT !.form = "bad_profile"]}

Settings(m, severity, ok) ==
  [mode |-> m, severity |-> severity, downgrade |-> FALSE, signed |-> ok]

MCDefault == Settings("ask-destructive", "warn", TRUE)
MCConfig == {MCDefault, Settings("ask", "block", TRUE), Settings("silent", "error", FALSE)}
MCRaw == {p1}

(* The instance whose behaviour it is; the other rests where it began.     *)
VARIABLE part

(* The behaviours of the broker start with one value in vars.blob.         *)
MCBrokerInit == BrokerInit /\ vars = 1

BrokerAtRest ==
  /\ MCBrokerInit /\ session /\ conf = MCDefault
  /\ yaml = [p \in Profile |-> NoPolicy] /\ \A p \in Profile : signed[p] = {}

(* Those of the workspace with every sentinel up; without a profile the    *)
(* broker offers no unusable id.                                           *)
MCWorkspaceInit ==
  /\ WsInit /\ barred = Workspace
  /\ profile = {} => \A w \in Workspace, u \in Unusable : published[w][u] = 0

WorkspaceAtRest ==
  /\ WsInit /\ live = {} /\ profile = {} /\ barred = {}
  /\ \A w \in Workspace, t \in Template : published[w][t] = 1

MCInit ==
  \/ part = "broker" /\ MCBrokerInit /\ WorkspaceAtRest
  \/ part = "workspace" /\ MCWorkspaceInit /\ BrokerAtRest

MCNext ==
  \/ part = "broker" /\ BrokerNext /\ UNCHANGED <<wsvars, part>>
  \/ part = "workspace" /\ WsNext /\ UNCHANGED <<bvars, part>>

MCSpec == MCInit /\ [][MCNext]_<<bvars, wsvars, part>>

MCSymmetry == Permutations(Workspace)
=============================================================================
