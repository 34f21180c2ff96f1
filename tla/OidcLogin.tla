------------------------------ MODULE OidcLogin ------------------------------
(***************************************************************************)
(* The browser login of `kvendra login` (src/auth/oidc.rs,                 *)
(* src/auth/discovery.rs): a request with a fresh state and a proof key, a *)
(* listener on the first free port of a range, the first request that      *)
(* reaches it, and the exchange of the code it carries.                    *)
(*                                                                         *)
(* Several logins may run or have been given up, and a browser page of any *)
(* of them may come back late, twice or never.  State and proof key of a   *)
(* login are abstracted to its number; a code is a number of its own, of   *)
(* which the provider remembers the request it was given for.              *)
(***************************************************************************)
EXTENDS Naturals, FiniteSets, Sequences

CONSTANTS LoginProcess,  \* processes running kvendra login
          LowPort, HighPort,
          MaxRequests,   \* bound on the logins begun
          MaxCodes       \* bound on the codes the provider gives

ASSUME LoginConstants ==
  /\ LowPort \in Nat /\ HighPort \in Nat /\ LowPort <= HighPort
  /\ MaxRequests \in Nat /\ MaxCodes \in Nat

Port == LowPort..HighPort

VARIABLES
  login,     \* per process: its step, request, port and what it received
  bound,     \* ports that are taken, by a login or by another program
  asked,     \* the port of each authorization request made; its index is its state
  pages,     \* pages of the browser about to call a port back
  codes      \* codes the provider has given, in order, and whether it has seen them used

oidcvars == <<login, bound, asked, pages, codes>>

(* What a page brings: a code (0: none) and a state (0: none), or an error.  *)
Callback == [port : Port, state : 0..MaxRequests, code : 0..MaxCodes, error : BOOLEAN]

Step == {"idle", "discovered", "listening", "returned", "exchanging", "in", "failed"}
Fresh == [at |-> "idle", request |-> 0, port |-> LowPort, state |-> 0, code |-> 0]

OidcTypeOK ==
  /\ login \in [LoginProcess -> [at : Step, request : 0..MaxRequests, port : Port,
                                 state : 0..MaxRequests, code : 0..MaxCodes]]
  /\ bound \subseteq Port
  /\ asked \in Seq(Port) /\ Len(asked) <= MaxRequests
  /\ pages \subseteq Callback
  /\ codes \in Seq([request : 1..MaxRequests, used : BOOLEAN]) /\ Len(codes) <= MaxCodes

OidcInit ==
  /\ login = [p \in LoginProcess |-> Fresh]
  /\ bound \in SUBSET Port
  /\ asked = <<>>
  /\ pages = {}
  /\ codes = <<>>

At(p, step) == login[p].at = step

(* The listener lives until the callback is answered or the process ends.    *)
Listens(p) == At(p, "listening")

Finish(p, step) == login' = [login EXCEPT ![p].at = step]

------------------------------------------------------------------------------
(* The command.                                                              *)

(* The provider's document names the endpoints, or the login ends here.      *)
Discover(p) ==
  /\ login[p].at \in {"idle", "in", "failed"}
  /\ Len(asked) + Cardinality({q \in LoginProcess : At(q, "discovered")}) < MaxRequests
  /\ login' = [login EXCEPT ![p] = [Fresh EXCEPT !.at = "discovered"]]
  /\ UNCHANGED <<bound, asked, pages, codes>>

PortsExhausted(p) ==
  /\ At(p, "discovered") /\ bound = Port
  /\ Finish(p, "failed")
  /\ UNCHANGED <<bound, asked, pages, codes>>

(* The first port that is free, and a fresh state and proof key. *)
Request(p) ==
  /\ At(p, "discovered") /\ bound # Port
  /\ LET port == CHOOSE x \in Port \ bound : \A y \in Port \ bound : x <= y
     IN  /\ bound' = bound \cup {port}
         /\ login' = [login EXCEPT ![p].at = "listening", ![p].port = port,
                                   ![p].request = Len(asked) + 1]
         /\ asked' = Append(asked, port)
  /\ UNCHANGED <<pages, codes>>

(* The first request that arrives is the answer, whatever its path; it is    *)
(* answered with the page of success and the listener is closed.             *)
Receive(p, c) ==
  /\ Listens(p) /\ c.port = login[p].port
  /\ bound' = bound \ {login[p].port}
  /\ login' = [login EXCEPT
       ![p].at = IF c.error \/ c.code = 0 \/ c.state = 0 THEN "failed" ELSE "returned",
       ![p].state = c.state, ![p].code = c.code]

(* The page stays where it was: it may be reloaded. *)
CalledBack(p, c) ==
  /\ c \in pages
  /\ Receive(p, c)
  /\ UNCHANGED <<asked, pages, codes>>

(* Another program, or the browser on its own account, asks for something.   *)
StrayRequest(p) ==
  /\ Receive(p, [port |-> login[p].port, state |-> 0, code |-> 0, error |-> FALSE])
  /\ UNCHANGED <<asked, pages, codes>>

CallbackTimedOut(p) ==
  /\ Listens(p)
  /\ bound' = bound \ {login[p].port}
  /\ Finish(p, "failed")
  /\ UNCHANGED <<asked, pages, codes>>

(* Variant: the state that came back is not compared. *)
AnyState(state, request) == TRUE

StateMatches(state, request) == state = request

CheckState(p) ==
  /\ At(p, "returned")
  /\ Finish(p, IF StateMatches(login[p].state, login[p].request) THEN "exchanging" ELSE "failed")
  /\ UNCHANGED <<bound, asked, pages, codes>>

RedirectUri(p) == login[p].port

(* The provider takes a code once, from the request it was given for, under  *)
(* the redirect it was given with.                                           *)
ExchangeCode(p) ==
  LET code == login[p].code
      own  == /\ codes[code].request = login[p].request
              /\ asked[codes[code].request] = RedirectUri(p)
  IN  /\ At(p, "exchanging")
      /\ codes' = [codes EXCEPT ![code].used = TRUE]
      /\ Finish(p, IF own /\ ~codes[code].used THEN "in" ELSE "failed")
      /\ UNCHANGED <<bound, asked, pages>>

(* Any step of the network fails; the provider may have seen the code.       *)
NetworkFails(p) ==
  /\ login[p].at \in {"discovered", "exchanging"}
  /\ \/ UNCHANGED codes
     \/ At(p, "exchanging") /\ codes' = [codes EXCEPT ![login[p].code].used = TRUE]
  /\ Finish(p, "failed")
  /\ UNCHANGED <<bound, asked, pages>>

(* The human gives the login up at the terminal: its page stays open.        *)
GivenUp(p) ==
  /\ login[p].at \in {"listening", "returned", "exchanging"}
  /\ bound' = IF Listens(p) THEN bound \ {login[p].port} ELSE bound
  /\ login' = [login EXCEPT ![p] = Fresh]
  /\ UNCHANGED <<asked, pages, codes>>

------------------------------------------------------------------------------
(* The browser, the provider and other programs.                             *)

(* Somebody authenticates on the page of a request, now or long after: the   *)
(* provider redirects to the port of the request with a new code.            *)
Authenticated(request) ==
  LET new == Len(codes) + 1
  IN  /\ new <= MaxCodes
      /\ codes' = Append(codes, [request |-> request, used |-> FALSE])
      /\ pages' = pages \cup {[port |-> asked[request], state |-> request, code |-> new,
                               error |-> FALSE]}
      /\ UNCHANGED <<login, bound, asked>>

Denied(request) ==
  /\ pages' = pages \cup {[port |-> asked[request], state |-> request, code |-> 0,
                           error |-> TRUE]}
  /\ UNCHANGED <<login, bound, asked, codes>>

PageClosed(c) ==
  /\ c \in pages
  /\ pages' = pages \ {c}
  /\ UNCHANGED <<login, bound, asked, codes>>

OtherProgram(port) ==
  /\ \A p \in LoginProcess : ~(Listens(p) /\ login[p].port = port)
  /\ bound' = IF port \in bound THEN bound \ {port} ELSE bound \cup {port}
  /\ UNCHANGED <<login, asked, pages, codes>>

------------------------------------------------------------------------------

LoginStep(p) ==
  \/ Discover(p) \/ PortsExhausted(p) \/ Request(p)
  \/ \E c \in pages : CalledBack(p, c)
  \/ StrayRequest(p) \/ CallbackTimedOut(p)
  \/ CheckState(p) \/ ExchangeCode(p) \/ NetworkFails(p) \/ GivenUp(p)

OidcNext ==
  \/ \E p \in LoginProcess : LoginStep(p)
  \/ \E r \in 1..Len(asked) : Authenticated(r) \/ Denied(r)
  \/ \E c \in pages : PageClosed(c)
  \/ \E port \in Port : OtherProgram(port)

OidcSpec == OidcInit /\ [][OidcNext]_oidcvars

(* What a login hands the provider is a code given for its own request, and  *)
(* one whose redirect the provider will recognise: pages of logins given up, *)
(* reloaded pages and pages of a login that had this port before never make  *)
(* it spend another login's code (oidc.rs, OidcStateMismatch).  And nobody   *)
(* is logged in but by a code that was handed over.                          *)
OwnCodeOnly ==
  /\ \A p \in LoginProcess : At(p, "exchanging") =>
       /\ codes[login[p].code].request = login[p].request
       /\ asked[login[p].request] = RedirectUri(p)
  /\ \A p \in LoginProcess : At(p, "in") => codes[login[p].code].used
  /\ \A p, q \in LoginProcess :
       p # q /\ At(p, "in") /\ At(q, "in") => login[p].code # login[q].code
=============================================================================
