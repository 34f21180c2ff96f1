------------------------------ MODULE ServeBoot ------------------------------
(***************************************************************************)
(* Where `kvendra mcp serve` finds its key when a client launches it       *)
(* (src/cli/mcp.rs), and the commands that move the master password from   *)
(* the client's configuration into the OS keychain                         *)
(* (src/cli/config_mcp_password.rs, src/keychain_acl).                     *)
(*                                                                         *)
(* A key is abstracted to the password it is derived from: a key opens the *)
(* vault when it is the one the vault's sentinel was sealed with.  The     *)
(* client is the program that launches the server: it keeps its servers,   *)
(* and data of its own, in one JSON file that the migration rewrites.      *)
(***************************************************************************)
EXTENDS Naturals, FiniteSets

CONSTANTS Password,    \* master passwords, right and wrong
          None,        \* no password: not typed, not set, no item, no session
          MaxCommands, \* bound on the commands the human starts
          MaxLaunches, \* bound on the servers the client launches
          MaxEdits     \* bound on what the client writes into its own file

ASSUME BootConstants ==
  /\ None \notin Password
  /\ MaxCommands \in Nat /\ MaxLaunches \in Nat /\ MaxEdits \in Nat

VARIABLES
  macos,     \* is the platform the one with a presence-gated keychain?
  sentinel,  \* the password the vault was created with
  derived,      \* the key in an active, unexpired session blob, or None
  item,      \* the keychain item of the MCP password, or None
  client,    \* the client's configuration file, or Torn
  wrapper,   \* is the wrapper script of earlier releases there?
  backups,   \* the configurations the migration has put aside
  tool,      \* the mcp-password command the human runs
  server,    \* the server the client launches
  commands,  \* commands started
  launches,  \* servers launched
  edits,     \* edits of the client to its own file
  excuses    \* what a server that does not come up may blame

files == <<sentinel, derived, item, client, wrapper, backups>>
count == <<commands, launches, edits>>
bvars == <<macos, files, tool, server, count, excuses>>

Key == Password \cup {None}

(* The entry mcpServers.kvendra of the client's file, and its other content. *)
Client == [command : {"kvendra", "wrapper"}, use_keychain : BOOLEAN, env : Key,
           other : 0..MaxEdits]
Torn == [command |-> "torn"]

Tool == [at : {"idle", "prompt", "delete", "add", "backup", "truncate", "write", "unwrap"},
         does : {"none", "enable", "migrate", "disable"},
         read : Client \cup {Torn}, pw : Key]
Resting == [at |-> "idle", does |-> "none", read |-> Torn, pw |-> None]

Server == [at : {"none", "session", "password", "open", "unlocked", "pending", "refused"},
           use_keychain : BOOLEAN, env : Key, pw : Key, asked : BOOLEAN]
Absent == [at |-> "none", use_keychain |-> FALSE, env |-> None, pw |-> None, asked |-> FALSE]

BootTypeOK ==
  /\ macos \in BOOLEAN /\ wrapper \in BOOLEAN
  /\ sentinel \in Password
  /\ derived \in Key /\ item \in Key
  /\ client \in Client \cup {Torn} /\ backups \subseteq Client \cup {Torn}
  /\ tool \in Tool /\ server \in Server
  /\ commands \in 0..MaxCommands /\ launches \in 0..MaxLaunches /\ edits \in 0..MaxEdits

(* A set-up that serves: the password in the client's environment, in the   *)
(* keychain, or in the keychain of an earlier release behind the wrapper.   *)
BootInit ==
  /\ macos \in BOOLEAN
  /\ sentinel \in Password
  /\ derived \in Key
  /\ item \in {None} \cup (IF macos THEN {sentinel} ELSE {})
  /\ client \in [command : {"kvendra", "wrapper"}, use_keychain : BOOLEAN,
                 env : {None, sentinel}, other : {0}]
  /\ client.command = "wrapper" => item # None /\ ~client.use_keychain /\ client.env = None
  /\ client.use_keychain => item # None /\ client.env = None
  /\ wrapper = (client.command = "wrapper")
  /\ backups = {}
  /\ tool = Resting /\ server = Absent
  /\ commands = 0 /\ launches = 0 /\ edits = 0
  /\ excuses = {}

Blame(what) == excuses' = excuses \cup {what}

------------------------------------------------------------------------------
(* The commands of the human, a step for each file or item they change.     *)

Start(does, at, c) ==
  /\ tool.at = "idle"
  /\ commands < MaxCommands
  /\ commands' = commands + 1
  /\ tool' = [at |-> at, does |-> does, read |-> c, pw |-> None]
  /\ UNCHANGED <<macos, files, server, launches, edits, excuses>>

Ends == tool' = Resting

(* enable is refused outright where there is no such keychain. *)
Enable == macos /\ Start("enable", "prompt", Torn)

(* The password is in the environment the client gives its servers, or the  *)
(* client launches the wrapper and the human types it again; anything else, *)
(* a file that does not parse included, is refused.                         *)
Migrate ==
  /\ client # Torn
  /\ \/ client.env # None /\ Start("migrate", "delete", client)
     \/ client.env = None /\ client.command = "wrapper" /\ Start("migrate", "prompt", client)

Disable == Start("disable", "delete", Torn)

(* The human's answer is taken as it is: nothing compares it with the vault. *)
Typed(pw) ==
  /\ tool.at = "prompt"
  /\ IF pw = None THEN Ends ELSE tool' = [tool EXCEPT !.at = "delete", !.pw = pw]
  /\ IF pw \in Password \ {sentinel} THEN Blame("typed") ELSE UNCHANGED excuses
  /\ UNCHANGED <<macos, files, server, count>>

Secret == IF tool.pw # None THEN tool.pw ELSE tool.read.env

(* save_with_user_presence removes the old item before it adds the new one.  *)
DeleteItem ==
  /\ tool.at = "delete"
  /\ \/ /\ macos /\ item' = None
        /\ tool' = [tool EXCEPT !.at = IF tool.does = "disable" THEN "unwrap" ELSE "add"]
     \/ /\ ~macos /\ item' = item
        /\ IF tool.does = "disable" THEN tool' = [tool EXCEPT !.at = "unwrap"] ELSE Ends
     \/ macos /\ tool.does = "disable" /\ item' = item /\ Ends  \* the keychain fails
  /\ IF tool.does = "disable" THEN Blame("disabled") ELSE UNCHANGED excuses
  /\ UNCHANGED <<macos, sentinel, derived, client, wrapper, backups, server, count>>

AddItem ==
  /\ tool.at = "add"
  /\ item' = Secret
  /\ IF tool.does = "enable" THEN Ends ELSE tool' = [tool EXCEPT !.at = "backup"]
  /\ UNCHANGED <<macos, sentinel, derived, client, wrapper, backups, server, count, excuses>>

(* The client does not find its password anywhere else than in the keychain. *)
OnlyInKeychain == tool.read = Torn \/ tool.read.env = None

(* Variant: what the keychain answers to the new item is not looked at. *)
AddUnheard ==
  /\ tool.at = "add"
  /\ IF tool.does = "enable" THEN Ends ELSE tool' = [tool EXCEPT !.at = "backup"]
  /\ IF OnlyInKeychain THEN Blame("gone") ELSE UNCHANGED excuses
  /\ UNCHANGED <<macos, files, server, count>>

(* The keychain refuses the new item: the old one, if any, is gone already.  *)
AddFails ==
  /\ tool.at = "add"
  /\ Ends
  /\ IF OnlyInKeychain THEN Blame("gone") ELSE UNCHANGED excuses
  /\ UNCHANGED <<macos, files, server, count>>

(* The copy put aside keeps whatever the file holds, the password included.  *)
BackupClient ==
  /\ tool.at = "backup"
  /\ backups' = backups \cup {client}
  /\ tool' = [tool EXCEPT !.at = "truncate"]
  /\ UNCHANGED <<macos, sentinel, derived, item, client, wrapper, server, count, excuses>>

(* fs::write empties the file before it fills it: a death in between leaves  *)
(* a file that does not parse.                                               *)
TruncateClient ==
  /\ tool.at = "truncate"
  /\ client' = Torn
  /\ tool' = [tool EXCEPT !.at = "write"]
  /\ UNCHANGED <<macos, sentinel, derived, item, wrapper, backups, server, count, excuses>>

Migrated(c) == [c EXCEPT !.command = "kvendra", !.use_keychain = TRUE, !.env = None]

WriteClient ==
  /\ tool.at = "write"
  /\ client' = Migrated(tool.read)
  /\ tool' = [tool EXCEPT !.at = "unwrap"]
  /\ UNCHANGED <<macos, sentinel, derived, item, wrapper, backups, server, count, excuses>>

RemoveWrapper ==
  /\ tool.at = "unwrap"
  /\ wrapper' = FALSE
  /\ Ends
  /\ UNCHANGED <<macos, sentinel, derived, item, client, backups, server, count, excuses>>

(* The command is interrupted.  Between the two halves of a save there is no *)
(* item; a half-written client file is put back from the copy by the human.  *)
Interrupted ==
  /\ tool.at # "idle"
  /\ Ends
  /\ IF tool.at = "add" /\ OnlyInKeychain
       THEN Blame("gone") ELSE UNCHANGED excuses
  /\ UNCHANGED <<macos, files, server, count>>

RestoreClient(c) ==
  /\ tool.at = "idle" /\ client = Torn /\ c \in backups \ {Torn}
  /\ client' = c
  /\ UNCHANGED <<macos, sentinel, derived, item, wrapper, backups, tool, server, count, excuses>>

(* The client writes data of its own into its file. *)
ClientSaves ==
  /\ client # Torn /\ edits < MaxEdits
  /\ edits' = edits + 1
  /\ client' = [client EXCEPT !.other = edits + 1]
  /\ UNCHANGED <<macos, sentinel, derived, item, wrapper, backups, tool, server, commands,
                 launches, excuses>>

------------------------------------------------------------------------------
(* The vault and its session under a running command.                        *)

(* unlock in the human's terminal, lock, or the session's end. *)
SessionBecomes(key) ==
  /\ key \in {None, sentinel} \ {derived}
  /\ derived' = key
  /\ UNCHANGED <<macos, sentinel, item, client, wrapper, backups, tool, server, count, excuses>>

(* The home is put aside and init run again: the session blob, the keychain  *)
(* and the client's file still hold the key of the vault before.             *)
Recreated(pw) ==
  /\ pw \in Password \ {sentinel}
  /\ sentinel' = pw
  /\ Blame("recreated")
  /\ UNCHANGED <<macos, derived, item, client, wrapper, backups, tool, server, count>>

------------------------------------------------------------------------------
(* The launched server: attach_session_key.                                  *)

(* The client starts what its file says.  An argument and a variable that    *)
(* exclude each other end the command line before anything is opened.        *)
Launch ==
  /\ server.at \in {"none", "unlocked", "pending", "refused"}
  /\ launches < MaxLaunches
  /\ client # Torn /\ client.command = "kvendra"
  /\ launches' = launches + 1
  /\ server' = [at |-> IF client.use_keychain /\ client.env # None THEN "refused" ELSE "session",
                use_keychain |-> client.use_keychain, env |-> client.env, pw |-> None,
                asked |-> FALSE]
  /\ UNCHANGED <<macos, files, tool, commands, edits, excuses>>

(* Vault::unlock derives a key and opens the sentinel with it;               *)
(* unlock_from_derived_key opens it with the key of the session blob.           *)
OpensByPassword(pw) == pw = sentinel
OpensByKey(key)     == key # None /\ key = sentinel

(* A session of another vault, or none that is usable: the others follow.    *)
TrySession ==
  /\ server.at = "session"
  /\ server' = IF OpensByKey(derived)
                 THEN [server EXCEPT !.at = "unlocked", !.pw = derived]
               ELSE IF server.use_keychain \/ server.env # None
                 THEN [server EXCEPT !.at = "password"]
               ELSE [server EXCEPT !.at = "pending"]
  /\ UNCHANGED <<macos, files, tool, count, excuses>>

(* resolve_password.  The keychain shows a popup, which may be dismissed; no *)
(* item, a platform without it and any other failure refuse to start.        *)
TakePassword ==
  /\ server.at = "password"
  /\ \/ ~server.use_keychain /\ server' = [server EXCEPT !.at = "open", !.pw = server.env]
     \/ /\ server.use_keychain /\ macos /\ item # None
        /\ server' = [server EXCEPT !.at = "open", !.pw = item, !.asked = TRUE]
     \/ /\ server.use_keychain /\ (~macos \/ item = None)
        /\ server' = [server EXCEPT !.at = "refused"]
  /\ IF server.use_keychain /\ item = None /\ tool.at = "add"
       THEN Blame("crossed") ELSE UNCHANGED excuses
  /\ UNCHANGED <<macos, files, tool, count>>

PopupDismissed ==
  /\ server.at = "password" /\ server.use_keychain /\ macos /\ item # None
  /\ server' = [server EXCEPT !.at = "refused", !.asked = TRUE]
  /\ Blame("dismissed")
  /\ UNCHANGED <<macos, files, tool, count>>

(* unlock with the password: a wrong one refuses to start. *)
Open ==
  /\ server.at = "open"
  /\ server' = [server EXCEPT !.at = IF OpensByPassword(server.pw) THEN "unlocked" ELSE "refused"]
  /\ UNCHANGED <<macos, files, tool, count, excuses>>

------------------------------------------------------------------------------

BootNext ==
  \/ Enable \/ Migrate \/ Disable
  \/ \E pw \in Key : Typed(pw)
  \/ DeleteItem \/ AddItem \/ AddFails
  \/ BackupClient \/ TruncateClient \/ WriteClient \/ RemoveWrapper
  \/ Interrupted
  \/ \E c \in backups : RestoreClient(c)
  \/ ClientSaves
  \/ \E key \in Key : SessionBecomes(key)
  \/ \E pw \in Password : Recreated(pw)
  \/ Launch \/ TrySession \/ TakePassword \/ PopupDismissed \/ Open

BootSpec == BootInit /\ [][BootNext]_bvars

(* A client whose file names a password source gets a server that comes up:  *)
(* wherever a migration is interrupted, whatever the keychain refuses, and   *)
(* however often the commands are repeated, the file never asks for a        *)
(* password that is not where it says, unless the human typed another one,   *)
(* disabled the item, dismissed the popup or created another vault, the      *)
(* keychain took an item away and refused the next, or the server read       *)
(* between the two.                                                          *)
ServerComesUp == server.at = "refused" => excuses # {}
=============================================================================
