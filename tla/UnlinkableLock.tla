---------------------------- MODULE UnlinkableLock ----------------------------
(***************************************************************************)
(* The lock file beside a workspace's tokens, and the one beside its       *)
(* grant: acquire_lock opens it, creating it when missing, and flocks what *)
(* it opened; delete and revoke unlink it (src/session/store.rs,           *)
(* src/grant/store.rs).  A flock belongs to the opened file, not to the    *)
(* path, so an unlinked lock keeps its holder and its waiters while the    *)
(* next process creates and locks another one.                             *)
(***************************************************************************)
EXTENDS FiniteSets

CONSTANTS Proc,      \* processes that take the lock
          Inode,     \* files the lock path may lead to
          NoInode    \* nothing is at the path; nothing is opened

ASSUME LockConstants == NoInode \notin Inode

VARIABLES lockfile,  \* what the lock path leads to
          opened,    \* per process: the lock file it has opened
          flocked    \* processes that hold the flock of what they opened

lock == <<lockfile, opened, flocked>>

LockTypeOK ==
  /\ lockfile \in Inode \cup {NoInode}
  /\ opened \in [Proc -> Inode \cup {NoInode}]
  /\ flocked \subseteq Proc

LockInit ==
  /\ lockfile = NoInode
  /\ opened = [p \in Proc |-> NoInode]
  /\ flocked = {}

Unused == {i \in Inode : i # lockfile /\ \A p \in Proc : opened[p] # i}

(* open(create) of the lock path. *)
OpenLock(p) ==
  /\ \/ lockfile # NoInode /\ lockfile' = lockfile
     \/ lockfile = NoInode /\ Unused # {} /\ lockfile' = CHOOSE i \in Unused : TRUE
  /\ opened' = [opened EXCEPT ![p] = lockfile']
  /\ UNCHANGED flocked

(* lock_exclusive: wait until nobody holds the same file. *)
Flock(p) ==
  /\ \A q \in flocked : opened[q] # opened[p]
  /\ flocked' = flocked \cup {p}
  /\ UNCHANGED <<lockfile, opened>>

(* The guard is dropped, or the process is gone: the file is closed. *)
CloseLock(p) ==
  /\ opened' = [opened EXCEPT ![p] = NoInode]
  /\ flocked' = flocked \ {p}

Unlink == lockfile' = NoInode

(* Holders of one lock file exclude each other. *)
HoldersDiffer == \A p, q \in flocked : opened[p] = opened[q] => p = q
===============================================================================
