----------------------------- MODULE DaemonLease -----------------------------
(***************************************************************************)
(* The lease that makes one clausula-daemon the owner of a CLAUSULA_HOME,  *)
(* and the daemon life cycle that runs under it (clausula/api/daemon.py).  *)
(*                                                                         *)
(* The lease is an flock on the file home/daemon.lock.  An flock belongs   *)
(* to the inode that was opened, not to the path: the model keeps the two  *)
(* apart, since release() drops the flock first and removes the path       *)
(* afterwards.  An inode is free for reuse once it has no path and no      *)
(* process has it open, so a finite set of inodes loses no behaviour.      *)
(*                                                                         *)
(* Each daemon process runs main(): acquire the lease, open the Store,     *)
(* write daemon-auth.json, serve, remove daemon-auth.json, release.  It    *)
(* may be killed between any two steps; the kernel then drops its flock.   *)
(***************************************************************************)
EXTENDS Naturals, FiniteSets

CONSTANTS Daemons,            \* daemon processes started on one home
          Inodes,           \* inodes the lock file can have
          NoInode, NoProc,  \* "no path", "no holder"
          NoManifest,       \* daemon-auth.json does not exist
          StaleManifest     \* daemon-auth.json names a process that is gone

ASSUME LeaseAssumption ==
  /\ NoInode \notin Inodes
  /\ NoProc \notin Daemons
  /\ {NoManifest, StaleManifest} \cap Daemons = {}

VARIABLES
  phase,     \* where each process is in main()
  fd,        \* the inode each process has opened
  linked,    \* the inode that the path daemon.lock names
  holder,    \* the process holding the flock of each inode
  manifest,  \* whose credentials daemon-auth.json contains
  raced      \* history: a start has overlapped the end of a release

leaseVars == <<phase, fd, linked, holder, manifest, raced>>

OwnerStages == {"leased", "published", "serving", "closing", "releasing"}
Stages == {"down", "opened", "unlocked"} \cup OwnerStages

\* From the return of acquire() to the LOCK_UN of release().
Owner(p) == phase[p] \in OwnerStages

LeaseTypeOK ==
  /\ phase \in [Daemons -> Stages]
  /\ fd \in [Daemons -> Inodes \cup {NoInode}]
  /\ linked \in Inodes \cup {NoInode}
  /\ holder \in [Inodes -> Daemons \cup {NoProc}]
  /\ manifest \in Daemons \cup {NoManifest, StaleManifest}
  /\ raced \in BOOLEAN

LeaseInit ==
  /\ phase = [p \in Daemons |-> "down"]
  /\ fd = [p \in Daemons |-> NoInode]
  /\ linked = NoInode
  /\ holder = [i \in Inodes |-> NoProc]
  /\ manifest \in {NoManifest, StaleManifest}
  /\ raced = FALSE

Advances(p, label) == phase' = [phase EXCEPT ![p] = label]

InodeFree(i) == i # linked /\ \A p \in Daemons : fd[p] # i

\* The process is gone: its descriptor is closed and what it wrote to
\* daemon-auth.json is from now on the leftover of a dead daemon.
Terminate(p) ==
  /\ Advances(p, "down")
  /\ fd' = [fd EXCEPT ![p] = NoInode]

Leftover(p) == IF manifest = p THEN StaleManifest ELSE manifest

-----------------------------------------------------------------------------
(* acquire() *)

\* path.open("a+"): opens the file the path names, creating it if need be.
Open(p) ==
  /\ phase[p] = "down"
  /\ \/ linked # NoInode /\ UNCHANGED linked
     \/ linked = NoInode /\ \E i \in Inodes : InodeFree(i) /\ linked' = i
  /\ fd' = [fd EXCEPT ![p] = linked']
  /\ Advances(p, "opened")
  /\ UNCHANGED <<holder, manifest>>

\* flock(LOCK_EX | LOCK_NB) succeeds; the pid is written to the file.
Lock(p) ==
  /\ phase[p] = "opened"
  /\ holder[fd[p]] = NoProc
  /\ holder' = [holder EXCEPT ![fd[p]] = p]
  /\ Advances(p, "leased")
  /\ UNCHANGED <<fd, linked, manifest>>

\* Mutants: the clean-up of a rejected start removes the lock file, or the
\* credentials, of the daemon that is running.
RejectUnlinks(p) ==
  /\ phase[p] = "opened"
  /\ holder[fd[p]] # NoProc
  /\ Terminate(p)
  /\ linked' = NoInode
  /\ UNCHANGED <<holder, manifest>>

RejectRemovesManifest(p) ==
  /\ phase[p] = "opened"
  /\ holder[fd[p]] # NoProc
  /\ Terminate(p)
  /\ manifest' = NoManifest
  /\ UNCHANGED <<linked, holder>>

\* flock raises BlockingIOError: DaemonAlreadyRunning, and the process ends.
Reject(p) ==
  /\ phase[p] = "opened"
  /\ holder[fd[p]] # NoProc
  /\ Terminate(p)
  /\ UNCHANGED <<linked, holder, manifest>>

-----------------------------------------------------------------------------
(* main(), inside "with DaemonLease(...)" *)

\* write_auth_manifest: os.replace puts this daemon's credentials in place.
Publish(p) ==
  /\ phase[p] = "leased"
  /\ manifest' = p
  /\ Advances(p, "published")
  /\ UNCHANGED <<fd, linked, holder>>

\* Store(), create_server() or write_auth_manifest() raises, or the process is
\* interrupted before the try block of serve_forever(): the with statement
\* releases the lease and nothing removes daemon-auth.json.
AbortStartup(p) ==
  /\ phase[p] \in {"leased", "published"}
  /\ Advances(p, "releasing")
  /\ UNCHANGED <<fd, linked, holder, manifest>>

ServeForever(p) ==
  /\ phase[p] = "published"
  /\ Advances(p, "serving")
  /\ UNCHANGED <<fd, linked, holder, manifest>>

\* serve_forever() returns or raises; server_close().
Shutdown(p) ==
  /\ phase[p] = "serving"
  /\ Advances(p, "closing")
  /\ UNCHANGED <<fd, linked, holder, manifest>>

\* auth_path.unlink(missing_ok=True), whoever wrote the file; store.close().
RemoveManifest(p) ==
  /\ phase[p] = "closing"
  /\ manifest' = NoManifest
  /\ Advances(p, "releasing")
  /\ UNCHANGED <<fd, linked, holder>>

-----------------------------------------------------------------------------
(* release() *)

\* Mutant: the flock is only given back if the path still names the file that this
\* daemon opened.
UnlockIfLinked(p) ==
  /\ phase[p] = "releasing"
  /\ fd[p] = linked
  /\ holder' = [holder EXCEPT ![fd[p]] = NoProc]
  /\ Advances(p, "unlocked")
  /\ UNCHANGED <<fd, linked, manifest>>

\* flock(LOCK_UN).
Unlock(p) ==
  /\ phase[p] = "releasing"
  /\ holder' = [holder EXCEPT ![fd[p]] = NoProc]
  /\ Advances(p, "unlocked")
  /\ UNCHANGED <<fd, linked, manifest>>

\* stream.close(), then path.unlink(missing_ok=True), whatever inode the path
\* names by now; the process ends.
Unlink(p) ==
  /\ phase[p] = "unlocked"
  /\ linked' = NoInode
  /\ Terminate(p)
  /\ manifest' = Leftover(p)
  /\ UNCHANGED holder

\* Mutant: a lock file that outlives its process, as a pid file would.
CrashKeepsLock(p) ==
  /\ phase[p] # "down"
  /\ Terminate(p)
  /\ manifest' = Leftover(p)
  /\ UNCHANGED <<linked, holder>>

\* The process is killed: no finally block runs, the kernel drops the flock.
Crash(p) ==
  /\ phase[p] # "down"
  /\ holder' = [i \in Inodes |-> IF holder[i] = p THEN NoProc ELSE holder[i]]
  /\ Terminate(p)
  /\ manifest' = Leftover(p)
  /\ UNCHANGED linked

-----------------------------------------------------------------------------
Release(p) == Unlock(p) \/ Unlink(p)

DaemonStep(p) ==
  \/ Open(p) \/ Lock(p) \/ Reject(p)
  \/ Publish(p) \/ AbortStartup(p) \/ ServeForever(p)
  \/ Shutdown(p) \/ RemoveManifest(p)
  \/ Unlock(p) \/ Unlink(p)
  \/ Crash(p)

\* A daemon is being started while another is between LOCK_UN and the unlink
\* that ends its release().
Straddle == \E p, q \in Daemons : phase[p] = "opened" /\ phase[q] = "unlocked"

LeaseNext ==
  /\ \E p \in Daemons : DaemonStep(p)
  /\ raced' = (raced \/ Straddle')

LeaseSpec == LeaseInit /\ [][LeaseNext]_leaseVars

\* Once a shutdown has begun nothing in main() or release() waits for another
\* process, and neither does an attempt to acquire: LOCK_NB does not block.
LeaseFairSpec ==
  /\ LeaseSpec
  /\ \A p \in Daemons : WF_phase(Lock(p) \/ Reject(p) \/ RemoveManifest(p) \/ Release(p))

-----------------------------------------------------------------------------
(* Properties *)

\* A lease is backed by an flock and an flock by a lease: every owner holds the
\* flock of the inode it opened, and no flock outlives the daemon that took it,
\* however that daemon ended, so a dead daemon cannot lock its home for ever.
LeaseBacked ==
  /\ \A p \in Daemons : Owner(p) => fd[p] \in Inodes /\ holder[fd[p]] = p
  /\ \A i \in Inodes :
       holder[i] # NoProc => Owner(holder[i]) /\ fd[holder[i]] = i

\* "OS file lock preventing two Clausula daemon writers per home": no two
\* processes are between acquire() and release() at once.
OneOwner == \A p, q \in Daemons : Owner(p) /\ Owner(q) => p = q

\* daemon-auth.json holds the credentials of the daemon that serves, and not those
\* of an earlier daemon and not nothing: a client that reads it is let in.
ManifestMatchesServer == \A p \in Daemons : phase[p] = "serving" => manifest = p

\* As long as no start has overlapped the end of a release, one process at a time
\* owns the home, and its manifest is that of the daemon that serves.
QuietOwner == ~raced => OneOwner /\ ManifestMatchesServer

\* A daemon that has begun to shut down gives its lease back, whatever other
\* processes do to the lock file meanwhile.
ShutdownFreesHome == \A p \in Daemons : phase[p] = "closing" ~> ~Owner(p)

\* The process that owns the lease, if there is one and nothing has raced.
Writer == IF ~raced /\ \E p \in Daemons : Owner(p)
            THEN CHOOSE p \in Daemons : Owner(p)
            ELSE NoProc

Abstract == INSTANCE SingleWriter WITH Procs <- Daemons, writer <- Writer

\* Until a start overlaps the end of a release the lease implements the single
\* writer: one owner at a time, and never a direct hand-over from one process
\* to another.
ImplementsSingleWriter == Abstract!Spec

=============================================================================
