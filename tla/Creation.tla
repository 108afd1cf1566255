------------------------------ MODULE Creation ------------------------------
(***************************************************************************)
(* How a database file comes to exist and who may have it open:            *)
(* create_with_options, open_with_options, create_database_file and Drop   *)
(* in lkv/src/database/mod.rs.  Several processes create and open the same *)
(* path at once.  The directory, the files' durability and the advisory    *)
(* lock are the operating system's; a hard link, a remove and a try_lock   *)
(* are atomic.                                                             *)
(***************************************************************************)
EXTENDS Naturals, FiniteSets

CONSTANTS
    Procs,
    None,
    Path,               \* the name of the database
    Failures,           \* a subset of FailureKinds
    MAX_ATTEMPTS,       \* temporary names tried by one create (16 in the code)
    MaxNames,           \* bound: a create starts only with names for all its attempts
    MaxFiles,           \* bound: files that exist at once
    BareName            \* the path has no directory part, as "example.lkv"

FailureKinds == {"io", "kill", "power"}

Temps == Procs \X (0 .. MaxNames - 1)
Names == {Path} \cup Temps
Files == 1 .. MaxFiles

ASSUME CreationAssumption ==
    /\ Failures \subseteq FailureKinds
    /\ MAX_ATTEMPTS \in Nat \ {0}
    /\ MaxNames \in Nat \ {0}
    /\ MaxFiles \in Nat \ {0}
    /\ BareName \in BOOLEAN
    /\ None \notin Procs /\ None \notin Files
    /\ Path \notin Temps

VARIABLES
    dir,        \* name -> the file it names, or None
    durable,    \* the directory as last synced
    content,    \* file -> "blank", "written" or "synced"
    lock,       \* file -> the process that holds its lock
    proc,       \* process -> where it is in create or open
    acked       \* ghost: the file of the create that last returned Ok

vars == <<dir, durable, content, lock, proc, acked>>

Points == {"idle", "temp", "write", "sync", "link", "published", "remove", "clean",
           "collided", "lost", "lock", "load", "open"}

Results == {"none", "ok", "exists", "busy", "failed"}

\* n is NEXT_CREATION_FILE, tries the turns of the creation loop.
Process == [at : Points, op : {"create", "open"}, n : 0 .. MaxNames,
            tries : 0 .. MAX_ATTEMPTS, file : Files \cup {None},
            temp : Temps \cup {None}, result : Results]

Fresh == [at |-> "idle", op |-> "open", n |-> 0, tries |-> 0, file |-> None,
          temp |-> None, result |-> "none"]

-----------------------------------------------------------------------------
(* Control of one process, and the steps the failure paths share.          *)

At(p, point) == proc[p].at = point

Become(p, s) == proc' = [proc EXCEPT ![p] = s]

Go(p, point) == Become(p, [proc[p] EXCEPT !.at = point])

\* The call returns: whatever file it had open is closed.
Returned(p, result) ==
    [proc[p] EXCEPT !.at = "idle", !.tries = 0, !.result = result, !.file = None,
                    !.temp = None]

Return(p, result) == Become(p, Returned(p, result))

\* A plausible slip: an early return that keeps the file open.
UnlockForgotten(p) == UNCHANGED lock

\* Closing the file, and with it the lock.
Unlock(p) == lock' = [f \in Files |-> IF lock[f] = p THEN None ELSE lock[f]]

IOError == "io" \in Failures

Removed(p) == [dir EXCEPT ![proc[p].temp] = None]

\* `let _ = fs::remove_file(&temporary)`: an error is ignored.
RemoveQuietly(p) == dir' = Removed(p) \/ (IOError /\ dir' = dir)

\* drop(file), remove the temporary name if possible, return the error.
Abandon(p) ==
    /\ IOError
    /\ RemoveQuietly(p)
    /\ Unlock(p)
    /\ Return(p, "failed")
    /\ UNCHANGED <<durable, content, acked>>

\* An error returned with `?`: the file is dropped, the names stay.
Fail(p) ==
    /\ Unlock(p)
    /\ Return(p, "failed")
    /\ UNCHANGED <<dir, durable, content, acked>>

\* A plausible slip: the directory is not synced.
SyncDirectorySkipped(d) == UNCHANGED durable

\* sync_directory makes the directory's entries durable ...
SyncDirectory(d) == durable' = d

\* ... and fails for the empty parent of a bare name: open("") is an error.
SyncDirectoryFails == IOError \/ BareName

-----------------------------------------------------------------------------
(* create.                                                                 *)

\* symlink_metadata: the path must not exist yet.  Another error of it returns
\* before anything has changed and is left out.
CreateCheck(p) ==
    /\ At(p, "idle")
    /\ \/ /\ dir[Path] # None
          /\ Become(p, [Returned(p, "exists") EXCEPT !.op = "create"])
       \/ /\ dir[Path] = None
          /\ proc[p].n + MAX_ATTEMPTS <= MaxNames
          /\ Become(p, [proc[p] EXCEPT !.at = "temp", !.op = "create", !.tries = 0,
                                       !.result = "none"])
    /\ UNCHANGED <<dir, durable, content, lock, acked>>

\* A file no name and no process refers to.
Unused(f) ==
    /\ \A m \in Names : dir[m] # f /\ durable[m] # f
    /\ \A q \in Procs : proc[q].file # f

\* The loop takes MAX_ATTEMPTS turns.
AttemptsLeft(p) == proc[p].tries < MAX_ATTEMPTS

\* One turn of the loop: a temporary name taken from the process id and a
\* counter, create_new, and the lock of the new file, which nobody else opens
\* by that name.  When the lock fails the file is removed as Abandon does it.
CreateTemp(p) ==
    LET name == <<p, proc[p].n>>
    IN  /\ At(p, "temp")
        /\ AttemptsLeft(p)
        /\ \/ /\ dir[name] # None
              /\ Become(p, [proc[p] EXCEPT !.n = @ + 1, !.tries = @ + 1])
              /\ UNCHANGED <<dir, content, lock>>
           \/ /\ dir[name] = None
              /\ \E f \in Files :
                  /\ Unused(f)
                  /\ \A g \in Files : Unused(g) => f <= g
                  /\ dir' = [dir EXCEPT ![name] = f]
                  /\ content' = [content EXCEPT ![f] = "blank"]
                  /\ lock' = [lock EXCEPT ![f] = p]
                  /\ Become(p, [proc[p] EXCEPT !.at = "write", !.n = @ + 1, !.file = f,
                                               !.temp = name])
           \/ /\ IOError
              /\ Become(p, [Returned(p, "failed") EXCEPT !.n = @ + 1])
              /\ UNCHANGED <<dir, content, lock>>
        /\ UNCHANGED <<durable, acked>>

\* "could not allocate a unique database creation file"
CreateExhausted(p) ==
    /\ At(p, "temp")
    /\ ~AttemptsLeft(p)
    /\ Return(p, "exists")
    /\ UNCHANGED <<dir, durable, content, lock, acked>>

\* initialize_file: the pages and the empty Base ...
InitializeWrite(p) ==
    /\ At(p, "write")
    /\ \/ /\ content' = [content EXCEPT ![proc[p].file] = "written"]
          /\ Go(p, "sync")
          /\ UNCHANGED <<dir, durable, lock, acked>>
       \/ Abandon(p)

\* A plausible slip: the file is linked before it is synced.
InitializeSyncSkipped(p) ==
    /\ At(p, "sync")
    /\ Go(p, "link")
    /\ UNCHANGED <<dir, durable, content, lock, acked>>

\* ... and sync_all.
InitializeSync(p) ==
    /\ At(p, "sync")
    /\ \/ /\ content' = [content EXCEPT ![proc[p].file] = "synced"]
          /\ Go(p, "link")
          /\ UNCHANGED <<dir, durable, lock, acked>>
       \/ Abandon(p)

\* hard_link publishes the file, unless another process was first.
Link(p) ==
    /\ At(p, "link")
    /\ \/ /\ dir[Path] = None
          /\ dir' = [dir EXCEPT ![Path] = proc[p].file]
          /\ Go(p, "published")
          /\ UNCHANGED <<durable, content, lock, acked>>
       \/ /\ dir[Path] # None
          /\ Unlock(p)
          /\ Go(p, "collided")
          /\ UNCHANGED <<dir, durable, content, acked>>
       \/ Abandon(p)

\* The loser removes its temporary file ...
CollidedRemove(p) ==
    /\ At(p, "collided")
    /\ \/ /\ dir' = Removed(p)
          /\ Go(p, "lost")
          /\ UNCHANGED <<durable, content, lock, acked>>
       \/ IOError /\ Fail(p)

\* ... and syncs the directory.
CollidedSync(p) ==
    /\ At(p, "lost")
    /\ \/ /\ ~BareName
          /\ SyncDirectory(dir)
          /\ Return(p, "exists")
          /\ UNCHANGED <<dir, content, lock, acked>>
       \/ SyncDirectoryFails /\ Fail(p)

\* The published name is made durable.
PublishSync(p) ==
    /\ At(p, "published")
    /\ \/ /\ ~BareName
          /\ SyncDirectory(dir)
          /\ Go(p, "remove")
          /\ UNCHANGED <<dir, content, lock, acked>>
       \/ SyncDirectoryFails /\ Fail(p)

RemoveTemp(p) ==
    /\ At(p, "remove")
    /\ \/ /\ dir' = Removed(p)
          /\ Go(p, "clean")
          /\ UNCHANGED <<durable, content, lock, acked>>
       \/ IOError /\ Fail(p)

RemoveSync(p) ==
    /\ At(p, "clean")
    /\ \/ /\ ~BareName
          /\ SyncDirectory(dir)
          /\ Go(p, "load")
          /\ UNCHANGED <<dir, content, lock, acked>>
       \/ SyncDirectoryFails /\ Fail(p)

-----------------------------------------------------------------------------
(* open, and what both share.                                              *)

\* open_database_file opens whatever the path names ...
OpenFile(p) ==
    /\ At(p, "idle")
    /\ \/ /\ dir[Path] # None
          /\ Become(p, [proc[p] EXCEPT !.at = "lock", !.op = "open", !.file = dir[Path],
                                       !.result = "none"])
       \/ /\ dir[Path] = None
          /\ Become(p, [Returned(p, "failed") EXCEPT !.op = "open"])
    /\ UNCHANGED <<dir, durable, content, lock, acked>>

\* A plausible slip: the lock is shared.
LockFileShared(p) ==
    /\ At(p, "lock")
    /\ lock' = [lock EXCEPT ![proc[p].file] = p]
    /\ Go(p, "load")
    /\ UNCHANGED <<dir, durable, content, acked>>

\* ... and tries its lock, without waiting.
LockFile(p) ==
    /\ At(p, "lock")
    /\ \/ /\ lock[proc[p].file] = None
          /\ lock' = [lock EXCEPT ![proc[p].file] = p]
          /\ Go(p, "load")
       \/ /\ lock[proc[p].file] # None
          /\ Return(p, "busy")
          /\ UNCHANGED lock
    /\ UNCHANGED <<dir, durable, content, acked>>

\* from_storage: load_storage_state reads the file; a handle, or an error.
Load(p) ==
    /\ At(p, "load")
    /\ \/ /\ content[proc[p].file] # "blank"
          /\ Become(p, [proc[p] EXCEPT !.at = "open", !.tries = 0, !.result = "ok",
                                       !.temp = None])
          /\ acked' = IF proc[p].op = "create" THEN proc[p].file ELSE acked
          /\ UNCHANGED <<dir, durable, content, lock>>
       \/ (IOError \/ content[proc[p].file] = "blank") /\ Fail(p)

\* Drop: unlock, then close.
Close(p) ==
    /\ At(p, "open")
    /\ Unlock(p)
    /\ Return(p, "none")
    /\ UNCHANGED <<dir, durable, content, acked>>

-----------------------------------------------------------------------------
(* The environment.                                                        *)

\* The process dies and comes back under the same process id, as it does in a
\* container: its counter of temporary names starts again.
Kill(p) ==
    /\ "kill" \in Failures
    /\ ~At(p, "idle")
    /\ Unlock(p)
    /\ Become(p, Fresh)
    /\ UNCHANGED <<dir, durable, content, acked>>

\* The machine stops: a name changed since the last sync of the directory may
\* or may not have reached the disk, and so may a file that was not synced.
PowerFail ==
    /\ "power" \in Failures
    /\ \E D \in SUBSET {m \in Names : dir[m] # durable[m]} :
        /\ dir' = [m \in Names |-> IF m \in D THEN durable[m] ELSE dir[m]]
        /\ durable' = dir'
    /\ \E B \in SUBSET {f \in Files : content[f] = "written"} :
        content' = [f \in Files |-> IF f \in B THEN "blank"
                                    ELSE IF content[f] = "written" THEN "synced"
                                    ELSE content[f]]
    /\ lock' = [f \in Files |-> None]
    /\ proc' = [p \in Procs |-> Fresh]
    /\ UNCHANGED acked

-----------------------------------------------------------------------------
Init ==
    /\ dir = [m \in Names |-> None]
    /\ durable = dir
    /\ content = [f \in Files |-> "blank"]
    /\ lock = [f \in Files |-> None]
    /\ proc = [p \in Procs |-> Fresh]
    /\ acked = None

Create(p) ==
    \/ CreateCheck(p) \/ CreateTemp(p) \/ CreateExhausted(p)
    \/ InitializeWrite(p) \/ InitializeSync(p)
    \/ Link(p) \/ CollidedRemove(p) \/ CollidedSync(p)
    \/ PublishSync(p) \/ RemoveTemp(p) \/ RemoveSync(p)

OpenOrClose(p) == OpenFile(p) \/ LockFile(p) \/ Load(p) \/ Close(p)

Next ==
    \/ \E p \in Procs : Create(p) \/ OpenOrClose(p) \/ Kill(p)
    \/ PowerFail

Spec == Init /\ [][Next]_vars

-----------------------------------------------------------------------------
(* Properties.                                                             *)

\* The variables have their types, and a lock is held by a process that has the
\* file open: every return of create and open, and Drop, lets go of it.
TypeOK ==
    /\ dir \in [Names -> Files \cup {None}]
    /\ durable \in [Names -> Files \cup {None}]
    /\ content \in [Files -> {"blank", "written", "synced"}]
    /\ lock \in [Files -> Procs \cup {None}]
    /\ proc \in [Procs -> Process]
    /\ acked \in Files \cup {None}
    /\ \A f \in Files : lock[f] # None => proc[lock[f]].file = f

\* Whoever opens the path finds a complete, synced database, whichever creator
\* was interrupted where, and after a power loss too: initialize_file syncs
\* before hard_link publishes.
PublishedReady == dir[Path] # None => content[dir[Path]] = "synced"

\* Once create has returned Ok the path names that file for good: the directory
\* was synced before, so no power loss takes it away, and no other creator
\* replaces it.
CreatedStays == acked # None => dir[Path] = acked /\ durable[Path] = acked

\* A process that has the database open, or is reading it, is the only one, and
\* what it has open is what the path names: two creators that raced past
\* symlink_metadata never end with a handle each.
OneOwner ==
    \A p, q \in Procs :
        (proc[p].at \in {"load", "open"} /\ proc[q].at \in {"load", "open"})
            => p = q /\ proc[p].file = dir[Path]

\* A create that meets no failure returns Ok, or finds the path taken: the
\* example of mod.rs:86, Database::create("example.lkv")?, does not fail.
CreateOpens == \A p \in Procs : ~(proc[p].op = "create" /\ proc[p].result = "failed")
=============================================================================
