-------------------------- MODULE Creation_proofs ---------------------------
(***************************************************************************)
(* Proofs about Creation, for any number of processes, files, temporary    *)
(* names and attempts, and every combination of failures.                  *)
(***************************************************************************)
EXTENDS Creation, TLAPS

\* Points at which create or open holds the lock of its file.
Holding ==
    {"write", "sync", "link", "published", "remove", "clean", "load", "open"}

\* Points of create before the file has its final name.
Private == {"write", "sync", "link"}

\* Points at which the file is the one the path names.
OnPath == {"published", "remove", "clean", "lock", "load", "open"}

\* Points of create after the path was made durable.
Synced == {"remove", "clean"}

\* Points at which create has a temporary name.
Named == Private \cup {"published", "remove", "clean", "collided", "lost"}

Types ==
    /\ dir \in [Names -> Files \cup {None}]
    /\ durable \in [Names -> Files \cup {None}]
    /\ content \in [Files -> {"blank", "written", "synced"}]
    /\ lock \in [Files -> Procs \cup {None}]
    /\ proc \in [Procs -> Process]
    /\ acked \in Files \cup {None}

\* A process at a point with a file has one, its temporary name is not the
\* path, only open waits for a lock, and the loop has names left for its
\* remaining turns.
Locals(p) ==
    /\ proc[p].at \notin {"idle", "temp"} => proc[p].file \in Files
    /\ proc[p].at \in Named => proc[p].temp \in Temps
    /\ proc[p].at = "lock" => proc[p].op = "open"
    /\ proc[p].at = "temp" =>
           proc[p].n + (MAX_ATTEMPTS - proc[p].tries) <= MaxNames

\* The lock of a file is held by the process that works on it, and by no other.
Locked(p) ==
    \A f \in Files :
        lock[f] = p <=> (proc[p].at \in Holding /\ proc[p].file = f)

\* How far the file of a process has come.
Progress(p) ==
    /\ proc[p].at = "link" => content[proc[p].file] = "synced"
    /\ proc[p].at \in Private =>
           dir[Path] # proc[p].file /\ durable[Path] # proc[p].file
    /\ proc[p].at \in OnPath => dir[Path] = proc[p].file
    /\ proc[p].at \in Synced => durable[Path] = proc[p].file
    /\ proc[p].at = "load" /\ proc[p].op = "create" => durable[Path] = proc[p].file

\* Both directories name complete databases only.
Ready ==
    /\ dir[Path] # None => content[dir[Path]] = "synced"
    /\ durable[Path] # None => content[durable[Path]] = "synced"

\* The inductive invariant.
CreationInv ==
    /\ Types
    /\ \A p \in Procs : Locals(p) /\ Locked(p) /\ Progress(p)
    /\ Ready
    /\ CreatedStays
-----------------------------------------------------------------------------
(* Steps of one process.                                                   *)

\* A step of p leaves the invariant of every other process alone: it publishes
\* at most its own file, and only where there is none.
LEMMA OthersKeep ==
    ASSUME CreationInv, NEW p \in Procs,
           \A q \in Procs \ {p} : proc'[q] = proc[q],
           \A q \in Procs \ {p} : \A f \in Files : lock'[f] = q <=> lock[f] = q,
           \A q \in Procs \ {p} : proc[q].at = "link" =>
               content'[proc[q].file] = content[proc[q].file],
           \/ dir'[Path] = dir[Path]
           \/ dir[Path] = None /\ dir'[Path] \in Files /\ lock[dir'[Path]] = p,
           durable'[Path] \in {durable[Path], dir[Path]}
    PROVE  \A q \in Procs \ {p} : Locals(q)' /\ Locked(q)' /\ Progress(q)'
<1> SUFFICES ASSUME NEW q \in Procs \ {p}
             PROVE  Locals(q)' /\ Locked(q)' /\ Progress(q)'
  OBVIOUS
<1>1. Locals(q) /\ Locked(q) /\ Progress(q) /\ proc'[q] = proc[q]
  BY DEF CreationInv
<1>2. Locals(q)' /\ Locked(q)'
  BY <1>1 DEF Locals, Locked
<1>3. proc[q].at \in OnPath => dir'[Path] = dir[Path]
  BY <1>1, CreationAssumption DEF Progress, Locals, OnPath
<1>4. proc[q].at \in Private => dir'[Path] # proc[q].file
  BY <1>1, CreationAssumption DEF Progress, Locals, Locked, Private, Holding
<1> QED
  BY <1>1, <1>2, <1>3, <1>4
     DEF Progress, Private, OnPath, Synced

\* What is left to show of a step of p once the others are settled.
LEMMA StepKeeps ==
    ASSUME NEW p \in Procs,
           \A q \in Procs \ {p} : Locals(q)' /\ Locked(q)' /\ Progress(q)',
           Types', Locals(p)', Locked(p)', Progress(p)', Ready', CreatedStays'
    PROVE  CreationInv'
BY DEF CreationInv

\* A return: the file is closed, the lock let go, the directory is the same
\* under the path.
LEMMA ReturnKeeps ==
    ASSUME CreationInv, NEW p \in Procs, NEW s \in Process,
           s.at \in {"idle", "temp"}, proc' = [proc EXCEPT ![p] = s],
           s.at = "temp" => s.n + (MAX_ATTEMPTS - s.tries) <= MaxNames,
           Unlock(p) \/ (UNCHANGED lock /\ proc[p].at \notin Holding),
           dir' \in [Names -> Files \cup {None}], dir'[Path] = dir[Path],
           durable' \in {durable, dir}, UNCHANGED <<content, acked>>
    PROVE  CreationInv'
<1>1. Types' /\ durable'[Path] \in {durable[Path], dir[Path]}
  BY DEF CreationInv, Types, Unlock
<1>2. proc'[p] = s /\ \A q \in Procs \ {p} : proc'[q] = proc[q]
  BY DEF CreationInv, Types
<1>3. \A f \in Files : lock'[f] # p
  BY CreationAssumption DEF CreationInv, Types, Unlock, Locked
<1>4. \A q \in Procs \ {p} : \A f \in Files : lock'[f] = q <=> lock[f] = q
  BY CreationAssumption DEF CreationInv, Types, Unlock
<1>5. \A q \in Procs \ {p} : Locals(q)' /\ Locked(q)' /\ Progress(q)'
  BY <1>1, <1>2, <1>4, OthersKeep
<1>6. Locals(p)' /\ Locked(p)' /\ Progress(p)'
  BY <1>2, <1>3 DEF Locals, Locked, Progress, Holding, Private, OnPath, Synced, Named
<1>7. Ready' /\ CreatedStays'
  BY <1>1, CreationAssumption DEF CreationInv, Types, Ready, CreatedStays, Names
<1> QED
  BY <1>1, <1>5, <1>6, <1>7, StepKeeps

\* The records a process returns with.
LEMMA ReturnedType ==
    ASSUME CreationInv, NEW p \in Procs, NEW r \in Results
    PROVE  /\ Returned(p, r) \in Process
           /\ Returned(p, r).at = "idle"
           /\ Returned(p, r).n = proc[p].n
<1> DEFINE R(s) == [s EXCEPT !.at = "idle", !.tries = 0, !.result = r, !.file = None,
                            !.temp = None]
<1>1. "idle" \in Points /\ 0 \in 0 .. MAX_ATTEMPTS
  BY CreationAssumption DEF Points
<1>2. ASSUME NEW s \in Process PROVE R(s) \in Process
  BY <1>1, Zenon DEF Process
<1>3. ASSUME NEW s \in Process PROVE R(s).at = "idle" /\ R(s).n = s.n
  BY DEF Process
<1>4. proc[p] \in Process /\ Returned(p, r) = R(proc[p])
  BY DEF CreationInv, Types, Returned
<1> HIDE DEF R
<1> QED
  BY <1>2, <1>3, <1>4

\* Removing a temporary name leaves the path alone.
LEMMA RemovedPath ==
    ASSUME CreationInv, NEW p \in Procs, proc[p].at \in Named
    PROVE  Removed(p) \in [Names -> Files \cup {None}] /\ Removed(p)[Path] = dir[Path]
BY CreationAssumption DEF CreationInv, Types, Locals, Removed, Names

\* An error returned with `?`.
LEMMA FailKeeps ==
    ASSUME CreationInv, NEW p \in Procs, Fail(p)
    PROVE  CreationInv'
<1>1. Returned(p, "failed") \in Process /\ Returned(p, "failed").at = "idle"
  BY ReturnedType DEF Results
<1>2. /\ Unlock(p) /\ proc' = [proc EXCEPT ![p] = Returned(p, "failed")]
      /\ UNCHANGED <<dir, durable, content, acked>>
  BY DEF Fail, Return, Become
<1>3. dir' \in [Names -> Files \cup {None}] /\ dir'[Path] = dir[Path] /\ durable' \in {durable, dir}
  BY <1>2 DEF CreationInv, Types
<1> QED
  BY <1>1, <1>2, <1>3, ReturnKeeps, Zenon

\* An error before the file is published: the temporary name goes, the path stays.
LEMMA AbandonKeeps ==
    ASSUME CreationInv, NEW p \in Procs, proc[p].at \in Named, Abandon(p)
    PROVE  CreationInv'
<1>1. Returned(p, "failed") \in Process /\ Returned(p, "failed").at = "idle"
  BY ReturnedType DEF Results
<1>2. /\ Unlock(p) /\ proc' = [proc EXCEPT ![p] = Returned(p, "failed")]
      /\ UNCHANGED <<durable, content, acked>>
  BY DEF Abandon, Return, Become
<1>3. dir' \in [Names -> Files \cup {None}] /\ dir'[Path] = dir[Path] /\ durable' \in {durable, dir}
  BY <1>2, RemovedPath DEF CreationInv, Types, Abandon, RemoveQuietly
<1> QED
  BY <1>1, <1>2, <1>3, ReturnKeeps, Zenon

\* A process that moves on keeps everything but its point.
LEMMA GoFields ==
    ASSUME CreationInv, NEW p \in Procs, NEW a \in Points, Go(p, a)
    PROVE  /\ proc' \in [Procs -> Process]
           /\ \A q \in Procs \ {p} : proc'[q] = proc[q]
           /\ proc'[p].at = a
           /\ proc'[p].op = proc[p].op
           /\ proc'[p].file = proc[p].file
           /\ proc'[p].temp = proc[p].temp
<1>1. ASSUME NEW s \in Process
      PROVE  /\ [s EXCEPT !.at = a] \in Process
             /\ [s EXCEPT !.at = a].at = a
             /\ [s EXCEPT !.at = a].op = s.op
             /\ [s EXCEPT !.at = a].file = s.file
             /\ [s EXCEPT !.at = a].temp = s.temp
  BY DEF Process
<1> QED
  BY <1>1 DEF CreationInv, Types, Go, Become

\* initialize_file works on a file that neither directory has under the path:
\* no other process and no reader of the path is affected.
LEMMA InitializeKeeps ==
    ASSUME CreationInv, NEW p \in Procs, NEW a \in {"sync", "link"},
           NEW c \in {"written", "synced"}, a = "link" => c = "synced",
           proc[p].at \in {"write", "sync"}, Go(p, a),
           content' = [content EXCEPT ![proc[p].file] = c],
           UNCHANGED <<dir, durable, lock, acked>>
    PROVE  CreationInv'
<1>1. a \in Points
  BY DEF Points
<1>2. /\ proc' \in [Procs -> Process]
      /\ \A q \in Procs \ {p} : proc'[q] = proc[q]
      /\ proc'[p].at = a
      /\ proc'[p].file = proc[p].file
      /\ proc'[p].temp = proc[p].temp
  BY <1>1, GoFields
<1>3. Types'
  BY <1>2, Zenon DEF CreationInv, Types
<1>4. proc[p].file \in Files /\ lock[proc[p].file] = p
  BY DEF CreationInv, Locals, Locked, Holding
<1>5. \A q \in Procs \ {p} : proc[q].at = "link" => proc[q].file # proc[p].file
  BY <1>4 DEF CreationInv, Locked, Holding
<1>6. \A q \in Procs \ {p} : Locals(q)' /\ Locked(q)' /\ Progress(q)'
  <2>1. \A q \in Procs \ {p} : proc[q].at = "link" =>
            content'[proc[q].file] = content[proc[q].file]
    BY <1>4, <1>5 DEF CreationInv, Types, Locals
  <2> QED
    BY <1>2, <2>1, OthersKeep
<1>7. Locals(p)' /\ Locked(p)' /\ Progress(p)'
  BY <1>2, <1>4 DEF CreationInv, Types, Locals, Locked, Progress, Holding, Named,
                    Private, OnPath, Synced
<1>8. Ready' /\ CreatedStays'
  BY <1>4 DEF CreationInv, Types, Progress, Private, Ready, CreatedStays, Names
<1> QED
  BY <1>3, <1>6, <1>7, <1>8, StepKeeps

\* initialize_file writes the pages and the empty Base, or create gives up.
LEMMA InitializeWriteKeeps ==
    ASSUME CreationInv, NEW p \in Procs, InitializeWrite(p)
    PROVE  CreationInv'
<1>1. CASE Abandon(p)
  BY <1>1, AbandonKeeps DEF InitializeWrite, At, Named, Private
<1>2. CASE ~Abandon(p)
  BY <1>2, InitializeKeeps DEF InitializeWrite, At
<1> QED
  BY <1>1, <1>2

\* initialize_file syncs, or create gives up.
LEMMA InitializeSyncKeeps ==
    ASSUME CreationInv, NEW p \in Procs, InitializeSync(p)
    PROVE  CreationInv'
<1>1. CASE Abandon(p)
  BY <1>1, AbandonKeeps DEF InitializeSync, At, Named, Private
<1>2. CASE ~Abandon(p)
  BY <1>2, InitializeKeeps DEF InitializeSync, At
<1> QED
  BY <1>1, <1>2

\* hard_link: the file that gets the name is synced, and nobody else works on
\* a file of that name; the loser lets go of its lock.
LEMMA LinkKeeps ==
    ASSUME CreationInv, NEW p \in Procs, Link(p)
    PROVE  CreationInv'
<1>1. CASE Abandon(p)
  BY <1>1, AbandonKeeps DEF Link, At, Named, Private
<1>2. proc[p].at = "link" /\ proc[p].file \in Files /\ lock[proc[p].file] = p
  BY DEF Link, At, CreationInv, Locals, Locked, Holding
<1>3. CASE /\ dir[Path] = None
           /\ dir' = [dir EXCEPT ![Path] = proc[p].file]
           /\ Go(p, "published")
           /\ UNCHANGED <<durable, content, lock, acked>>
  <2>1. /\ proc' \in [Procs -> Process]
        /\ \A q \in Procs \ {p} : proc'[q] = proc[q]
        /\ proc'[p].at = "published"
        /\ proc'[p].file = proc[p].file
        /\ proc'[p].temp = proc[p].temp
    BY <1>3, GoFields DEF Points
  <2>2. Types' /\ dir'[Path] = proc[p].file
    BY <1>2, <1>3, <2>1 DEF CreationInv, Types, Names
  <2>3. \A q \in Procs \ {p} : Locals(q)' /\ Locked(q)' /\ Progress(q)'
    BY <1>2, <1>3, <2>1, <2>2, OthersKeep
  <2>4. Locals(p)' /\ Locked(p)' /\ Progress(p)'
    BY <1>2, <1>3, <2>1, <2>2 DEF CreationInv, Locals, Locked, Progress, Holding,
                                  Named, Private, OnPath, Synced
  <2>5. Ready' /\ CreatedStays'
    BY <1>2, <1>3, <2>2, CreationAssumption
       DEF CreationInv, Types, Progress, Ready, CreatedStays
  <2> QED
    BY <2>2, <2>3, <2>4, <2>5, StepKeeps
<1>4. CASE /\ dir[Path] # None
           /\ Unlock(p)
           /\ Go(p, "collided")
           /\ UNCHANGED <<dir, durable, content, acked>>
  <2>1. /\ proc' \in [Procs -> Process]
        /\ \A q \in Procs \ {p} : proc'[q] = proc[q]
        /\ proc'[p].at = "collided"
        /\ proc'[p].file = proc[p].file
        /\ proc'[p].temp = proc[p].temp
    BY <1>4, GoFields DEF Points
  <2>2. Types'
    BY <1>4, <2>1 DEF CreationInv, Types, Unlock
  <2>3. /\ \A f \in Files : lock'[f] # p
        /\ \A q \in Procs \ {p} : \A f \in Files : lock'[f] = q <=> lock[f] = q
    BY <1>4, CreationAssumption DEF CreationInv, Types, Unlock
  <2>4. \A q \in Procs \ {p} : Locals(q)' /\ Locked(q)' /\ Progress(q)'
    BY <1>4, <2>1, <2>3, OthersKeep
  <2>5. Locals(p)' /\ Locked(p)' /\ Progress(p)'
    BY <1>2, <2>1, <2>3 DEF CreationInv, Locals, Locked, Progress, Holding, Named,
                            Private, OnPath, Synced
  <2>6. Ready' /\ CreatedStays'
    BY <1>4 DEF CreationInv, Ready, CreatedStays
  <2> QED
    BY <2>2, <2>4, <2>5, <2>6, StepKeeps
<1> QED
  BY <1>1, <1>3, <1>4 DEF Link

\* A step that leaves the path, the files and the locks alone, and may make the
\* directory durable.
LEMMA QuietKeeps ==
    ASSUME CreationInv, NEW p \in Procs,
           proc' \in [Procs -> Process],
           \A q \in Procs \ {p} : proc'[q] = proc[q],
           dir' \in [Names -> Files \cup {None}], dir'[Path] = dir[Path],
           durable' \in {durable, dir}, UNCHANGED <<content, lock, acked>>,
           Locals(p)', Locked(p)', Progress(p)'
    PROVE  CreationInv'
<1>1. Types' /\ durable'[Path] \in {durable[Path], dir[Path]}
  BY DEF CreationInv, Types
<1>2. \A q \in Procs \ {p} : Locals(q)' /\ Locked(q)' /\ Progress(q)'
  BY <1>1, OthersKeep
<1>3. Ready' /\ CreatedStays'
  BY <1>1 DEF CreationInv, Ready, CreatedStays
<1> QED
  BY <1>1, <1>2, <1>3, StepKeeps

\* A process that moves on between points at which it has the same rights.
LEMMA MoveKeeps ==
    ASSUME CreationInv, NEW p \in Procs, NEW a \in Points, Go(p, a),
           <<proc[p].at, a>> \in {<<"published", "remove">>, <<"remove", "clean">>,
                                  <<"clean", "load">>, <<"collided", "lost">>},
           dir' \in [Names -> Files \cup {None}], dir'[Path] = dir[Path],
           durable' \in {durable, dir}, UNCHANGED <<content, lock, acked>>,
           proc[p].at = "published" => durable' = dir
    PROVE  CreationInv'
<1>1. /\ proc' \in [Procs -> Process]
      /\ \A q \in Procs \ {p} : proc'[q] = proc[q]
      /\ proc'[p].at = a
      /\ proc'[p].file = proc[p].file
      /\ proc'[p].temp = proc[p].temp
  BY GoFields
<1>2. \/ proc[p].at = "published" /\ a = "remove"
      \/ proc[p].at = "remove" /\ a = "clean"
      \/ proc[p].at = "clean" /\ a = "load"
      \/ proc[p].at = "collided" /\ a = "lost"
  OBVIOUS
<1>3. Locals(p)' /\ Locked(p)'
  BY <1>1, <1>2 DEF CreationInv, Locals, Locked, Holding, Named, Private
<1>4. Progress(p)'
  BY <1>1, <1>2 DEF CreationInv, Types, Progress, Private, OnPath, Synced
<1> QED
  BY <1>1, <1>3, <1>4, QuietKeeps

\* sync_directory after hard_link: from here on the path is durable.
LEMMA PublishSyncKeeps ==
    ASSUME CreationInv, NEW p \in Procs, PublishSync(p)
    PROVE  CreationInv'
<1>1. CASE Fail(p)
  BY <1>1, FailKeeps
<1>2. CASE ~Fail(p)
  <2>1. /\ proc[p].at = "published" /\ Go(p, "remove") /\ durable' = dir
        /\ dir' = dir /\ UNCHANGED <<content, lock, acked>>
    BY <1>2 DEF PublishSync, At, SyncDirectory
  <2>2. "remove" \in Points /\ dir \in [Names -> Files \cup {None}]
    BY DEF Points, CreationInv, Types
  <2> QED
    BY <2>1, <2>2, MoveKeeps
<1> QED
  BY <1>1, <1>2

\* The temporary name of the published file is removed.
LEMMA RemoveTempKeeps ==
    ASSUME CreationInv, NEW p \in Procs, RemoveTemp(p)
    PROVE  CreationInv'
<1>1. CASE Fail(p)
  BY <1>1, FailKeeps
<1>2. CASE ~Fail(p)
  <2>1. /\ proc[p].at = "remove" /\ Go(p, "clean") /\ dir' = Removed(p)
        /\ durable' = durable /\ UNCHANGED <<content, lock, acked>>
    BY <1>2 DEF RemoveTemp, At
  <2>2. dir' \in [Names -> Files \cup {None}] /\ dir'[Path] = dir[Path]
    BY <2>1, RemovedPath DEF Named
  <2>3. "clean" \in Points
    BY DEF Points
  <2> QED
    BY <2>1, <2>2, <2>3, MoveKeeps
<1> QED
  BY <1>1, <1>2

\* The second sync_directory, after which the file is loaded.
LEMMA RemoveSyncKeeps ==
    ASSUME CreationInv, NEW p \in Procs, RemoveSync(p)
    PROVE  CreationInv'
<1>1. CASE Fail(p)
  BY <1>1, FailKeeps
<1>2. CASE ~Fail(p)
  <2>1. /\ proc[p].at = "clean" /\ Go(p, "load") /\ durable' = dir
        /\ dir' = dir /\ UNCHANGED <<content, lock, acked>>
    BY <1>2 DEF RemoveSync, At, SyncDirectory
  <2>2. "load" \in Points /\ dir \in [Names -> Files \cup {None}]
    BY DEF Points, CreationInv, Types
  <2> QED
    BY <2>1, <2>2, MoveKeeps
<1> QED
  BY <1>1, <1>2

\* The loser of hard_link removes its temporary name.
LEMMA CollidedRemoveKeeps ==
    ASSUME CreationInv, NEW p \in Procs, CollidedRemove(p)
    PROVE  CreationInv'
<1>1. CASE Fail(p)
  BY <1>1, FailKeeps
<1>2. CASE ~Fail(p)
  <2>1. /\ proc[p].at = "collided" /\ Go(p, "lost") /\ dir' = Removed(p)
        /\ durable' = durable /\ UNCHANGED <<content, lock, acked>>
    BY <1>2 DEF CollidedRemove, At
  <2>2. dir' \in [Names -> Files \cup {None}] /\ dir'[Path] = dir[Path]
    BY <2>1, RemovedPath DEF Named
  <2>3. "lost" \in Points
    BY DEF Points
  <2> QED
    BY <2>1, <2>2, <2>3, MoveKeeps
<1> QED
  BY <1>1, <1>2

\* The loser syncs the directory and reports that the path exists.
LEMMA CollidedSyncKeeps ==
    ASSUME CreationInv, NEW p \in Procs, CollidedSync(p)
    PROVE  CreationInv'
<1>1. CASE Fail(p)
  BY <1>1, FailKeeps
<1>2. CASE ~Fail(p)
  <2>1. /\ proc[p].at = "lost" /\ durable' = dir
        /\ proc' = [proc EXCEPT ![p] = Returned(p, "exists")]
        /\ dir' = dir /\ UNCHANGED <<content, lock, acked>>
    BY <1>2 DEF CollidedSync, At, SyncDirectory, Return, Become
  <2>2. Returned(p, "exists") \in Process /\ Returned(p, "exists").at = "idle"
    BY ReturnedType DEF Results
  <2>3. dir \in [Names -> Files \cup {None}] /\ proc[p].at \notin Holding
    BY <2>1 DEF CreationInv, Types, Holding
  <2> QED
    BY <2>1, <2>2, <2>3, ReturnKeeps, Zenon
<1> QED
  BY <1>1, <1>2

\* symlink_metadata: create returns, or enters the loop with names for all turns.
LEMMA CreateCheckKeeps ==
    ASSUME CreationInv, NEW p \in Procs, CreateCheck(p)
    PROVE  CreationInv'
<1>1. /\ proc[p].at = "idle" /\ UNCHANGED <<dir, durable, content, lock, acked>>
      /\ dir \in [Names -> Files \cup {None}] /\ proc[p] \in Process
      /\ proc[p].at \notin Holding
  BY DEF CreateCheck, At, CreationInv, Types, Holding
<1>2. CASE proc' = [proc EXCEPT ![p] = [Returned(p, "exists") EXCEPT !.op = "create"]]
  <2>1. ASSUME NEW s \in Process, s.at = "idle"
        PROVE  [s EXCEPT !.op = "create"] \in Process /\ [s EXCEPT !.op = "create"].at = "idle"
    BY <2>1 DEF Process
  <2>2. Returned(p, "exists") \in Process /\ Returned(p, "exists").at = "idle"
    BY ReturnedType DEF Results
  <2> QED
    BY <1>1, <1>2, <2>1, <2>2, ReturnKeeps, Zenon
<1>3. CASE /\ proc[p].n + MAX_ATTEMPTS <= MaxNames
           /\ proc' = [proc EXCEPT ![p] = [proc[p] EXCEPT !.at = "temp", !.op = "create",
                                               !.tries = 0, !.result = "none"]]
  <2> DEFINE R(s) == [s EXCEPT !.at = "temp", !.op = "create", !.tries = 0, !.result = "none"]
  <2>1. "temp" \in Points /\ 0 \in 0 .. MAX_ATTEMPTS /\ "none" \in Results
    BY CreationAssumption DEF Points, Results
  <2>2. ASSUME NEW s \in Process PROVE R(s) \in Process
    BY <2>1, Zenon DEF Process
  <2>3. ASSUME NEW s \in Process PROVE R(s).at = "temp" /\ R(s).n = s.n /\ R(s).tries = 0
    BY DEF Process
  <2>4. proc' = [proc EXCEPT ![p] = R(proc[p])]
    BY <1>3
  <2> HIDE DEF R
  <2>5. /\ R(proc[p]) \in Process /\ R(proc[p]).at \in {"idle", "temp"}
        /\ R(proc[p]).n + (MAX_ATTEMPTS - R(proc[p]).tries) <= MaxNames
    BY <1>1, <1>3, <2>2, <2>3, CreationAssumption
  <2> QED
    BY <1>1, <2>4, <2>5, ReturnKeeps, Zenon
<1> QED
  BY <1>2, <1>3 DEF CreateCheck, Become

\* What every branch of a turn of the loop starts from: the name is a temporary
\* one, since the counter is below the bound.
LEMMA TurnFacts ==
    ASSUME CreationInv, NEW p \in Procs, At(p, "temp"), AttemptsLeft(p)
    PROVE  /\ proc[p] \in Process
           /\ proc[p].n \in Nat /\ proc[p].tries \in Nat
           /\ <<p, proc[p].n>> \in Temps
           /\ proc[p].n + 1 \in 0 .. MaxNames
           /\ proc[p].tries + 1 \in 0 .. MAX_ATTEMPTS
           /\ (proc[p].n + 1) + (MAX_ATTEMPTS - (proc[p].tries + 1)) <= MaxNames
<1>1. /\ proc[p] \in Process /\ proc[p].n \in 0 .. MaxNames
      /\ proc[p].tries \in 0 .. MAX_ATTEMPTS
  BY DEF CreationInv, Types, Process
<1>2. /\ proc[p].n + (MAX_ATTEMPTS - proc[p].tries) <= MaxNames
      /\ proc[p].tries < MAX_ATTEMPTS
  BY DEF CreationInv, Locals, At, AttemptsLeft
<1>3. proc[p].n \in 0 .. MaxNames - 1
  BY <1>1, <1>2, CreationAssumption
<1> QED
  BY <1>1, <1>2, <1>3, CreationAssumption DEF Temps

\* A new file is no other process's, and neither directory has it under the path.
LEMMA NewFileKeeps ==
    ASSUME CreationInv, NEW p \in Procs, At(p, "temp"), AttemptsLeft(p),
           NEW f \in Files, Unused(f),
           dir' = [dir EXCEPT ![<<p, proc[p].n>>] = f],
           content' = [content EXCEPT ![f] = "blank"],
           lock' = [lock EXCEPT ![f] = p],
           Become(p, [proc[p] EXCEPT !.at = "write", !.n = @ + 1, !.file = f,
                                     !.temp = <<p, proc[p].n>>]),
           UNCHANGED <<durable, acked>>
    PROVE  CreationInv'
<1> DEFINE name == <<p, proc[p].n>>
           R(s) == [s EXCEPT !.at = "write", !.n = @ + 1, !.file = f, !.temp = name]
<1>1. name \in Temps /\ proc[p] \in Process /\ proc[p].n + 1 \in 0 .. MaxNames
  BY TurnFacts
<1>2. "write" \in Points
  BY DEF Points
<1>3. proc' = [proc EXCEPT ![p] = R(proc[p])] /\ dir' = [dir EXCEPT ![name] = f]
  BY DEF Become
<1> HIDE DEF name
<1>4. ASSUME NEW s \in Process, s.n + 1 \in 0 .. MaxNames PROVE R(s) \in Process
  BY <1>1, <1>2, <1>4, Zenon DEF Process
<1>5. ASSUME NEW s \in Process
      PROVE  R(s).at = "write" /\ R(s).file = f /\ R(s).temp = name
  BY DEF Process
<1> HIDE DEF R
<1>6. /\ proc'[p] \in Process /\ proc'[p].at = "write"
      /\ proc'[p].file = f /\ proc'[p].temp = name
      /\ \A q \in Procs \ {p} : proc'[q] = proc[q]
      /\ proc' \in [Procs -> Process]
  BY <1>1, <1>3, <1>4, <1>5 DEF CreationInv, Types
<1>7. Types' /\ dir'[Path] = dir[Path]
  BY <1>1, <1>3, <1>6, CreationAssumption, Zenon DEF CreationInv, Types, Names
<1>8. /\ dir[Path] # f /\ durable[Path] # f
      /\ \A q \in Procs : proc[q].file # f /\ lock[f] # q
  BY DEF Unused, Names, CreationInv, Locked
<1>9. \A g \in Files : lock[g] # p
  BY DEF CreationInv, Locked, Holding, At
<1>10. \A q \in Procs \ {p} : Locals(q)' /\ Locked(q)' /\ Progress(q)'
  <2>1. \A q \in Procs \ {p} : \A g \in Files : lock'[g] = q <=> lock[g] = q
    BY <1>8 DEF CreationInv, Types
  <2>2. \A q \in Procs \ {p} : proc[q].at = "link" =>
            content'[proc[q].file] = content[proc[q].file]
    BY <1>8 DEF CreationInv, Types, Locals
  <2> QED
    BY <1>6, <1>7, <2>1, <2>2, OthersKeep
<1>11. Locals(p)'
  BY <1>1, <1>6 DEF Locals
<1>12. Locked(p)'
  BY <1>6, <1>9 DEF CreationInv, Types, Locked, Holding
<1>13. Progress(p)'
  BY <1>6, <1>7, <1>8 DEF Progress, Private, OnPath, Synced
<1>14. Ready' /\ CreatedStays'
  BY <1>7, <1>8 DEF CreationInv, Types, Ready, CreatedStays, Names
<1> QED
  BY <1>7, <1>10, <1>11, <1>12, <1>13, <1>14, StepKeeps

\* One turn of the loop: the name is taken, a new file, or an error.
LEMMA CreateTempKeeps ==
    ASSUME CreationInv, NEW p \in Procs, CreateTemp(p)
    PROVE  CreationInv'
<1>1. /\ At(p, "temp") /\ AttemptsLeft(p) /\ UNCHANGED <<durable, acked>>
      /\ proc[p].at \notin Holding
  BY Zenon DEF CreateTemp, At, Holding
<1>2. /\ proc[p] \in Process
      /\ proc[p].n + 1 \in 0 .. MaxNames
      /\ proc[p].tries + 1 \in 0 .. MAX_ATTEMPTS
      /\ (proc[p].n + 1) + (MAX_ATTEMPTS - (proc[p].tries + 1)) <= MaxNames
      /\ dir \in [Names -> Files \cup {None}]
      /\ proc[p].at = "temp"
  BY <1>1, TurnFacts, Zenon DEF CreationInv, Types, At
<1>3. CASE /\ Become(p, [proc[p] EXCEPT !.n = @ + 1, !.tries = @ + 1])
           /\ UNCHANGED <<dir, content, lock>>
  <2> DEFINE R(s) == [s EXCEPT !.n = @ + 1, !.tries = @ + 1]
  <2>1. ASSUME NEW s \in Process, s.n + 1 \in 0 .. MaxNames, s.tries + 1 \in 0 .. MAX_ATTEMPTS
        PROVE  R(s) \in Process
    BY <2>1, Zenon DEF Process
  <2>2. ASSUME NEW s \in Process
        PROVE  R(s).at = s.at /\ R(s).n = s.n + 1 /\ R(s).tries = s.tries + 1
    BY DEF Process
  <2>3. proc' = [proc EXCEPT ![p] = R(proc[p])]
    BY <1>3 DEF Become
  <2> HIDE DEF R
  <2> QED
    BY <1>1, <1>2, <1>3, <2>1, <2>2, <2>3, ReturnKeeps, Zenon
<1>4. CASE /\ Become(p, [Returned(p, "failed") EXCEPT !.n = @ + 1])
           /\ UNCHANGED <<dir, content, lock>>
  <2> DEFINE R(s) == [s EXCEPT !.n = @ + 1]
  <2>1. ASSUME NEW s \in Process, s.n + 1 \in 0 .. MaxNames
        PROVE  R(s) \in Process /\ R(s).at = s.at
    BY <2>1 DEF Process
  <2>2. proc' = [proc EXCEPT ![p] = R(Returned(p, "failed"))]
    BY <1>4 DEF Become
  <2> HIDE DEF R
  <2>3. /\ Returned(p, "failed") \in Process /\ Returned(p, "failed").at = "idle"
        /\ Returned(p, "failed").n = proc[p].n
    BY ReturnedType DEF Results
  <2> QED
    BY <1>1, <1>2, <1>4, <2>1, <2>2, <2>3, ReturnKeeps, Zenon
<1> QED
  BY <1>1, <1>3, <1>4, NewFileKeeps, Zenon DEF CreateTemp

\* The loop ends without a name.
LEMMA CreateExhaustedKeeps ==
    ASSUME CreationInv, NEW p \in Procs, CreateExhausted(p)
    PROVE  CreationInv'
<1>1. Returned(p, "exists") \in Process /\ Returned(p, "exists").at = "idle"
  BY ReturnedType DEF Results
<1>2. /\ proc' = [proc EXCEPT ![p] = Returned(p, "exists")]
      /\ UNCHANGED <<dir, durable, content, lock, acked>>
      /\ proc[p].at \notin Holding
      /\ dir \in [Names -> Files \cup {None}]
  BY DEF CreateExhausted, Return, Become, At, Holding, CreationInv, Types
<1> QED
  BY <1>1, <1>2, ReturnKeeps, Zenon

\* open_database_file opens what the path names.
LEMMA OpenFileKeeps ==
    ASSUME CreationInv, NEW p \in Procs, OpenFile(p)
    PROVE  CreationInv'
<1>1. /\ proc[p].at = "idle" /\ UNCHANGED <<dir, durable, content, lock, acked>>
      /\ dir \in [Names -> Files \cup {None}] /\ proc[p] \in Process
      /\ proc[p].at \notin Holding
  BY DEF OpenFile, At, CreationInv, Types, Holding
<1>2. CASE proc' = [proc EXCEPT ![p] = [Returned(p, "failed") EXCEPT !.op = "open"]]
  <2>1. ASSUME NEW s \in Process, s.at = "idle"
        PROVE  [s EXCEPT !.op = "open"] \in Process /\ [s EXCEPT !.op = "open"].at = "idle"
    BY <2>1 DEF Process
  <2>2. Returned(p, "failed") \in Process /\ Returned(p, "failed").at = "idle"
    BY ReturnedType DEF Results
  <2> QED
    BY <1>1, <1>2, <2>1, <2>2, ReturnKeeps, Zenon
<1>3. CASE /\ dir[Path] # None
           /\ proc' = [proc EXCEPT ![p] = [proc[p] EXCEPT !.at = "lock", !.op = "open",
                                               !.file = dir[Path], !.result = "none"]]
  <2> DEFINE g == dir[Path]
             R(s) == [s EXCEPT !.at = "lock", !.op = "open", !.file = g, !.result = "none"]
  <2>1. g \in Files /\ "lock" \in Points /\ "none" \in Results
    BY <1>1, <1>3 DEF Points, Results, Names
  <2> HIDE DEF g
  <2>2. ASSUME NEW s \in Process PROVE R(s) \in Process
    BY <2>1, Zenon DEF Process
  <2>3. ASSUME NEW s \in Process PROVE R(s).at = "lock" /\ R(s).file = g /\ R(s).op = "open"
    BY DEF Process
  <2>4. proc' = [proc EXCEPT ![p] = R(proc[p])]
    BY <1>3 DEF g
  <2> HIDE DEF R
  <2>5. /\ proc' \in [Procs -> Process] /\ proc'[p].at = "lock" /\ proc'[p].file = g
        /\ proc'[p].op = "open"
        /\ \A q \in Procs \ {p} : proc'[q] = proc[q]
    BY <1>1, <2>2, <2>3, <2>4 DEF CreationInv, Types
  <2>6. Locals(p)' /\ Locked(p)'
    BY <1>1, <2>1, <2>5 DEF CreationInv, Locals, Locked, Holding, Named, Private
  <2>7. Progress(p)'
    BY <1>1, <2>5 DEF Progress, Private, OnPath, Synced, g
  <2> QED
    BY <1>1, <2>5, <2>6, <2>7, QuietKeeps
<1> QED
  BY <1>2, <1>3 DEF OpenFile, Become

\* try_lock: nobody else holds the lock that is granted.
LEMMA LockFileKeeps ==
    ASSUME CreationInv, NEW p \in Procs, LockFile(p)
    PROVE  CreationInv'
<1>1. /\ proc[p].at = "lock" /\ UNCHANGED <<dir, durable, content, acked>>
      /\ dir \in [Names -> Files \cup {None}] /\ proc[p].file \in Files
      /\ proc[p].at \notin Holding
  BY DEF LockFile, At, CreationInv, Types, Locals, Holding
<1>2. CASE Return(p, "busy") /\ UNCHANGED lock
  <2>1. Returned(p, "busy") \in Process /\ Returned(p, "busy").at = "idle"
    BY ReturnedType DEF Results
  <2> QED
    BY <1>1, <1>2, <2>1, ReturnKeeps, Zenon DEF Return, Become
<1>3. CASE /\ lock[proc[p].file] = None
           /\ lock' = [lock EXCEPT ![proc[p].file] = p]
           /\ Go(p, "load")
  <2>1. /\ proc' \in [Procs -> Process]
        /\ \A q \in Procs \ {p} : proc'[q] = proc[q]
        /\ proc'[p].at = "load"
        /\ proc'[p].op = proc[p].op
        /\ proc'[p].file = proc[p].file
        /\ proc'[p].temp = proc[p].temp
    BY <1>3, GoFields DEF Points
  <2>2. Types'
    BY <1>1, <1>3, <2>1 DEF CreationInv, Types
  <2>3. \A q \in Procs \ {p} : \A f \in Files : lock'[f] = q <=> lock[f] = q
    BY <1>1, <1>3, CreationAssumption DEF CreationInv, Types
  <2>4. \A q \in Procs \ {p} : Locals(q)' /\ Locked(q)' /\ Progress(q)'
    BY <1>1, <2>1, <2>3, OthersKeep
  <2>5. Locals(p)'
    BY <1>1, <2>1 DEF Locals, Named, Private
  <2>6. Locked(p)'
    BY <1>1, <1>3, <2>1 DEF CreationInv, Types, Locked, Holding
  <2>7. proc[p].op = "open"
    BY <1>1 DEF CreationInv, Locals
  <2>8. Progress(p)'
    BY <1>1, <2>1, <2>7 DEF CreationInv, Progress, Private, OnPath, Synced
  <2>9. Ready' /\ CreatedStays'
    BY <1>1 DEF CreationInv, Ready, CreatedStays
  <2> QED
    BY <2>2, <2>4, <2>5, <2>6, <2>8, <2>9, StepKeeps
<1> QED
  BY <1>2, <1>3 DEF LockFile

\* from_storage: the create that returns Ok has a durable path.
LEMMA LoadKeeps ==
    ASSUME CreationInv, NEW p \in Procs, Load(p)
    PROVE  CreationInv'
<1>1. CASE Fail(p)
  BY <1>1, FailKeeps
<1>2. CASE ~Fail(p)
  <2> DEFINE R(s) == [s EXCEPT !.at = "open", !.tries = 0, !.result = "ok", !.temp = None]
  <2>1. "open" \in Points /\ 0 \in 0 .. MAX_ATTEMPTS /\ "ok" \in Results
    BY CreationAssumption DEF Points, Results
  <2>2. ASSUME NEW s \in Process PROVE R(s) \in Process
    BY <2>1, Zenon DEF Process
  <2>3. ASSUME NEW s \in Process PROVE R(s).at = "open" /\ R(s).file = s.file
    BY DEF Process
  <2>4. /\ proc' = [proc EXCEPT ![p] = R(proc[p])]
        /\ proc[p].at = "load" /\ UNCHANGED <<dir, durable, content, lock>>
        /\ acked' = IF proc[p].op = "create" THEN proc[p].file ELSE acked
    BY <1>2 DEF Load, Become, At
  <2> HIDE DEF R
  <2>5. /\ proc' \in [Procs -> Process] /\ proc'[p].at = "open"
        /\ proc'[p].file = proc[p].file
        /\ \A q \in Procs \ {p} : proc'[q] = proc[q]
    BY <2>2, <2>3, <2>4 DEF CreationInv, Types
  <2>6. proc[p].file \in Files /\ dir[Path] = proc[p].file
    BY <2>4 DEF CreationInv, Locals, Progress, OnPath
  <2>7. Types'
    BY <2>4, <2>5, <2>6 DEF CreationInv, Types
  <2>8. \A q \in Procs \ {p} : Locals(q)' /\ Locked(q)' /\ Progress(q)'
    BY <2>4, <2>5, OthersKeep
  <2>9. Locals(p)' /\ Locked(p)' /\ Progress(p)'
    BY <2>4, <2>5, <2>6 DEF CreationInv, Locals, Locked, Progress, Holding, Named,
                            Private, OnPath, Synced
  <2>10. Ready' /\ CreatedStays'
    BY <2>4, <2>6 DEF CreationInv, Progress, Ready, CreatedStays
  <2> QED
    BY <2>7, <2>8, <2>9, <2>10, StepKeeps
<1> QED
  BY <1>1, <1>2

\* Drop.
LEMMA CloseKeeps ==
    ASSUME CreationInv, NEW p \in Procs, Close(p)
    PROVE  CreationInv'
<1>1. Returned(p, "none") \in Process /\ Returned(p, "none").at = "idle"
  BY ReturnedType DEF Results
<1>2. /\ Unlock(p) /\ proc' = [proc EXCEPT ![p] = Returned(p, "none")]
      /\ UNCHANGED <<dir, durable, content, acked>>
      /\ dir \in [Names -> Files \cup {None}]
  BY DEF Close, Return, Become, CreationInv, Types
<1> QED
  BY <1>1, <1>2, ReturnKeeps, Zenon

\* A process that has just started.
LEMMA FreshType == Fresh \in Process /\ Fresh.at = "idle"
BY CreationAssumption DEF Fresh, Process, Points, Results

\* A killed process leaves names behind, but no lock.
LEMMA KillKeeps ==
    ASSUME CreationInv, NEW p \in Procs, Kill(p)
    PROVE  CreationInv'
<1>1. /\ Unlock(p) /\ proc' = [proc EXCEPT ![p] = Fresh]
      /\ UNCHANGED <<dir, durable, content, acked>>
      /\ dir \in [Names -> Files \cup {None}]
  BY DEF Kill, Become, CreationInv, Types
<1> QED
  BY <1>1, FreshType, ReturnKeeps, Zenon

\* After a power loss nobody runs; the path names what it named before or what
\* was durable, and a file that was synced is what it was.
LEMMA PowerFailKeeps ==
    ASSUME CreationInv, PowerFail
    PROVE  CreationInv'
<1>1. PICK D \in SUBSET {m \in Names : dir[m] # durable[m]} :
          /\ dir' = [m \in Names |-> IF m \in D THEN durable[m] ELSE dir[m]]
          /\ durable' = dir'
  BY DEF PowerFail
<1>2. PICK B \in SUBSET {f \in Files : content[f] = "written"} :
          content' = [f \in Files |-> IF f \in B THEN "blank"
                                      ELSE IF content[f] = "written" THEN "synced"
                                      ELSE content[f]]
  BY DEF PowerFail
<1>3. /\ lock' = [f \in Files |-> None] /\ proc' = [p \in Procs |-> Fresh]
      /\ UNCHANGED acked
  BY DEF PowerFail
<1>4. Types'
  BY <1>1, <1>2, <1>3, FreshType DEF CreationInv, Types
<1>5. \A p \in Procs : Locals(p)' /\ Locked(p)' /\ Progress(p)'
  BY <1>3, FreshType, CreationAssumption
     DEF Locals, Locked, Progress, Holding, Named, Private, OnPath, Synced
<1>6. dir'[Path] \in {dir[Path], durable[Path]} /\ durable'[Path] = dir'[Path]
  BY <1>1 DEF Names
<1>7. \A f \in Files : content[f] = "synced" => content'[f] = "synced"
  BY <1>2
<1>8. dir[Path] \in Files \cup {None} /\ durable[Path] \in Files \cup {None}
  BY DEF CreationInv, Types, Names
<1>9. Ready' /\ CreatedStays'
  BY <1>3, <1>6, <1>7, <1>8 DEF CreationInv, Ready, CreatedStays
<1> QED
  BY <1>4, <1>5, <1>9 DEF CreationInv

\* The invariant holds before anyone has run.
LEMMA InitCreation == Init => CreationInv
<1> SUFFICES ASSUME Init PROVE CreationInv
  OBVIOUS
<1>1. Types
  BY FreshType DEF Init, Types
<1>2. \A p \in Procs : Locals(p) /\ Locked(p) /\ Progress(p)
  BY FreshType, CreationAssumption
     DEF Init, Locals, Locked, Progress, Holding, Named, Private, OnPath, Synced
<1>3. Ready /\ CreatedStays
  BY DEF Init, Ready, CreatedStays, Names
<1> QED
  BY <1>1, <1>2, <1>3 DEF CreationInv

\* Every step of every process, and every failure, keeps the invariant.
LEMMA CreationStep == CreationInv /\ [Next]_vars => CreationInv'
<1> SUFFICES ASSUME CreationInv, [Next]_vars PROVE CreationInv'
  OBVIOUS
<1>1. ASSUME NEW p \in Procs, Create(p) PROVE CreationInv'
  BY <1>1, CreateCheckKeeps, CreateTempKeeps, CreateExhaustedKeeps,
     InitializeWriteKeeps, InitializeSyncKeeps, LinkKeeps, CollidedRemoveKeeps,
     CollidedSyncKeeps, PublishSyncKeeps, RemoveTempKeeps, RemoveSyncKeeps
     DEF Create
<1>2. ASSUME NEW p \in Procs, OpenOrClose(p) PROVE CreationInv'
  BY <1>2, OpenFileKeeps, LockFileKeeps, LoadKeeps, CloseKeeps DEF OpenOrClose
<1>3. CASE UNCHANGED vars
  BY <1>3 DEF vars, CreationInv, Types, Locals, Locked, Progress, Ready, CreatedStays
<1> QED
  BY <1>1, <1>2, <1>3, KillKeeps, PowerFailKeeps DEF Next

\* The invariant holds throughout.
LEMMA CreationInvariant == Spec => []CreationInv
BY InitCreation, CreationStep, PTL DEF Spec

\* The variables of create and open keep their types, and a lock is held only by
\* a process that has the file open: no return of create_database_file, open or
\* Drop leaves one behind.
THEOREM CreationTypes == Spec => []TypeOK
<1>1. CreationInv => TypeOK
  BY DEF CreationInv, Types, Locked, TypeOK
<1> QED
  BY <1>1, CreationInvariant, PTL

\* Whatever creators were interrupted where, the path names a complete, synced
\* database or nothing: initialize_file syncs before hard_link publishes.
THEOREM PathReady == Spec => []PublishedReady
<1>1. CreationInv => PublishedReady
  BY DEF CreationInv, Ready, PublishedReady
<1> QED
  BY <1>1, CreationInvariant, PTL

\* Once create has returned Ok the path names that file for good, through every
\* later create, crash and power loss: the directory is synced before the return.
THEOREM CreatedForGood == Spec => []CreatedStays
<1>1. CreationInv => CreatedStays
  BY DEF CreationInv
<1> QED
  BY <1>1, CreationInvariant, PTL

\* At most one process has the database open or is reading it, and what it has
\* open is what the path names, however create and open race.
THEOREM SingleOwner == Spec => []OneOwner
<1>1. ASSUME CreationInv, NEW p \in Procs, NEW q \in Procs,
             proc[p].at \in {"load", "open"}, proc[q].at \in {"load", "open"}
      PROVE  p = q /\ proc[p].file = dir[Path]
  <2>1. proc[p].file = dir[Path] /\ proc[q].file = dir[Path] /\ proc[p].file \in Files
    BY <1>1 DEF CreationInv, Locals, Progress, OnPath
  <2>2. lock[dir[Path]] = p /\ lock[dir[Path]] = q
    BY <1>1, <2>1 DEF CreationInv, Locked, Holding
  <2> QED
    BY <2>1, <2>2
<1>2. CreationInv => OneOwner
  BY <1>1 DEF OneOwner
<1> QED
  BY <1>2, CreationInvariant, PTL
=============================================================================
