------------------------------ MODULE Process -------------------------------
(* The temporary file manager (source/platform/tempfile.c) and the part of   *)
(* the file system the driver and its children touch.                        *)
(*                                                                           *)
(* A manager makes one private directory, on the first request, and every    *)
(* temporary file inside it; it records the directory and the files in       *)
(* tracked_files and removes whatever it recorded when it is freed.  Making  *)
(* an entry on disk and recording it are two steps: a signal handler that    *)
(* frees the manager may run between them.  The removal takes one step for   *)
(* every call it makes, and other processes run between those.               *)
EXTENDS Naturals, Sequences, FiniteSets, Functions

\* Which paths are removed before which: the order of the hashes of their names in
\* tracked_files, and of the entries of the directory.  Paths that it does not
\* order are removed in either order.
CONSTANT Before(_, _)

VARIABLES
  disk,   \* the existing files: a function from paths to contents
  mgr     \* the manager: basedir, file_index, tracked_files, the entry that
          \* was made and is not recorded yet, the paths that remove_entry is
          \* about to remove, and whether a signal cut a removal short

tempVars == <<disk, mgr>>

NoEntry == <<>>
BaseDir == <<"tmp">>
TempPath(kind, n) == <<"tmp", kind, n>>
InBaseDir(f) == Len(f) = 3

\* Empty files, files a child is still writing, and the directory.
Empty   == [what |-> "empty"]
Partial == [what |-> "partial"]
Dir     == [what |-> "dir"]

Exists(f) == f \in DOMAIN disk

\* A file can be made wherever its directory exists.
Creatable(f) == InBaseDir(f) => Exists(BaseDir)

Put(d, f, c) == [g \in DOMAIN d \cup {f} |-> IF g = f THEN c ELSE d[g]]
Without(d, F) == Restrict(d, DOMAIN d \ F)
RemoveFile(d, f) == Without(d, {f})

MgrInit ==
  mgr = [basedir |-> FALSE, file_index |-> 0, tracked |-> {}, pending |-> NoEntry,
         removing |-> {}, cut |-> FALSE]

\* init_tempfile_manager: mkdtemp, once per manager.
MakeBaseDir ==
  /\ ~mgr.basedir
  /\ mgr' = [mgr EXCEPT !.basedir = TRUE, !.pending = BaseDir]
  /\ disk' = Put(disk, BaseDir, Dir)

\* kefir_tempfile_manager_create_file: mkstemp under a fresh index.
MakeTempFile(kind) ==
  LET f == TempPath(kind, mgr.file_index)
  IN  /\ mgr.basedir
      /\ mgr.pending = NoEntry
      /\ Creatable(f)
      /\ mgr' = [mgr EXCEPT !.file_index = @ + 1, !.pending = f]
      /\ disk' = Put(disk, f, Empty)

\* The hashtree_insert that follows either of them.
Track ==
  /\ mgr.pending # NoEntry
  /\ mgr' = [mgr EXCEPT !.tracked = @ \cup {mgr.pending}, !.pending = NoEntry]
  /\ UNCHANGED disk

-----------------------------------------------------------------------------
(* kefir_tempfile_manager_free, on the manager of the driver or on the copy    *)
(* that a fork of the driver has.  m is the record that holds tracked_files    *)
(* and the paths being removed, n the same record after the step.              *)

FilesInBaseDir == {f \in DOMAIN disk : InBaseDir(f)}

\* Mutant: the directory is removed like a file, without what it holds.
ListingOfFile(e) == IF Exists(e) THEN {e} ELSE {}

\* What there is to remove for a recorded path: nothing, the file, or the
\* directory with the files that nftw finds in it.
Listing(e) ==
  IF ~Exists(e) THEN {} ELSE IF e = BaseDir THEN {BaseDir} \cup FilesInBaseDir ELSE {e}

First(S) == {e \in S : \A g \in S \ {e} : ~Before(g, e)}

\* node_free comes to an entry, and remove_entry asks whether it exists and what
\* it is.
LookAtEntry(m, n) ==
  /\ m.removing = {}
  /\ \E e \in First(m.tracked) :
       n = [m EXCEPT !.tracked = @ \ {e}, !.removing = Listing(e)]
  /\ UNCHANGED disk

\* nftw with FTW_DEPTH: files first, also ones that appeared since the directory
\* was opened, and the directory once it has read all of it.
NextToRemove(m) ==
  IF BaseDir \notin m.removing THEN m.removing
  ELSE IF m.removing = {BaseDir} THEN {BaseDir} \cup FilesInBaseDir
  ELSE First(m.removing \ {BaseDir})

\* remove() succeeds on a file that is still there and on an empty directory.
Removable(f) == Exists(f) /\ (f = BaseDir => FilesInBaseDir = {})

RemoveNext(m, n) ==
  \E f \in NextToRemove(m) :
    /\ Removable(f)
    /\ disk' = RemoveFile(disk, f)
    /\ n = [m EXCEPT !.removing = @ \ {f}]

\* The entries whose nodes are not freed: not come to yet, or being removed.
InTree(m) == m.tracked \cup (IF BaseDir \in m.removing THEN {BaseDir} ELSE m.removing)

\* The first remove() that fails ends the traversal of the tree, whose root then
\* still leads to nodes that were freed.  The next traversal is undefined: it may
\* come to any of the entries left, or end the process.
RemoveFails(m, n) ==
  /\ \E f \in NextToRemove(m) : ~Removable(f)
  /\ \E rest \in SUBSET InTree(m) : n = [m EXCEPT !.tracked = rest, !.removing = {}]
  /\ UNCHANGED disk

Removal(m, n) == LookAtEntry(m, n) \/ RemoveNext(m, n) \/ RemoveFails(m, n)

\* The tree is empty: a second call has nothing to do.
Removed(m) == m.tracked = {} /\ m.removing = {}

-----------------------------------------------------------------------------
(* Child processes (source/platform/process.c): the kefir_process structure  *)
(* of the parent, and the child itself between fork and its end.  The driver *)
(* runs at most one child at a time and waits for it before the next one.    *)
(*                                                                           *)
(* A child is a fork of the driver: it inherits its signal handlers and its  *)
(* atexit handler, and the flag process_is_fork keeps both from removing the *)
(* parent's temporary files.  Until it sets the flag it is "forked".         *)

VARIABLES
  process,  \* struct kefir_process: pid > 0, and the status wait stored
  child,    \* the child: its job, how far it came, how it ended; its copy of
            \* tracked_files, and whether it removed files by it
  fds       \* descriptors open for children in the driver

processVars == <<process, child, fds>>

\* exit_code is not initialised by kefir_process_init.
Uninitialized == 2
ExitSuccess == 0
ExitFailure == 1
Signalled == 3

NoJob == [kind |-> "none"]
NoChild == [job |-> NoJob, state |-> "none", end |-> Uninitialized,
            tracked |-> {}, removing |-> {}, swept |-> FALSE]
ProcessNone == [pid |-> FALSE, exited |-> FALSE, exit_code |-> Uninitialized]

ProcessInit == process = ProcessNone /\ child = NoChild /\ fds = 0

\* kefir_process_init, then a fork that succeeds.
Spawn(job) ==
  /\ process' = [ProcessNone EXCEPT !.pid = TRUE]
  /\ child' = [NoChild EXCEPT !.job = job, !.state = "forked", !.tracked = mgr.tracked]
  /\ fds' = fds + 3

\* kefir_process_init fails: it closes what it had opened.
InitFails == process' = ProcessNone /\ UNCHANGED <<child, fds>>

\* The fork fails.  kefir_process_kill does nothing without a pid, so that the
\* descriptors stay open; kefir_process_close, which -run calls, closes them.
ForkFails(closed) ==
  /\ process' = ProcessNone
  /\ fds' = IF closed THEN fds ELSE fds + 3
  /\ UNCHANGED child

Ended == child.state = "ended"

\* kefir_process_wait: the status is stored and the descriptors are closed,
\* whether the child exited or was killed by a signal.
Wait ==
  /\ Ended
  /\ process' = IF child.end = Signalled
                THEN [process EXCEPT !.pid = FALSE]
                ELSE [process EXCEPT !.pid = FALSE, !.exited = TRUE, !.exit_code = child.end]
  /\ child' = NoChild
  /\ fds' = fds - 3

\* Mutant: the exit status is not looked at.
SucceededExited == Ended /\ child.end # Signalled

\* The test every caller makes after a wait: exited && exit_code == EXIT_SUCCESS.
Succeeded == Ended /\ child.end = ExitSuccess

\* waitpid answers -1: the child has ended and its status is lost (the driver
\* was started with SIGCHLD ignored).  The kill that follows finds no process,
\* so it returns before it closes the descriptors; kefir_process_close does.
WaitFails(closed) ==
  /\ Ended
  /\ child' = NoChild
  /\ process' = IF closed THEN [process EXCEPT !.pid = FALSE] ELSE process
  /\ fds' = IF closed THEN fds - 3 ELSE fds

\* process_is_fork = true, the three dup2 calls, and exec or the callback.
ChildStarts ==
  /\ child.state = "forked"
  /\ child' = [child EXCEPT !.state = "running"]
  /\ UNCHANGED <<disk, mgr, process, fds>>

\* Mutant: the handlers do not look at process_is_fork.
ProcessIsForkNever == FALSE

\* The flag that keeps tmpmgr_cleanup in a child from the parent's files.
ProcessIsFork == child.state # "forked"

\* exit in the child, with or without the handlers of the driver.
Exits(how, handlers) ==
  child' = IF handlers /\ ~ProcessIsFork
           THEN [child EXCEPT !.state = "exiting", !.end = how, !.swept = TRUE]
           ELSE [child EXCEPT !.state = "ended", !.end = how]

\* The compiler is a call in the fork, so the handlers stay; other jobs exec.
KeepsHandlers == child.job.kind \in {"compile", "preprocess"}

\* A handled signal before process_is_fork is set: the handler of the driver
\* runs in the child, on the child's copy of the manager.
ChildInterrupted ==
  /\ child.state = "forked"
  /\ Exits(ExitFailure, TRUE)
  /\ UNCHANGED <<disk, mgr, process, fds>>

\* tmpmgr_cleanup in the child, call by call.
ChildRemoves ==
  /\ child.state = "exiting"
  /\ \/ Removal(child, child')
     \/ /\ Removed(child)
        /\ child' = [child EXCEPT !.state = "ended"]
        /\ UNCHANGED disk
  /\ UNCHANGED <<mgr, process, fds>>

\* The files a job writes; standard output is not one of them.
Written(job) == {job.out, job.dep} \ {NoEntry}

\* The child opens its outputs, which empties them.
ChildOpens ==
  /\ child.state = "running"
  /\ \A f \in Written(child.job) : Creatable(f)
  /\ child' = [child EXCEPT !.state = "writing"]
  /\ disk' = [f \in DOMAIN disk \cup Written(child.job) |->
                IF f \in Written(child.job) THEN Partial ELSE disk[f]]
  /\ UNCHANGED <<mgr, process, fds>>

\* Any failure of the child: exec, its input, a diagnostic, a signal.  What it
\* wrote so far stays.
ChildFails ==
  /\ child.state \in {"running", "writing"}
  /\ \E how \in {ExitFailure, Signalled} : Exits(how, KeepsHandlers /\ how # Signalled)
  /\ UNCHANGED <<disk, mgr, process, fds>>
=============================================================================
