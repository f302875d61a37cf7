------------------------------- MODULE Driver -------------------------------
(* The compiler driver (source/driver/driver.c): it walks the command line,   *)
(* runs a compiler, an assembler or a linker as a child for every stage, and  *)
(* leaves behind either the requested outputs or nothing.                     *)
(*                                                                            *)
(* The nested calls that handle one argument are a list of steps, todo; each  *)
(* step makes a temporary file, runs one child, or adds a linker argument.    *)
(* Signals reach the driver at any point and its child at any point.          *)
EXTENDS Process

CONSTANT Configurations  \* the command lines: stage, output, deps, target, args

PreprocessStages == {"PREPROCESS", "PREPROCESS_SAVE"}
Stages == {"LINK", "RUN", "ASSEMBLE", "COMPILE"} \cup PreprocessStages
ArgumentTypes == {"CODE", "ASSEMBLY", "ASSEMBLY_WITH_PREPROCESSING", "OBJECT", "LINKER_FLAG"}

\* Command lines of any length.  The base names are the names of the outputs: no
\* output has the name the model gives to an input.
ASSUME ConfigurationsAssumption ==
  \A c \in Configurations :
    /\ c.stage \in Stages
    /\ c.output \in {"none", "file", "stdout"}
    /\ c.deps \in BOOLEAN /\ c.target \in BOOLEAN
    /\ c.args \in Seq([type : ArgumentTypes, base : STRING \ {"in"}])

VARIABLES
  conf,         \* the command line
  pc,           \* where driver_run_impl is
  index,        \* the argument being handled
  todo,         \* the steps left for it, or for the whole run after the last
  cc,           \* compiler_config: one structure, updated argument by argument
  names,        \* the output and the assembly file of this argument
  output_file,  \* config->output_file
  linker,       \* linker_config->arguments
  status,       \* the exit status
  signalled,    \* a signal reached the driver
  broken        \* some compilation stage failed

driverVars == <<conf, pc, index, todo, cc, names, output_file, linker, status,
                signalled, broken>>
vars == <<tempVars, processVars, driverVars>>

NoPath == NoEntry
Argument == conf.args[index]
Input(i) == <<"in", i>>
Derived(base, ext) == <<base, ext>>
Stdout == <<"-">>
OutputNames == [none |-> NoPath, file |-> <<"out">>, stdout |-> Stdout]

Init ==
  /\ conf \in Configurations
  /\ disk = [f \in {Input(i) : i \in DOMAIN conf.args} |-> [what |-> "src", arg |-> f[2]]]
  /\ MgrInit
  /\ ProcessInit
  /\ pc = "argument"
  /\ index = 1
  /\ todo = <<>>
  /\ cc = [assembly_mode |-> FALSE, out |-> NoPath, dep |-> NoPath,
           target |-> IF conf.target THEN <<"target">> ELSE NoPath]
  /\ names = [object |-> NoPath, asm |-> NoPath]
  /\ output_file = OutputNames[conf.output]
  /\ linker = <<>>
  /\ status = Uninitialized
  /\ signalled = FALSE
  /\ broken = FALSE

-----------------------------------------------------------------------------
(* One argument *)

\* The steps of driver_run_argument for each stage and type of argument.
LinkSteps ==
  [CODE |-> <<"object-file", "asm-file", "compile", "assemble", "add">>,
   ASSEMBLY |-> <<"object-file", "assemble", "add">>,
   ASSEMBLY_WITH_PREPROCESSING |->
     <<"object-file", "asm-file", "preprocess", "assemble", "add">>,
   OBJECT |-> <<"add">>, LINKER_FLAG |-> <<"add">>]

AssembleSteps ==
  [CODE |-> <<"asm-file", "compile", "assemble">>,
   ASSEMBLY |-> <<"assemble">>,
   ASSEMBLY_WITH_PREPROCESSING |-> <<"asm-file", "preprocess", "assemble">>,
   OBJECT |-> <<>>, LINKER_FLAG |-> <<>>]

CompileSteps ==
  [CODE |-> <<"compile">>, ASSEMBLY |-> <<>>,
   ASSEMBLY_WITH_PREPROCESSING |-> <<"preprocess">>,
   OBJECT |-> <<>>, LINKER_FLAG |-> <<>>]

Steps(type) ==
  IF conf.stage \in {"LINK", "RUN"} THEN LinkSteps[type]
  ELSE IF conf.stage = "ASSEMBLE" THEN AssembleSteps[type]
  ELSE CompileSteps[type]

\* The target name is formatted into the buffer that already holds the name of
\* the saved file.
SavedName(base) ==
  IF conf.deps /\ ~conf.target THEN Derived(base, "o") ELSE Derived(base, "i")

OutputOf(base) ==
  IF conf.stage \in {"LINK", "RUN"} THEN NoPath
  ELSE IF output_file # NoPath THEN
    IF conf.stage # "ASSEMBLE" /\ output_file = Stdout THEN NoPath ELSE output_file
  ELSE IF conf.stage = "ASSEMBLE" THEN Derived(base, "o")
  ELSE IF conf.stage = "COMPILE" THEN Derived(base, "s")
  ELSE IF conf.stage = "PREPROCESS_SAVE" THEN SavedName(base)
  ELSE NoPath

\* Computed for the first argument, whatever its type, and kept afterwards.
DependencyFile(base) ==
  IF conf.deps /\ cc.dep = NoPath /\ conf.stage \notin PreprocessStages
  THEN Derived(IF output_file # NoPath THEN output_file[1] ELSE base, "d")
  ELSE cc.dep

DependencyTarget(base) ==
  IF conf.stage \in PreprocessStages /\ conf.deps /\ ~conf.target
  THEN Derived(base, "o")
  ELSE cc.target

BeginArgument ==
  /\ pc = "argument"
  /\ index \in DOMAIN conf.args
  /\ cc' = [cc EXCEPT !.dep = DependencyFile(Argument.base),
                      !.target = DependencyTarget(Argument.base)]
  /\ names' = [object |-> OutputOf(Argument.base), asm |-> NoPath]
  /\ todo' = Steps(Argument.type)
  /\ pc' = "step"
  /\ UNCHANGED <<tempVars, processVars, conf, index, output_file, linker, status,
                 signalled, broken>>

\* Mutant: an argument with no steps is not left.
EndArgumentStuck ==
  /\ pc = "step"
  /\ todo = <<>>
  /\ index \in DOMAIN conf.args
  /\ index' = IF Steps(Argument.type) = <<>> THEN index ELSE index + 1
  /\ pc' = "argument"
  /\ UNCHANGED <<tempVars, processVars, conf, todo, cc, names, output_file, linker,
                 status, signalled, broken>>

EndArgument ==
  /\ pc = "step"
  /\ todo = <<>>
  /\ index \in DOMAIN conf.args
  /\ cc' = IF conf.stage \in PreprocessStages THEN [cc EXCEPT !.target = NoPath] ELSE cc
  /\ index' = index + 1
  /\ pc' = "argument"
  /\ UNCHANGED <<tempVars, processVars, conf, todo, names, output_file, linker,
                 status, signalled, broken>>

At(step) == pc = "step" /\ todo # <<>> /\ Head(todo) = step

Fail == pc' = "failed" /\ UNCHANGED todo
Done == pc' = "step" /\ todo' = Tail(todo)

\* kefir_tempfile_manager_create_file, in the four steps a signal can separate.
Named(step, f) ==
  /\ names' = [object |-> IF step = "object-file" THEN f ELSE names.object,
               asm |-> IF step = "asm-file" THEN f ELSE names.asm]
  /\ output_file' = IF step = "exe" THEN f ELSE output_file

CreateTempFile ==
  \E step \in {"object-file", "asm-file", "exe"} :
    /\ At(step)
    /\ \/ /\ MakeBaseDir \/ MakeTempFile(step) \/ (mgr.pending = BaseDir /\ Track)
          /\ UNCHANGED <<pc, todo, names, output_file>>
       \/ /\ mgr.pending # BaseDir
          /\ Track
          /\ Named(step, mgr.pending)
          /\ Done
       \/ /\ mgr.pending = NoEntry
          /\ Fail
          /\ UNCHANGED <<tempVars, names, output_file>>
    /\ UNCHANGED <<processVars, conf, index, cc, linker, status, signalled, broken>>

\* Mutant: a linker argument is put in front of the others.
AddLinkerArgumentFirst ==
  /\ At("add")
  /\ linker' = <<IF Argument.type \in {"OBJECT", "LINKER_FLAG"} THEN Input(index) ELSE names.object>> \o linker
  /\ Done
  /\ UNCHANGED <<tempVars, processVars, conf, index, cc, names, output_file, status,
                 signalled, broken>>

\* Objects and libraries go to the linker as they are, flags too.
AddLinkerArgument ==
  /\ At("add")
  /\ linker' = Append(linker,
       IF Argument.type \in {"OBJECT", "LINKER_FLAG"} THEN Input(index) ELSE names.object)
  /\ Done
  /\ UNCHANGED <<tempVars, processVars, conf, index, cc, names, output_file, status,
                 signalled, broken>>

-----------------------------------------------------------------------------
(* Children *)

\* driver_update_compiler_config
UpdatedConfig ==
  IF Argument.type = "ASSEMBLY_WITH_PREPROCESSING"
  THEN [cc EXCEPT !.assembly_mode = TRUE]
  ELSE cc

CompilerOutput ==
  IF names.asm # NoPath THEN names.asm
  ELSE IF names.object # NoPath THEN names.object
  ELSE cc.out

CompilerJob(kind) ==
  [kind |-> kind, arg |-> index, inputs |-> <<Input(index)>>, out |-> CompilerOutput,
   assembly_mode |-> UpdatedConfig.assembly_mode,
   dep |-> cc.dep, target |-> cc.target]

AssemblerJob ==
  [kind |-> "assemble", arg |-> index, out |-> names.object, dep |-> NoPath,
   inputs |-> <<IF names.asm # NoPath THEN names.asm ELSE Input(index)>>]

LinkerOutput == IF output_file # NoPath THEN output_file ELSE <<"a.out">>
LinkerJob == [kind |-> "link", inputs |-> linker, out |-> LinkerOutput, dep |-> NoPath]
ProgramJob == [kind |-> "program", inputs |-> <<output_file>>, out |-> NoPath, dep |-> NoPath]

JobOf(step) ==
  IF step \in {"compile", "preprocess"} THEN CompilerJob(step)
  ELSE IF step = "assemble" THEN AssemblerJob
  ELSE IF step = "link" THEN LinkerJob
  ELSE ProgramJob

ChildSteps == {"compile", "preprocess", "assemble", "link", "program"}

\* Mutant: only the assembly file is removed after a failure.
FailedOutputsAsm(step) ==
  IF step \in {"compile", "preprocess", "assemble"} THEN {names.asm} ELSE {}

\* What is removed when a child of this step did not run, or did not succeed.
FailedOutputs(step) ==
  IF step \in {"compile", "preprocess"}
  THEN {IF names.asm # NoPath THEN names.asm ELSE names.object}
  ELSE IF step = "assemble" THEN {names.object, names.asm}
  ELSE {}

\* Preprocessing works on a copy of the configuration with its own output.
ConfigAfter(step) ==
  IF step = "compile" THEN [UpdatedConfig EXCEPT !.out = CompilerOutput]
  ELSE IF step = "preprocess" THEN UpdatedConfig
  ELSE cc

StartChild ==
  \E step \in ChildSteps :
    /\ At(step)
    /\ cc' = ConfigAfter(step)
    /\ \/ Spawn(JobOf(step)) /\ pc' = "wait" /\ UNCHANGED <<disk, todo>>
       \/ InitFails /\ Fail /\ UNCHANGED disk
       \/ /\ ForkFails(step = "program")
          /\ disk' = Without(disk, FailedOutputs(step))
          /\ Fail
    /\ UNCHANGED <<mgr, conf, index, names, output_file, linker, status, signalled, broken>>

\* The inputs of a job are complete files.
Whole(f) == Exists(f) /\ disk[f].what \notin {"empty", "partial", "dir"}
InputsWhole == \A i \in DOMAIN child.job.inputs : Whole(child.job.inputs[i])

Rule == [what |-> "rule", arg |-> child.job.arg, target |-> child.job.target]

\* What the child leaves in its output: the compiler's own stages write what
\* they made of the source, or the make rule when it has no file of its own;
\* the assembler and the linker are external.
Product ==
  IF child.job.kind \in {"compile", "preprocess"}
  THEN IF conf.deps /\ child.job.dep = NoPath THEN Rule
       ELSE [what |-> child.job.kind, arg |-> child.job.arg]
  ELSE IF child.job.kind = "assemble"
  THEN [what |-> "object", arg |-> disk[child.job.inputs[1]].arg]
  ELSE [what |-> "exe",
        args |-> [i \in DOMAIN child.job.inputs |-> disk[child.job.inputs[i]].arg]]

ChildSucceeds ==
  /\ child.state = "writing"
  /\ InputsWhole
  /\ Written(child.job) \subseteq DOMAIN disk
  /\ disk' = [f \in DOMAIN disk |->
                IF f = child.job.dep THEN Rule
                ELSE IF f = child.job.out THEN Product
                ELSE disk[f]]
  /\ Exits(ExitSuccess, KeepsHandlers)
  /\ UNCHANGED <<mgr, process, fds>>

\* broken records that a child of a compilation stage failed; the program that
\* -run starts is not one.
ChildStep ==
  /\ \/ ChildStarts \/ ChildInterrupted \/ ChildRemoves
     \/ ChildOpens \/ ChildFails \/ ChildSucceeds
  /\ broken' = (broken \/ (child'.end \in {ExitFailure, Signalled} /\ child.job.kind # "program"))
  /\ UNCHANGED <<conf, pc, index, todo, cc, names, output_file, linker, status, signalled>>

\* The end of a child of a compilation stage: the assembly file goes once it has
\* been assembled; a failure removes what the child was making.
WaitStage ==
  \E step \in ChildSteps \ {"program"} :
    /\ pc = "wait"
    /\ Head(todo) = step
    /\ \/ /\ Succeeded
          /\ Wait
          /\ disk' = IF step = "assemble" THEN RemoveFile(disk, names.asm) ELSE disk
          /\ Done
       \/ /\ ~Succeeded
          /\ Wait
          /\ disk' = Without(disk, FailedOutputs(step) \cup
                                   IF step = "link" THEN {LinkerOutput} ELSE {})
          /\ Fail
       \/ /\ WaitFails(FALSE)
          /\ disk' = Without(disk, FailedOutputs(step))
          /\ Fail
    /\ UNCHANGED <<mgr, conf, index, cc, names, output_file, linker, status, signalled, broken>>

\* -run: the driver exits with the program's status.  A program killed by a
\* signal left exit_code uninitialised, and any status may come out.
WaitProgram ==
  /\ pc = "wait"
  /\ Head(todo) = "program"
  /\ \/ /\ Wait
        /\ status' \in IF child.end = Signalled THEN {ExitSuccess, ExitFailure} ELSE {child.end}
        /\ pc' = "atexit"
     \/ WaitFails(TRUE) /\ pc' = "failed" /\ UNCHANGED status
  /\ UNCHANGED <<tempVars, conf, index, todo, cc, names, output_file, linker, signalled, broken>>

-----------------------------------------------------------------------------
(* The whole run *)

\* After the last argument, the steps that LINK and RUN add.
FinalSteps ==
  IF conf.stage = "LINK" THEN <<"link">>
  ELSE IF conf.stage = "RUN"
  THEN IF output_file = NoPath THEN <<"exe", "link", "program">> ELSE <<"link", "program">>
  ELSE <<>>

AfterArguments ==
  /\ pc = "argument"
  /\ index \notin DOMAIN conf.args
  /\ IF conf.args = <<>> THEN Fail ELSE pc' = "step" /\ todo' = FinalSteps
  /\ UNCHANGED <<tempVars, processVars, conf, index, cc, names, output_file, linker, status,
                 signalled, broken>>

Return ==
  /\ pc = "step"
  /\ todo = <<>>
  /\ index \notin DOMAIN conf.args
  /\ status' = ExitSuccess
  /\ pc' = "atexit"
  /\ UNCHANGED <<tempVars, processVars, conf, index, todo, cc, names, output_file, linker,
                 signalled, broken>>

\* kefir_driver_run: whatever failed, the file given with -o is removed.
ReturnFailure ==
  /\ pc = "failed"
  /\ disk' = RemoveFile(disk, output_file)
  /\ status' = ExitFailure
  /\ pc' = "atexit"
  /\ UNCHANGED <<mgr, processVars, conf, index, todo, cc, names, output_file, linker,
                 signalled, broken>>

\* sighandler: clean up, then exit, which cleans up once more.  A signal that
\* comes while files are being removed starts over on a tree whose nodes are
\* partly freed, which may come to any of the entries left.
Signal ==
  /\ pc # "exited"
  /\ ~signalled
  /\ IF pc = "atexit"
     THEN \E rest \in SUBSET InTree(mgr) :
            mgr' = [mgr EXCEPT !.tracked = rest, !.removing = {}, !.cut = TRUE]
     ELSE UNCHANGED mgr
  /\ signalled' = TRUE
  /\ status' = ExitFailure
  /\ pc' = "atexit"
  /\ UNCHANGED <<disk, processVars, conf, index, todo, cc, names, output_file, linker, broken>>

\* tmpmgr_cleanup in the driver, call by call.
RemoveTemps ==
  /\ pc = "atexit"
  /\ Removal(mgr, mgr')
  /\ UNCHANGED <<processVars, conf, pc, index, todo, cc, names, output_file, linker, status,
                 signalled, broken>>

AtExit ==
  /\ pc = "atexit"
  /\ Removed(mgr)
  /\ pc' = "exited"
  /\ UNCHANGED <<tempVars, processVars, conf, index, todo, cc, names, output_file, linker,
                 status, signalled, broken>>

DriverStep ==
  \/ BeginArgument \/ EndArgument \/ CreateTempFile \/ AddLinkerArgument
  \/ StartChild \/ WaitStage \/ WaitProgram
  \/ AfterArguments \/ Return \/ ReturnFailure \/ RemoveTemps \/ AtExit

Next == DriverStep \/ ChildStep \/ Signal

Spec == Init /\ [][Next]_vars

\* The operating system runs the driver and its child, and every child ends.
FairSpec == Spec /\ WF_vars(DriverStep) /\ WF_vars(ChildStep)

-----------------------------------------------------------------------------
(* Properties *)

\* No temporary file survives the driver, whatever failed and whenever a signal
\* arrived, unless the signal took the driver away from a living child: such a
\* child can make its output again after it was removed, and then that file and
\* the directory may stay, and nothing else does.  Two cases are worse, and excluded:
\* a child that ran the driver's handler before it set process_is_fork removes the
\* same files at the same time, and a signal during the removal meets a tree that
\* is half freed (remove_entry, tmpmgr_cleanup).  The directory alone also stays if
\* the signal came between mkdtemp and the insertion into tracked_files.
TempsGone ==
  pc = "exited" /\ ~mgr.cut /\ ~child.swept =>
    /\ \A f \in FilesInBaseDir : child.state # "none" /\ f \in Written(child.job)
    /\ Exists(BaseDir) => mgr.pending = BaseDir \/ child.state # "none"

\* The arguments the stage makes a file of their own from.
Compiled(i) == Steps(conf.args[i].type) # <<>> /\ OutputOf(conf.args[i].base) # NoPath

\* The file of argument i is complete and made from argument j, the last of the
\* first n that maps to its name.
MadeOfLast(i, j, n) ==
  LET f == OutputOf(conf.args[i].base)
  IN  /\ Compiled(j) /\ OutputOf(conf.args[j].base) = f
      /\ \A k \in j + 1 .. n : Compiled(k) => OutputOf(conf.args[k].base) # f
      /\ Whole(f) /\ disk[f].arg = j

\* Exit status 0 means that the requested files are there and complete: the
\* executable is linked from every argument, in order, and each other output is
\* made from the last argument that maps to its name.
Built ==
  pc = "exited" /\ status = ExitSuccess =>
    /\ conf.stage = "LINK" =>
         /\ Whole(LinkerOutput)
         /\ disk[LinkerOutput].args = [i \in DOMAIN conf.args |-> i]
    /\ \A i \in DOMAIN conf.args :
         Compiled(i) => \E j \in i .. Len(conf.args) : MadeOfLast(i, j, Len(conf.args))

IsDependencyFile(f) == Len(f) = 2 /\ f[2] = "d"

\* A driver that fails without being interrupted leaves no half-written output.
\* The one exception is a default a.out whose linker could not be waited for
\* (process.pid is still set): the two REQUIRE_OK of driver_run_linker remove
\* nothing.
NoPartialOutput ==
  pc = "exited" /\ ~signalled /\ ~(process.pid /\ output_file = NoPath /\ conf.stage = "LINK") =>
    \A f \in DOMAIN disk : disk[f] = Partial => IsDependencyFile(f)

\* "In case of any errors in any of compilation stages, all further compilation
\* is aborted and non-zero exit code returned" (docs/man/kefir.1, EXIT STATUS).
AbortsOnError ==
  [][/\ broken => child'.state # "forked" \/ child.state = "forked"
     /\ broken /\ pc' = "exited" => status' # ExitSuccess]_vars

\* Every child starts on complete inputs: what an earlier stage made is still
\* there and whole when the assembler, the linker or the program of -run needs
\* it, although every compiler child inherits the handlers that remove it.
StageInputsWhole ==
  [][child.state = "none" /\ child'.state = "forked" =>
       \A i \in DOMAIN child'.job.inputs : Whole(child'.job.inputs[i])]_vars

\* The driver always ends: every path of driver_run_impl leads to exit.
Terminates == <>(pc = "exited")
=============================================================================
