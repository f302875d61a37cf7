----------------------------- MODULE DriverPlan -----------------------------
(* The inductive invariant of the compiler driver, and the parts of it that  *)
(* are about the driver's own state (the types, the temporary directory, the *)
(* names of the outputs and the plan of the steps) and about its children:   *)
(* which job a child has and where half-written files can be.                *)
EXTENDS Driver, TLAPS

-----------------------------------------------------------------------------
(* The names of files.  Each of the driver's variables holds names of a few  *)
(* of these kinds, and names of different kinds are different files.         *)

Bases == (UNION {{c.args[i].base : i \in DOMAIN c.args} : c \in Configurations})
         \cup {"out", "-", "tmp"}

Inputs == {Input(i) : i \in Nat}
Temps(kind) == {TempPath(kind, n) : n \in Nat}
TempSteps == {"object-file", "asm-file", "exe"}
Tracked == {BaseDir} \cup (UNION {Temps(k) : k \in TempSteps})
GivenOutputs == {<<"out">>, Stdout}
Products == {Derived(b, e) : b \in Bases, e \in {"o", "s", "i"}} \cup GivenOutputs
DepFiles == {Derived(b, "d") : b \in Bases}
DefaultOutput == <<"a.out">>

ObjectNames == {NoPath} \cup Products \cup Temps("object-file")
AsmNames == {NoPath} \cup Temps("asm-file")
OutputNameSet == {NoPath} \cup GivenOutputs \cup Temps("exe")
DepNames == {NoPath} \cup DepFiles
WrittenNames == ObjectNames \cup AsmNames \cup OutputNameSet \cup {DefaultOutput}
LinkNames == Inputs \cup Temps("object-file")

-----------------------------------------------------------------------------
(* Where the driver is.  todo is always what is left of one of the plans.    *)

LinkPlans ==
  {<<"object-file", "asm-file", "compile", "assemble", "add">>,
   <<"object-file", "asm-file", "preprocess", "assemble", "add">>,
   <<"object-file", "assemble", "add">>,
   <<"asm-file", "compile", "assemble", "add">>,
   <<"asm-file", "preprocess", "assemble", "add">>,
   <<"compile", "assemble", "add">>, <<"preprocess", "assemble", "add">>,
   <<"assemble", "add">>, <<"add">>}
AssemblePlans ==
  {<<"asm-file", "compile", "assemble">>, <<"asm-file", "preprocess", "assemble">>,
   <<"compile", "assemble">>, <<"preprocess", "assemble">>, <<"assemble">>}
CompilePlans == {<<"compile">>, <<"preprocess">>}
RunPlans == {<<"exe", "link", "program">>, <<"link", "program">>, <<"program">>}

Linking == conf.stage \in {"LINK", "RUN"}
InArguments == index \in DOMAIN conf.args

Plan ==
  \/ todo = <<>>
  \/ InArguments /\ Linking /\ todo \in LinkPlans
  \/ InArguments /\ conf.stage = "ASSEMBLE" /\ todo \in AssemblePlans
  \/ InArguments /\ ~Linking /\ conf.stage # "ASSEMBLE" /\ todo \in CompilePlans
  \/ ~InArguments /\ conf.stage = "LINK" /\ todo = <<"link">>
  \/ ~InArguments /\ conf.stage = "RUN" /\ todo \in RunPlans

\* The compiler writes an assembly file for the assembler, or the output.
CompilerTarget == IF names.asm # NoPath THEN names.asm ELSE names.object

OutOf(step) ==
  IF step \in {"compile", "preprocess"} THEN CompilerTarget
  ELSE IF step = "assemble" THEN names.object
  ELSE IF step = "link" THEN LinkerOutput
  ELSE NoPath

InputsOf(step) ==
  IF step \in {"compile", "preprocess"} THEN <<Input(index)>>
  ELSE IF step = "assemble" THEN <<IF names.asm # NoPath THEN names.asm ELSE Input(index)>>
  ELSE IF step = "link" THEN linker
  ELSE <<output_file>>

\* No step has failed so far and no signal has come.
Good ==
  /\ ~signalled
  /\ pc \in {"argument", "step", "wait"}
  /\ child.end \notin {ExitFailure, Signalled}

-----------------------------------------------------------------------------
(* The inductive invariant *)

PCs == {"argument", "step", "wait", "failed", "atexit", "exited"}
ChildStates == {"none", "forked", "running", "writing", "exiting", "ended"}

MgrType ==
  mgr \in [basedir : BOOLEAN, file_index : Nat, tracked : SUBSET Tracked,
           pending : Tracked \cup {NoEntry}, removing : SUBSET Tracked, cut : BOOLEAN]

ChildShape(c) ==
  c = [job |-> c.job, state |-> c.state, end |-> c.end, tracked |-> c.tracked,
       removing |-> c.removing, swept |-> c.swept]

ChildType ==
  /\ ChildShape(child)
  /\ child.state \in ChildStates
  /\ child.end \in {ExitSuccess, ExitFailure, Uninitialized, Signalled}
  /\ child.end = Uninitialized <=> child.state \notin {"exiting", "ended"}
  /\ child.state = "exiting" => child.end = ExitFailure /\ child.swept
  /\ child.swept => child.state \in {"exiting", "ended"}
  /\ child.tracked \subseteq Tracked /\ child.removing \subseteq Tracked
  /\ child.state # "none" => child.job.out \in WrittenNames /\ child.job.dep \in DepNames

ConfigType ==
  /\ cc = [assembly_mode |-> cc.assembly_mode, out |-> cc.out, dep |-> cc.dep,
           target |-> cc.target]
  /\ cc.out \in ObjectNames \cup AsmNames
  /\ cc.dep \in DepNames

\* Every variable holds what the structures of the code can hold.
TypeInv ==
  /\ conf \in Configurations
  /\ disk = [f \in DOMAIN disk |-> disk[f]]
  /\ MgrType /\ ChildType /\ ConfigType
  /\ pc \in PCs
  /\ index \in 1 .. Len(conf.args) + 1
  /\ names \in [object : ObjectNames, asm : AsmNames]
  /\ output_file \in OutputNameSet
  /\ linker \in Seq(LinkNames)
  /\ signalled \in BOOLEAN
  /\ broken \in BOOLEAN

\* A child exists only while the driver waits for it, and it has the job of the
\* step the driver is at.
WaitInv ==
  ~signalled =>
    /\ child.state = "none" <=> pc # "wait"
    /\ pc = "wait" =>
         /\ process.pid
         /\ todo # <<>> /\ Head(todo) \in ChildSteps
         /\ child.job.kind = Head(todo)
         /\ child.job.out = OutOf(Head(todo))
         /\ child.job.inputs = InputsOf(Head(todo))
         /\ Head(todo) \in {"compile", "preprocess"} => child.job.arg = index
         /\ Head(todo) \notin {"compile", "preprocess"} => child.job.dep = NoPath

\* Which names are set before which step.
PlanInv ==
  ~signalled /\ pc \in {"step", "wait"} =>
    /\ Plan
    /\ /\ todo # <<>> /\ Head(todo) \in {"compile", "preprocess"}
       /\ Linking \/ conf.stage = "ASSEMBLE"
       => names.asm # NoPath
    /\ InArguments /\ ~Linking => names.object = OutputOf(Argument.base)
    /\ InArguments /\ ~Linking /\ conf.stage # "ASSEMBLE" => names.asm = NoPath
    /\ todo # <<>> /\ Head(todo) = "object-file" => names.asm = NoPath
    /\ todo # <<>> /\ Head(todo) \in {"link", "program"} /\ conf.stage = "RUN" => output_file # NoPath

\* Steps are left only of arguments that have steps.
StepsInv ==
  pc \in {"step", "wait"} /\ InArguments /\ todo # <<>> => Steps(Argument.type) # <<>>

\* Output to standard output: no name of a file is ever put in the configuration.
NoOutput ==
  /\ conf.stage \in {"COMPILE"} \cup PreprocessStages
  /\ output_file = Stdout \/ (conf.stage = "PREPROCESS" /\ output_file = NoPath)

OutputInv ==
  /\ conf.stage # "RUN" => output_file = OutputNames[conf.output]
  /\ NoOutput => cc.out = NoPath /\ names.object = NoPath /\ names.asm = NoPath

\* The manager: what is on disk in the directory, what is recorded, and the
\* entry in between.
DirInv ==
  /\ signalled => pc \in {"atexit", "exited"}
  /\ mgr.cut => signalled
  /\ mgr.pending # NoEntry => mgr.basedir
  /\ mgr.pending # NoEntry /\ ~signalled =>
       /\ pc = "step" /\ todo # <<>> /\ Head(todo) \in TempSteps
       /\ mgr.pending \in {BaseDir} \cup Temps(Head(todo))
  /\ mgr.pending = BaseDir => child.state = "none"
  /\ BaseDir \in mgr.tracked \cup mgr.removing => mgr.basedir
  /\ \A f \in DOMAIN disk : InBaseDir(f) =>
       BaseDir \in DOMAIN disk /\ mgr.pending # BaseDir /\ f \in Tracked
  /\ pc \notin {"atexit", "exited"} /\ BaseDir \in DOMAIN disk =>
       mgr.pending = BaseDir \/ BaseDir \in mgr.tracked

\* A file that the child of this driver may have made after it was removed.
OfChild(f) == child.state # "none" /\ f \in Written(child.job)

\* The removal of the temporary files.  What it is about to remove is still
\* there, and what it no longer comes to is gone, or is the output of a child
\* that is still alive.
RemovalInv ==
  /\ pc # "atexit" => mgr.removing = {}
  /\ pc = "exited" => mgr.tracked = {}
  /\ BaseDir \in mgr.removing => BaseDir \notin mgr.tracked
  /\ pc \in {"atexit", "exited"} /\ ~mgr.cut /\ ~child.swept =>
       /\ mgr.removing \subseteq DOMAIN disk
       /\ BaseDir \notin mgr.tracked =>
            \A f \in DOMAIN disk : InBaseDir(f) => f \in mgr.removing \/ OfChild(f)
       /\ BaseDir \in DOMAIN disk =>
            mgr.pending = BaseDir \/ BaseDir \in mgr.tracked \cup mgr.removing \/ child.state # "none"

\* Where half-written files can be.
PartialInv ==
  /\ NoPath \notin DOMAIN disk
  /\ ~signalled =>
       \A f \in DOMAIN disk : disk[f] = Partial =>
         \/ f \in DepFiles
         \/ InBaseDir(f)
         \/ pc = "wait" /\ f = child.job.out /\ child.end # ExitSuccess
         \/ pc = "failed" /\ f = output_file
         \/ /\ pc \in {"failed", "atexit", "exited"} /\ f = DefaultOutput
            /\ process.pid /\ output_file = NoPath /\ conf.stage = "LINK"

\* The driver is about to take this step, or waits for its child.
Ahead(step) == pc \in {"step", "wait"} /\ todo # <<>> /\ Head(todo) = step

\* File f is whole and was made from argument i.
Holds(f, i) == Whole(f) /\ disk[f].arg = i

\* What has been made so far is whole, and from which argument it was made.
MadeInv ==
  /\ \A i \in DOMAIN linker : Holds(linker[i], i)
  /\ Ahead("assemble") => names.asm = NoPath \/ Holds(names.asm, index)
  /\ pc = "step" /\ Ahead("add") /\ Argument.type \notin {"OBJECT", "LINKER_FLAG"} =>
       names.object \in Temps("object-file") /\ Holds(names.object, index)
  /\ pc = "step" /\ Ahead("program") => Whole(output_file)
  /\ pc = "wait" /\ child.state = "ended" /\ child.job.out # NoPath =>
       /\ Whole(child.job.out)
       /\ child.job.kind \in {"compile", "preprocess", "assemble"} =>
            disk[child.job.out].arg = index
       /\ child.job.kind = "link" =>
            disk[child.job.out].args = [i \in DOMAIN linker |-> i]

WholeInv ==
  /\ \A i \in DOMAIN conf.args : Holds(Input(i), i)
  /\ Good => MadeInv

\* One linker argument for every argument that has been handled.
CountInv ==
  Good /\ Linking =>
    Len(linker) = IF InArguments /\ pc = "step" /\ todo = <<>> THEN index ELSE index - 1

\* Temporary files already given to the linker are not made or written again.
Older(f) == \A n \in Nat : f = TempPath("object-file", n) => n < mgr.file_index

FreshInv ==
  /\ \A i \in DOMAIN linker : Older(linker[i]) /\ linker[i] # mgr.pending
  /\ Older(names.object) /\ Older(mgr.pending)
  /\ pc \in {"step", "wait"} /\ Linking /\ InArguments /\ todo # <<>> =>
       /\ \A i \in DOMAIN linker : linker[i] # names.object
       /\ Head(todo) \notin {"object-file", "add"} => names.object \in Temps("object-file")

\* The outputs of the first n arguments are made, but for file f, which a later
\* argument is making again.
MadeUpTo(n, f) ==
  \A i \in 1 .. n :
    Compiled(i) /\ OutputOf(conf.args[i].base) # f => \E j \in i .. n : MadeOfLast(i, j, n)

LinkDone ==
  conf.stage = "LINK" =>
    Whole(LinkerOutput) /\ disk[LinkerOutput].args = [i \in DOMAIN conf.args |-> i]

BuiltInv ==
  /\ Good /\ pc = "argument" => MadeUpTo(index - 1, NoPath)
  /\ Good /\ pc \in {"step", "wait"} /\ InArguments =>
       IF todo = <<>> THEN MadeUpTo(index, NoPath) ELSE MadeUpTo(index - 1, names.object)
  /\ Good /\ pc \in {"step", "wait"} /\ ~InArguments => MadeUpTo(index - 1, NoPath)
  /\ Good /\ pc = "step" /\ todo = <<>> /\ ~InArguments => LinkDone
  /\ status = ExitSuccess =>
       ~signalled /\ pc \in {"atexit", "exited"} /\ LinkDone /\ MadeUpTo(Len(conf.args), NoPath)

\* After the failure of a stage the driver is on its way out.
BrokenInv ==
  /\ status \in {ExitSuccess, ExitFailure, Uninitialized}
  /\ signalled => status = ExitFailure
  /\ broken /\ ~signalled =>
       \/ pc = "wait" /\ child.end \in {ExitFailure, Signalled} /\ child.job.kind # "program"
       \/ pc = "failed"
       \/ pc \in {"atexit", "exited"} /\ status = ExitFailure

-----------------------------------------------------------------------------
(* Facts about names *)

\* What it is to be a sequence over a set.
LEMMA SeqFacts ==
  ASSUME NEW S, NEW s \in Seq(S)
  PROVE  Len(s) \in Nat /\ DOMAIN s = 1 .. Len(s) /\ \A i \in DOMAIN s : s[i] \in S
  OBVIOUS

\* The base names of the arguments are strings other than the name the model
\* gives to inputs.
LEMMA BaseFacts == "in" \notin Bases
  <1> SUFFICES ASSUME NEW c \in Configurations, NEW i \in DOMAIN c.args
               PROVE  c.args[i].base # "in"
    BY DEF Bases
  <1>1. c.args \in Seq([type : ArgumentTypes, base : STRING \ {"in"}])
    BY ConfigurationsAssumption
  <1>2. c.args[i] \in [type : ArgumentTypes, base : STRING \ {"in"}]
    BY <1>1, SeqFacts
  <1> QED BY <1>2

\* Files of different kinds are different files.
LEMMA PathKinds ==
  /\ NoPath \notin Tracked \cup Products \cup DepFiles \cup Inputs \cup {DefaultOutput}
  /\ BaseDir \notin Products \cup DepFiles \cup Inputs \cup {DefaultOutput}
  /\ \A k \in TempSteps : BaseDir \notin Temps(k)
  /\ DefaultOutput \notin Tracked \cup Products \cup DepFiles \cup Inputs
  /\ Tracked \cap (Products \cup DepFiles \cup Inputs) = {}
  /\ Products \cap (DepFiles \cup Inputs) = {}
  /\ DepFiles \cap Inputs = {}
  /\ \A k, l \in TempSteps : k # l => Temps(k) \cap Temps(l) = {}
  BY BaseFacts DEF NoPath, NoEntry, Tracked, Products, DepFiles, Inputs, DefaultOutput, BaseDir,
     Temps, TempPath, TempSteps, Derived, GivenOutputs, Stdout, Input

\* Exactly the temporary files are in the directory of the manager.
LEMMA PathPlaces ==
  /\ \A k \in TempSteps : \A f \in Temps(k) : InBaseDir(f)
  /\ \A f \in Products \cup DepFiles \cup Inputs \cup {NoPath, BaseDir, DefaultOutput} : ~InBaseDir(f)
  /\ \A f \in DepFiles : IsDependencyFile(f)
  BY DEF NoPath, NoEntry, Tracked, Products, DepFiles, Inputs, DefaultOutput, BaseDir,
     Temps, TempPath, TempSteps, Derived, GivenOutputs, Stdout, Input, InBaseDir, IsDependencyFile

-----------------------------------------------------------------------------

Inv ==
  /\ TypeInv /\ WaitInv /\ PlanInv /\ StepsInv /\ OutputInv /\ DirInv /\ RemovalInv
  /\ PartialInv /\ WholeInv /\ CountInv /\ FreshInv /\ BuiltInv /\ BrokenInv

\* What a command line is.
LEMMA ConfFacts ==
  ASSUME conf \in Configurations
  PROVE  /\ conf.stage \in Stages
         /\ conf.output \in {"none", "file", "stdout"}
         /\ DOMAIN conf.args = 1 .. Len(conf.args)
         /\ Len(conf.args) \in Nat
         /\ \A i \in DOMAIN conf.args : conf.args[i].type \in ArgumentTypes /\ conf.args[i].base \in Bases
  <1>1. conf.args \in Seq([type : ArgumentTypes, base : STRING \ {"in"}])
    BY ConfigurationsAssumption
  <1>2. \A i \in DOMAIN conf.args : conf.args[i] \in [type : ArgumentTypes, base : STRING \ {"in"}]
    BY <1>1, SeqFacts
  <1>3. \A i \in DOMAIN conf.args : conf.args[i].base \in Bases
    BY DEF Bases
  <1>4. \A i \in DOMAIN conf.args : conf.args[i].type \in ArgumentTypes
    BY <1>2
  <1> QED BY <1>1, <1>3, <1>4, SeqFacts, ConfigurationsAssumption

\* The invariant holds when driver_run_impl starts.
LEMMA InitHolds == Init => Inv
  <1> SUFFICES ASSUME Init PROVE Inv
    OBVIOUS
  <1>0. conf \in Configurations /\ Len(conf.args) \in Nat
    BY ConfFacts DEF Init
  <1>1. TypeInv
    <2>1. output_file \in OutputNameSet
      BY <1>0, ConfFacts DEF Init, OutputNameSet, GivenOutputs, OutputNames
    <2>2. /\ cc = [assembly_mode |-> cc.assembly_mode, out |-> cc.out, dep |-> cc.dep, target |-> cc.target]
          /\ cc.out = NoPath /\ cc.dep = NoPath
      BY DEF Init
    <2>3. /\ ChildShape(child) /\ child.state = "none" /\ child.end = Uninitialized
          /\ child.tracked = {} /\ child.removing = {} /\ ~child.swept
      BY DEF Init, ProcessInit, NoChild, ChildShape
    <2>4. disk = [f \in DOMAIN disk |-> disk[f]]
      BY DEF Init
    <2>5. /\ index \in 1 .. Len(conf.args) + 1
          /\ names \in [object : ObjectNames, asm : AsmNames]
          /\ linker \in Seq(LinkNames)
      BY <1>0 DEF Init, ObjectNames, AsmNames
    <2>6. MgrType
      BY DEF Init, MgrInit, MgrType
    <2> QED
      BY <1>0, <2>1, <2>2, <2>3, <2>4, <2>5, <2>6
      DEF TypeInv, ChildType, ConfigType, Init, ChildStates, PCs, ObjectNames, DepNames, AsmNames
  <1>2. WaitInv
    BY DEF WaitInv, Init, ProcessInit, NoChild
  <1>3. PlanInv
    BY DEF PlanInv, Init
  <1>4. OutputInv
    BY DEF OutputInv, Init
  <1>5. DirInv
    <2>1. \A f \in DOMAIN disk : f \in Inputs
      BY <1>0, ConfFacts DEF Init, Inputs
    <2> QED BY <2>1, PathPlaces, PathKinds DEF DirInv, Init, MgrInit, ProcessInit, NoChild, Tracked, NoPath
  <1>12. RemovalInv
    BY DEF RemovalInv, Init, MgrInit
  <1>6. PartialInv
    BY DEF PartialInv, Init, NoPath, NoEntry, Input, Partial
  <1>7. WholeInv /\ CountInv
    <2>1. MadeInv
      BY DEF MadeInv, Init, Ahead
    <2>2. \A i \in DOMAIN conf.args : Holds(Input(i), i)
      BY DEF Init, Holds, Whole, Exists, Input
    <2>3. CountInv
      BY DEF CountInv, Init
    <2> QED BY <2>1, <2>2, <2>3 DEF WholeInv
  <1>8. FreshInv
    <2>1. \A n : TempPath("object-file", n) # NoPath
      BY DEF TempPath, NoPath, NoEntry
    <2> QED BY <2>1 DEF FreshInv, Init, MgrInit, Older, NoPath
  <1>9. BuiltInv
    BY DEF BuiltInv, Init, MadeUpTo, Uninitialized, ExitSuccess
  <1>11. StepsInv
    BY DEF StepsInv, Init
  <1>10. BrokenInv
    BY DEF BrokenInv, Init, Uninitialized
  <1> QED BY <1>1, <1>2, <1>3, <1>4, <1>5, <1>6, <1>7, <1>8, <1>9, <1>10, <1>11, <1>12 DEF Inv

-----------------------------------------------------------------------------
(* Types are kept *)

\* The names driver_run_argument makes.
LEMMA OutputNamed ==
  ASSUME TypeInv, OutputInv, NEW b \in Bases
  PROVE  /\ OutputOf(b) \in {NoPath} \cup Products
         /\ DependencyFile(b) \in DepNames
  <1>1. conf.stage # "RUN" => output_file \in {NoPath} \cup GivenOutputs
    BY ConfFacts DEF TypeInv, OutputInv, OutputNames, GivenOutputs
  <1>2. OutputOf(b) \in {NoPath} \cup Products
    BY <1>1 DEF OutputOf, SavedName, Products
  <1>3. output_file # NoPath => output_file[1] \in Bases
    BY DEF TypeInv, OutputNameSet, GivenOutputs, Stdout, Temps, TempPath, Bases
  <1>4. DependencyFile(b) \in DepNames
    BY <1>3 DEF TypeInv, ConfigType, DependencyFile, DepNames, DepFiles
  <1> QED BY <1>2, <1>4

\* A record after a step of the removal: what is left in the tree, and in the list.
Left(m, t, r) == [m EXCEPT !.tracked = t, !.removing = r]

\* One step of the removal looks at an entry, removes one path, or gives up.
LEMMA RemovalFacts ==
  ASSUME NEW m, NEW n, Removal(m, n)
  PROVE  /\ \/ disk' = disk
            \/ \E f \in m.removing \cup FilesInBaseDir : Removable(f) /\ disk' = Without(disk, {f})
         /\ \E t, r : /\ t \subseteq m.tracked \cup m.removing /\ r \subseteq m.removing \cup m.tracked \cup FilesInBaseDir
                      /\ n = Left(m, t, r)
  <1>1. CASE LookAtEntry(m, n)
    <2>1. PICK e \in m.tracked :
            n = [m EXCEPT !.tracked = m.tracked \ {e}, !.removing = Listing(e)] /\ disk' = disk
      BY <1>1 DEF LookAtEntry, First
    <2>2. Listing(e) \subseteq m.tracked \cup FilesInBaseDir
      BY <2>1 DEF Listing
    <2> QED BY <2>1, <2>2 DEF Left
  <1>2. CASE RemoveNext(m, n)
    <2>1. PICK f \in NextToRemove(m) :
            Removable(f) /\ disk' = Without(disk, {f}) /\ n = [m EXCEPT !.removing = m.removing \ {f}]
      BY <1>2 DEF RemoveNext, RemoveFile
    <2>2. f \in m.removing \cup FilesInBaseDir
      BY DEF NextToRemove, First
    <2>3. n = [m EXCEPT !.tracked = m.tracked, !.removing = m.removing \ {f}]
      BY <2>1
    <2> QED BY <2>1, <2>2, <2>3 DEF Left
  <1>3. CASE RemoveFails(m, n)
    <2>1. PICK t \in SUBSET InTree(m) : n = [m EXCEPT !.tracked = t, !.removing = {}] /\ disk' = disk
      BY <1>3 DEF RemoveFails
    <2>2. t \subseteq m.tracked \cup m.removing
      BY DEF InTree
    <2> QED BY <2>1, <2>2 DEF Left
  <1> QED BY <1>1, <1>2, <1>3 DEF Removal

\* What the steps of the manager do to it.
LEMMA MgrEffects ==
  ASSUME MgrType, DirInv
  PROVE  /\ MakeBaseDir => /\ MgrType' /\ mgr'.basedir
                           /\ mgr'.tracked = mgr.tracked /\ mgr'.pending = BaseDir
                           /\ mgr'.file_index = mgr.file_index
                           /\ mgr'.removing = mgr.removing /\ mgr'.cut = mgr.cut
         /\ \A step \in TempSteps : MakeTempFile(step) =>
              /\ MgrType' /\ mgr'.basedir = mgr.basedir
              /\ mgr'.tracked = mgr.tracked
              /\ mgr'.pending = TempPath(step, mgr.file_index)
              /\ mgr'.file_index = mgr.file_index + 1
              /\ mgr'.removing = mgr.removing /\ mgr'.cut = mgr.cut
         /\ Track => /\ MgrType' /\ mgr'.basedir = mgr.basedir
                     /\ mgr'.tracked = mgr.tracked \cup {mgr.pending}
                     /\ mgr'.pending = NoEntry /\ mgr'.file_index = mgr.file_index
                     /\ mgr'.removing = mgr.removing /\ mgr'.cut = mgr.cut
         /\ RemoveTemps \/ Signal =>
              /\ MgrType' /\ mgr'.basedir = mgr.basedir
              /\ BaseDir \in mgr'.tracked \cup mgr'.removing => BaseDir \in mgr.tracked \cup mgr.removing
              /\ mgr'.pending = mgr.pending /\ mgr'.file_index = mgr.file_index
              /\ RemoveTemps => mgr'.cut = mgr.cut
              /\ Signal => mgr'.removing \in {{}, mgr.removing}
  <1>1. ASSUME MakeBaseDir
        PROVE  /\ MgrType' /\ mgr'.basedir /\ mgr'.tracked = mgr.tracked
               /\ mgr'.pending = BaseDir /\ mgr'.file_index = mgr.file_index
               /\ mgr'.removing = mgr.removing /\ mgr'.cut = mgr.cut
    BY <1>1 DEF MgrType, MakeBaseDir, Tracked
  <1>2. ASSUME NEW step \in TempSteps, MakeTempFile(step)
        PROVE  /\ MgrType' /\ mgr'.basedir = mgr.basedir /\ mgr'.tracked = mgr.tracked
               /\ mgr'.pending = TempPath(step, mgr.file_index)
               /\ mgr'.file_index = mgr.file_index + 1
               /\ mgr'.removing = mgr.removing /\ mgr'.cut = mgr.cut
    <2>1. mgr.file_index \in Nat /\ mgr.file_index + 1 \in Nat
      BY DEF MgrType
    <2>2. TempPath(step, mgr.file_index) \in Tracked
      BY <2>1 DEF Tracked, Temps
    <2>3. mgr' = [mgr EXCEPT !.file_index = mgr.file_index + 1, !.pending = TempPath(step, mgr.file_index)]
      BY <1>2 DEF MakeTempFile
    <2> QED BY <2>1, <2>2, <2>3 DEF MgrType
  <1>3. ASSUME Track
        PROVE  /\ MgrType' /\ mgr'.basedir = mgr.basedir
               /\ mgr'.tracked = mgr.tracked \cup {mgr.pending}
               /\ mgr'.pending = NoEntry /\ mgr'.file_index = mgr.file_index
               /\ mgr'.removing = mgr.removing /\ mgr'.cut = mgr.cut
    BY <1>3 DEF MgrType, Track
  <1>4. ASSUME RemoveTemps
        PROVE  /\ MgrType' /\ mgr'.basedir = mgr.basedir
               /\ BaseDir \in mgr'.tracked \cup mgr'.removing => BaseDir \in mgr.tracked \cup mgr.removing
               /\ mgr'.pending = mgr.pending /\ mgr'.file_index = mgr.file_index
               /\ mgr'.cut = mgr.cut
    <2>1. PICK t, r : /\ t \subseteq mgr.tracked \cup mgr.removing
                      /\ r \subseteq mgr.removing \cup mgr.tracked \cup FilesInBaseDir
                      /\ mgr' = Left(mgr, t, r)
      <3>1. Removal(mgr, mgr')
        BY <1>4 DEF RemoveTemps
      <3> QED BY <3>1, RemovalFacts
    <2>2. FilesInBaseDir \subseteq Tracked /\ BaseDir \notin FilesInBaseDir
      BY PathPlaces DEF FilesInBaseDir, DirInv
    <2>3. t \in SUBSET Tracked /\ r \in SUBSET Tracked
      BY <2>1, <2>2 DEF MgrType
    <2> QED BY <2>1, <2>2, <2>3 DEF MgrType, Left
  <1>5. ASSUME Signal
        PROVE  /\ MgrType' /\ mgr'.basedir = mgr.basedir
               /\ BaseDir \in mgr'.tracked \cup mgr'.removing => BaseDir \in mgr.tracked \cup mgr.removing
               /\ mgr'.pending = mgr.pending /\ mgr'.file_index = mgr.file_index
               /\ mgr'.removing \in {{}, mgr.removing}
    <2>1. InTree(mgr) \subseteq mgr.tracked \cup mgr.removing
      BY DEF InTree
    <2> QED BY <1>5, <2>1 DEF MgrType, Signal
  <1>6. ~(RemoveTemps /\ Signal)
    <2>1. RemoveTemps => signalled' = signalled
      BY DEF RemoveTemps
    <2>2. Signal => ~signalled /\ signalled' = TRUE
      BY DEF Signal
    <2> QED BY <2>1, <2>2
  <1> QED BY <1>1, <1>2, <1>3, <1>4, <1>5, <1>6

\* What the steps of the process structure and of the child do to the child.
LEMMA ChildEffects ==
  ASSUME ChildType
  PROVE  /\ \A job : Spawn(job) =>
              /\ child'.job = job /\ child'.state = "forked" /\ child'.end = Uninitialized
              /\ child'.tracked = mgr.tracked /\ child'.removing = {} /\ child'.swept = FALSE
              /\ ChildShape(child')
         /\ ChildStarts => /\ child'.job = child.job /\ child'.state = "running"
                           /\ child'.end = child.end /\ child'.swept = child.swept
                           /\ child'.tracked = child.tracked /\ child'.removing = child.removing
         /\ ChildOpens => /\ child'.job = child.job /\ child'.state = "writing"
                          /\ child'.end = child.end /\ child'.swept = child.swept
                          /\ child'.tracked = child.tracked /\ child'.removing = child.removing
         /\ \A how, handlers : Exits(how, handlers) =>
              /\ child'.job = child.job /\ child'.end = how
              /\ child'.state \in {"exiting", "ended"} /\ (child.swept => child'.swept)
              /\ child.state # "forked" => child'.state = "ended"
              /\ child'.state = "exiting" => child'.swept
              /\ child'.tracked = child.tracked /\ child'.removing = child.removing
         /\ ChildRemoves =>
              /\ child'.job = child.job /\ child'.end = child.end /\ child'.swept = child.swept
              /\ child'.state \in {"exiting", "ended"}
              /\ child'.tracked \subseteq child.tracked \cup child.removing
              /\ child'.removing \subseteq child.removing \cup child.tracked \cup FilesInBaseDir
         /\ ChildStep => ChildShape(child')
         /\ NoChild.state = "none" /\ NoChild.end = Uninitialized /\ NoChild.swept = FALSE
         /\ NoChild.tracked = {} /\ NoChild.removing = {} /\ ChildShape(NoChild)
  <1> USE DEF ChildType, ChildShape
  <1>1. ASSUME NEW job, Spawn(job)
        PROVE  /\ child'.job = job /\ child'.state = "forked" /\ child'.end = Uninitialized
               /\ child'.tracked = mgr.tracked /\ child'.removing = {} /\ child'.swept = FALSE
               /\ ChildShape(child')
    BY <1>1 DEF Spawn, NoChild
  <1>2. ASSUME ChildStarts \/ ChildOpens
        PROVE  /\ child'.job = child.job /\ child'.state = IF ChildStarts THEN "running" ELSE "writing"
               /\ child'.end = child.end /\ child'.swept = child.swept
               /\ child'.tracked = child.tracked /\ child'.removing = child.removing
               /\ ChildShape(child')
    BY <1>2 DEF ChildStarts, ChildOpens
  <1>3. ASSUME NEW how, NEW handlers, Exits(how, handlers)
        PROVE  /\ child'.job = child.job /\ child'.end = how
               /\ child'.state \in {"exiting", "ended"} /\ (child.swept => child'.swept)
               /\ child.state # "forked" => child'.state = "ended"
               /\ child'.state = "exiting" => child'.swept
               /\ child'.tracked = child.tracked /\ child'.removing = child.removing
               /\ ChildShape(child')
    BY <1>3 DEF Exits, ProcessIsFork
  <1>4. ASSUME ChildRemoves
        PROVE  /\ child'.job = child.job /\ child'.end = child.end /\ child'.swept = child.swept
               /\ child'.state \in {"exiting", "ended"}
               /\ child'.tracked \subseteq child.tracked \cup child.removing
               /\ child'.removing \subseteq child.removing \cup child.tracked \cup FilesInBaseDir
               /\ ChildShape(child')
    <2>1. CASE Removal(child, child')
      <3>1. PICK t, r :
              /\ t \subseteq child.tracked \cup child.removing /\ r \subseteq child.removing \cup child.tracked \cup FilesInBaseDir
              /\ child' = Left(child, t, r)
        BY <2>1, RemovalFacts
      <3> QED BY <1>4, <3>1 DEF ChildRemoves, Left
    <2>2. CASE child' = [child EXCEPT !.state = "ended"]
      BY <2>2
    <2> QED BY <1>4, <2>1, <2>2 DEF ChildRemoves
  <1>5. ChildStep => ChildShape(child')
    BY <1>2, <1>3, <1>4 DEF ChildStep, ChildInterrupted, ChildFails, ChildSucceeds
  <1>6. ~(ChildStarts /\ ChildOpens)
    BY DEF ChildStarts, ChildOpens
  <1>7. /\ NoChild.state = "none" /\ NoChild.end = Uninitialized /\ NoChild.swept = FALSE
        /\ NoChild.tracked = {} /\ NoChild.removing = {} /\ ChildShape(NoChild)
    BY DEF NoChild
  <1> QED BY <1>1, <1>2, <1>3, <1>4, <1>5, <1>6, <1>7

\* Every step leaves a manager: a directory flag, an index, recorded entries and
\* at most one entry in the making (tempfile.c).
LEMMA MgrTypeKept ==
  ASSUME TypeInv, DirInv, Next
  PROVE  MgrType'
  <1> MgrType
    BY DEF TypeInv
  <1>1. CASE CreateTempFile
    <2>1. PICK step \in TempSteps : MakeBaseDir \/ MakeTempFile(step) \/ Track \/ UNCHANGED mgr
      BY <1>1 DEF CreateTempFile, TempSteps, tempVars
    <2> QED BY <2>1, MgrEffects DEF MgrType
  <1>2. CASE RemoveTemps \/ Signal
    BY <1>2, MgrEffects
  <1>3. CASE UNCHANGED mgr
    BY <1>3 DEF MgrType
  <1>4. CreateTempFile \/ RemoveTemps \/ Signal \/ UNCHANGED mgr
    BY DEF Next, DriverStep, ChildStep, BeginArgument, EndArgument, AddLinkerArgument, StartChild,
       WaitStage, WaitProgram, AfterArguments, Return, ReturnFailure, AtExit, tempVars,
       ChildStarts, ChildInterrupted, ChildRemoves, ChildOpens, ChildFails, ChildSucceeds
  <1> QED BY <1>1, <1>2, <1>3, <1>4

\* The files a child is given to write.
LEMMA JobTypes ==
  ASSUME TypeInv, NEW step \in ChildSteps
  PROVE  JobOf(step).out \in WrittenNames /\ JobOf(step).dep \in DepNames
  BY DEF TypeInv, ConfigType, ChildSteps, JobOf, CompilerJob, AssemblerJob, LinkerJob, ProgramJob,
         CompilerOutput, LinkerOutput, WrittenNames, DepNames, DefaultOutput, ObjectNames

\* Every step leaves a child whose exit status is set exactly when it is on its
\* way out (process.c).
LEMMA ChildTypeKept ==
  ASSUME TypeInv, DirInv, Next
  PROVE  ChildType'
  <1> ChildType
    BY DEF TypeInv
  <1>1. CASE StartChild
    <2>1. PICK step \in ChildSteps : Spawn(JobOf(step)) \/ UNCHANGED child
      BY <1>1 DEF StartChild, InitFails, ForkFails
    <2>2. CASE Spawn(JobOf(step))
      BY <2>2, JobTypes, ChildEffects DEF ChildType, ChildShape, ChildStates, TypeInv, MgrType
    <2>3. CASE UNCHANGED child
      BY <2>3 DEF ChildType, ChildShape
    <2> QED BY <2>1, <2>2, <2>3
  <1>2. CASE ChildStep
    <2>1. CASE ChildStarts \/ ChildOpens
      BY <1>2, <2>1, ChildEffects DEF ChildType, ChildShape, ChildStates, ChildStarts, ChildOpens
    <2>2. CASE ChildRemoves
      <3>1. FilesInBaseDir \subseteq Tracked
        BY DEF FilesInBaseDir, DirInv
      <3>2. child.state = "exiting"
        BY <2>2 DEF ChildRemoves
      <3>3. child.end = ExitFailure /\ child.swept /\ child.job.out \in WrittenNames /\ child.job.dep \in DepNames
        BY <3>2 DEF ChildType
      <3>4. child'.tracked \subseteq Tracked /\ child'.removing \subseteq Tracked
        BY <2>2, <3>1, ChildEffects DEF ChildType
      <3>5. /\ child'.job = child.job /\ child'.end = child.end /\ child'.swept = child.swept
            /\ child'.state \in {"exiting", "ended"} /\ ChildShape(child')
        BY <1>2, <2>2, ChildEffects
      <3>6. ExitFailure # Uninitialized
        BY DEF ExitFailure, Uninitialized
      <3> QED BY <3>3, <3>4, <3>5, <3>6 DEF ChildType, ChildShape, ChildStates
    <2>3. CASE ChildInterrupted \/ ChildFails \/ ChildSucceeds
      <3>1. PICK how \in {ExitSuccess, ExitFailure, Signalled}, handlers \in {TRUE, FALSE, KeepsHandlers} :
              /\ Exits(how, handlers) /\ child.state \in {"forked", "running", "writing"}
              /\ child.state = "forked" => how = ExitFailure
        BY <2>3 DEF ChildInterrupted, ChildFails, ChildSucceeds
      <3>2. /\ child'.job = child.job /\ child'.end = how /\ child'.state \in {"exiting", "ended"}
            /\ child.state # "forked" => child'.state = "ended"
            /\ child'.state = "exiting" => child'.swept
            /\ child'.tracked = child.tracked /\ child'.removing = child.removing
        BY <3>1, ChildEffects
      <3>3. ChildShape(child')
        BY <1>2, ChildEffects
      <3>4. Uninitialized \notin {ExitSuccess, ExitFailure, Signalled}
        BY DEF ExitSuccess, ExitFailure, Signalled, Uninitialized
      <3> QED BY <3>1, <3>2, <3>3, <3>4 DEF ChildType, ChildShape, ChildStates
    <2> QED BY <1>2, <2>1, <2>2, <2>3 DEF ChildStep
  <1>3. CASE child' = NoChild
    BY <1>3, ChildEffects DEF ChildType, ChildShape, ChildStates
  <1>4. CASE UNCHANGED child
    BY <1>4 DEF ChildType, ChildShape
  <1>5. StartChild \/ ChildStep \/ child' = NoChild \/ UNCHANGED child
    BY DEF Next, DriverStep, BeginArgument, EndArgument, AddLinkerArgument, CreateTempFile,
       WaitStage, Wait, WaitFails, WaitProgram, AfterArguments, Return, ReturnFailure, RemoveTemps, AtExit, Signal, processVars
  <1> QED BY <1>1, <1>2, <1>3, <1>4, <1>5

\* Every step leaves names of the right kinds in the compiler configuration, in
\* the names of the argument and in output_file.
LEMMA NamesKept ==
  ASSUME TypeInv, OutputInv, DirInv, Next
  PROVE  /\ ConfigType'
         /\ (names \in [object : ObjectNames, asm : AsmNames])'
         /\ (output_file \in OutputNameSet)'
  <1> ConfigType /\ names \in [object : ObjectNames, asm : AsmNames] /\ output_file \in OutputNameSet
    BY DEF TypeInv
  <1>1. CASE BeginArgument
    <2>1. Argument.base \in Bases
      BY <1>1, ConfFacts DEF BeginArgument, Argument, TypeInv
    <2>2. OutputOf(Argument.base) \in ObjectNames /\ DependencyFile(Argument.base) \in DepNames
      BY <2>1, OutputNamed DEF ObjectNames
    <2>3. names' = [object |-> OutputOf(Argument.base), asm |-> NoPath] /\ output_file' = output_file
      BY <1>1 DEF BeginArgument
    <2>4. cc' = [cc EXCEPT !.dep = DependencyFile(Argument.base), !.target = DependencyTarget(Argument.base)]
      BY <1>1 DEF BeginArgument
    <2>5. ConfigType'
      BY <2>2, <2>4 DEF ConfigType
    <2> QED BY <2>2, <2>3, <2>5 DEF AsmNames
  <1>2. CASE EndArgument
    BY <1>2 DEF EndArgument, ConfigType, DepNames, ObjectNames
  <1>3. CASE CreateTempFile
    <2>1. PICK step \in TempSteps :
            /\ At(step) /\ UNCHANGED cc
            /\ \/ UNCHANGED <<names, output_file>>
               \/ mgr.pending \notin {NoEntry, BaseDir} /\ Named(step, mgr.pending)
      BY <1>3 DEF CreateTempFile, TempSteps, Track
    <2>2. CASE UNCHANGED <<names, output_file>>
      BY <2>1, <2>2 DEF ConfigType
    <2>3. CASE mgr.pending \notin {NoEntry, BaseDir} /\ Named(step, mgr.pending)
      <3>1. mgr.pending \in Temps(step)
        BY <2>1, <2>3 DEF DirInv, At
      <3> QED BY <2>1, <2>3, <3>1 DEF Named, TempSteps, ObjectNames, AsmNames, OutputNameSet, ConfigType
    <2> QED BY <2>1, <2>2, <2>3
  <1>4. CASE StartChild
    <2>1. PICK step \in ChildSteps : cc' = ConfigAfter(step) /\ UNCHANGED <<names, output_file>>
      BY <1>4 DEF StartChild
    <2>2. CompilerOutput \in ObjectNames \cup AsmNames
      BY DEF CompilerOutput, ConfigType
    <2>3. /\ UpdatedConfig = [assembly_mode |-> UpdatedConfig.assembly_mode, out |-> cc.out, dep |-> cc.dep, target |-> cc.target]
      BY DEF UpdatedConfig, ConfigType
    <2>4. ConfigType'
      BY <2>1, <2>2, <2>3 DEF ConfigAfter, ConfigType
    <2> QED BY <2>1, <2>4
  <1>5. CASE UNCHANGED <<cc, names, output_file>>
    BY <1>5 DEF ConfigType
  <1>6. BeginArgument \/ EndArgument \/ CreateTempFile \/ StartChild \/ UNCHANGED <<cc, names, output_file>>
    BY DEF Next, DriverStep, AddLinkerArgument, ChildStep,
       WaitStage, WaitProgram, AfterArguments, Return, ReturnFailure, RemoveTemps, AtExit, Signal
  <1> QED BY <1>1, <1>2, <1>3, <1>4, <1>5, <1>6

\* Before and between the steps no child exists and nothing has failed.
LEMMA Calm ==
  ASSUME Inv, pc \in {"argument", "step"}
  PROVE  ~signalled /\ child.state = "none" /\ child.end = Uninitialized /\ Good
  BY DEF Inv, TypeInv, ChildType, WaitInv, DirInv, Good, Uninitialized, ExitFailure, Signalled

\* The first step of what is left tells most of the rest.
LEMMA PlanHeads ==
  ASSUME Inv, ~signalled, pc \in {"step", "wait"}, todo # <<>>
  PROVE  /\ Head(todo) \in {"object-file", "asm-file", "compile", "preprocess", "assemble", "add"} =>
              InArguments
         /\ Head(todo) = "add" => todo = <<"add">> /\ Linking
         /\ Head(todo) = "exe" => todo = <<"exe", "link", "program">> /\ conf.stage = "RUN"
         /\ Head(todo) = "object-file" => Linking
         /\ Head(todo) \in TempSteps => Linking \/ conf.stage = "ASSEMBLE"
         /\ Head(todo) = "program" => todo = <<"program">> /\ conf.stage = "RUN"
         /\ Head(todo) \in {"exe", "link", "program"} => ~InArguments /\ Linking
         /\ Head(todo) = "assemble" => todo \in {<<"assemble", "add">>, <<"assemble">>}
         /\ Head(todo) = "link" => todo = IF conf.stage = "LINK" THEN <<"link">> ELSE <<"link", "program">>
  BY DEF Inv, PlanInv, Plan, Linking, LinkPlans, AssemblePlans, CompilePlans, RunPlans, TempSteps

\* The file system stays one, the walk over the arguments stays in them, and
\* only names of files the linker may be given are given to it.
LEMMA TypeKept ==
  ASSUME Inv, [Next]_vars
  PROVE  TypeInv'
  <1> TypeInv /\ OutputInv /\ DirInv /\ WholeInv
    BY DEF Inv
  <1>1. CASE UNCHANGED vars
    BY <1>1 DEF TypeInv, vars, tempVars, processVars, driverVars, MgrType, ChildType, ChildShape, ConfigType
  <1>2. CASE Next
    <2>1. conf' = conf /\ conf \in Configurations
      BY <1>2 DEF TypeInv, Next, DriverStep, ChildStep, BeginArgument, EndArgument, CreateTempFile, AddLinkerArgument, StartChild,
       WaitStage, WaitProgram, AfterArguments, Return, ReturnFailure, RemoveTemps, AtExit, Signal
    <2>2. (disk = [f \in DOMAIN disk |-> disk[f]])'
      <3>1. UNCHANGED disk => (disk = [f \in DOMAIN disk |-> disk[f]])'
        BY DEF TypeInv
      <3>2. \A F : disk' = Without(disk, F) => (disk = [f \in DOMAIN disk |-> disk[f]])'
        BY DEF Without, Restrict
      <3>3. \A f, c : disk' = Put(disk, f, c) => (disk = [g \in DOMAIN disk |-> disk[g]])'
        BY DEF Put
      <3>4. CASE CreateTempFile
        BY <3>1, <3>3, <3>4 DEF CreateTempFile, MakeBaseDir, MakeTempFile, Track, tempVars
      <3>5. CASE StartChild
        BY <3>1, <3>2, <3>5 DEF StartChild
      <3>6. CASE WaitStage
        BY <3>1, <3>2, <3>6 DEF WaitStage, RemoveFile
      <3>7. CASE ReturnFailure
        BY <3>1, <3>2, <3>7 DEF ReturnFailure, RemoveFile
      <3>8. CASE RemoveTemps
        BY <3>1, <3>2, <3>8, RemovalFacts DEF RemoveTemps
      <3>9. CASE ChildStep
        BY <3>1, <3>2, <3>9, RemovalFacts DEF ChildStep, ChildStarts, ChildInterrupted, ChildRemoves, ChildOpens,
          ChildFails, ChildSucceeds
      <3>10. CASE UNCHANGED disk
        BY <3>1, <3>10
      <3> QED
        BY <1>2, <3>4, <3>5, <3>6, <3>7, <3>8, <3>9, <3>10
        DEF Next, DriverStep, BeginArgument, EndArgument, AddLinkerArgument,
            WaitProgram, AfterArguments, Return, AtExit, Signal, tempVars
    <2>3. MgrType' /\ ChildType'
      BY <1>2, MgrTypeKept, ChildTypeKept
    <2>4. (pc \in PCs)' /\ (signalled \in BOOLEAN)' /\ (broken \in BOOLEAN)'
      BY <1>2 DEF TypeInv, PCs, Next, DriverStep, ChildStep, BeginArgument, EndArgument, CreateTempFile, AddLinkerArgument, StartChild,
       WaitStage, WaitProgram, AfterArguments, Return, ReturnFailure, RemoveTemps, AtExit, Signal, Done, Fail
    <2>5. (index \in 1 .. Len(conf.args) + 1)'
      <3>1. CASE EndArgument
        BY <2>1, <3>1, ConfFacts DEF TypeInv, EndArgument
      <3>2. CASE UNCHANGED index
        BY <2>1, <3>2 DEF TypeInv
      <3> QED BY <1>2, <3>1, <3>2 DEF Next, DriverStep, ChildStep, BeginArgument, CreateTempFile, AddLinkerArgument, StartChild,
       WaitStage, WaitProgram, AfterArguments, Return, ReturnFailure, RemoveTemps, AtExit, Signal
    <2>6. (linker \in Seq(LinkNames))'
      <3>1. CASE AddLinkerArgument
        <4>1. Good /\ todo = <<"add">> /\ index \in Nat
          BY <3>1, Calm, PlanHeads, ConfFacts DEF AddLinkerArgument, At, TypeInv
        <4>2. (IF Argument.type \in {"OBJECT", "LINKER_FLAG"} THEN Input(index) ELSE names.object) \in LinkNames
          BY <3>1, <4>1 DEF WholeInv, MadeInv, Ahead, LinkNames, Inputs, AddLinkerArgument, At
        <4> QED BY <3>1, <4>2 DEF AddLinkerArgument, TypeInv
      <3>2. CASE UNCHANGED linker
        BY <3>2 DEF TypeInv
      <3> QED BY <1>2, <3>1, <3>2 DEF Next, DriverStep, ChildStep, BeginArgument, EndArgument, CreateTempFile, StartChild,
       WaitStage, WaitProgram, AfterArguments, Return, ReturnFailure, RemoveTemps, AtExit, Signal
    <2> QED BY <1>2, <2>1, <2>2, <2>3, <2>4, <2>5, <2>6, NamesKept DEF TypeInv
  <1> QED BY <1>1, <1>2

-----------------------------------------------------------------------------
(* The temporary directory *)

\* What is on disk and in the directory of the manager.
DirOnDisk ==
  /\ \A f \in DOMAIN disk : InBaseDir(f) =>
       BaseDir \in DOMAIN disk /\ mgr.pending # BaseDir /\ f \in Tracked
  /\ pc \notin {"atexit", "exited"} /\ BaseDir \in DOMAIN disk =>
       mgr.pending = BaseDir \/ BaseDir \in mgr.tracked

\* The removal keeps what a file holds, takes nothing that is not in its list or in
\* the directory, and takes the directory last.
LEMMA RemovalOnDisk ==
  ASSUME NEW m, NEW n, Removal(m, n)
  PROVE  /\ DOMAIN disk' \subseteq DOMAIN disk
         /\ \A f \in DOMAIN disk' : disk'[f] = disk[f]
         /\ \A f \in DOMAIN disk : f \notin m.removing /\ ~InBaseDir(f) => f \in DOMAIN disk'
         /\ BaseDir \in DOMAIN disk /\ BaseDir \notin DOMAIN disk' =>
              \A f \in DOMAIN disk' : ~InBaseDir(f)
  <1>1. CASE disk' = disk
    BY <1>1
  <1>2. CASE \E f \in m.removing \cup FilesInBaseDir : Removable(f) /\ disk' = Without(disk, {f})
    <2>1. PICK f \in m.removing \cup FilesInBaseDir : Removable(f) /\ disk' = Without(disk, {f})
      BY <1>2
    <2>2. DOMAIN disk' = DOMAIN disk \ {f} /\ \A g \in DOMAIN disk' : disk'[g] = disk[g]
      BY <2>1 DEF Without, Restrict
    <2>3. f = BaseDir => \A g \in DOMAIN disk : ~InBaseDir(g)
      BY <2>1 DEF Removable, FilesInBaseDir
    <2>4. f \in m.removing \/ InBaseDir(f)
      BY DEF FilesInBaseDir
    <2> QED BY <2>2, <2>3, <2>4
  <1> QED BY <1>1, <1>2, RemovalFacts

\* No file with a name the driver chose is the directory itself.
LEMMA NamedFiles ==
  ASSUME TypeInv
  PROVE  /\ BaseDir \notin {names.object, names.asm, output_file, LinkerOutput}
         /\ child.state # "none" => BaseDir \notin Written(child.job)
         /\ child.state # "none" => \A f \in Written(child.job) : InBaseDir(f) => f \in Tracked
  <1> USE PathKinds DEF TypeInv
  <1>1. BaseDir \notin ObjectNames \cup AsmNames \cup OutputNameSet \cup {DefaultOutput} \cup DepNames
    BY DEF ObjectNames, AsmNames, OutputNameSet, DepNames, Products, GivenOutputs, TempSteps, NoPath, Tracked
  <1>2. \A f \in WrittenNames \cup DepNames : InBaseDir(f) => f \in Tracked
    BY PathPlaces
    DEF ObjectNames, AsmNames, OutputNameSet, DepNames, Products, TempSteps, Tracked, WrittenNames
  <1>3. child.state # "none" => Written(child.job) \subseteq WrittenNames \cup DepNames
    BY DEF Written, ChildType
  <1> QED BY <1>1, <1>2, <1>3 DEF LinkerOutput, DefaultOutput, WrittenNames

\* The entry in the making is there only while a temporary file is created.
LEMMA NothingPending ==
  ASSUME Inv, ~signalled, ~\E step \in TempSteps : At(step)
  PROVE  mgr.pending = NoEntry
  BY DEF Inv, DirInv, At, TempSteps

\* Every step keeps the directory of the manager and its record in agreement.
LEMMA DirKept ==
  ASSUME Inv, [Next]_vars
  PROVE  DirInv'
  <1> TypeInv /\ DirInv /\ MgrType /\ ChildType
    BY DEF Inv, TypeInv
  <1>0. DirOnDisk
    BY DEF DirInv, DirOnDisk
  <1>1. CASE UNCHANGED vars
    BY <1>1 DEF DirInv, vars, tempVars, processVars, driverVars, InBaseDir
  <1>2. CASE BeginArgument \/ EndArgument \/ AddLinkerArgument \/ WaitProgram \/ AfterArguments \/ Return
    <2>1. /\ ~signalled /\ UNCHANGED <<disk, mgr, signalled>> /\ pc' # "exited"
          /\ pc \notin {"atexit", "exited"}
      BY <1>2 DEF DirInv, BeginArgument, EndArgument, AddLinkerArgument, WaitProgram, AfterArguments, Return, Done, Fail, At, tempVars
    <2>2. mgr.pending = NoEntry
      BY <1>2, <2>1, NothingPending DEF At, TempSteps, BeginArgument, EndArgument, AddLinkerArgument, WaitProgram, AfterArguments, Return
    <2> QED BY <2>1, <2>2, PathKinds DEF DirInv, Tracked, NoPath, InBaseDir
  <1>3. CASE CreateTempFile
    <2>0. pc = "step" /\ ~signalled /\ child.state = "none"
      BY <1>3, Calm DEF CreateTempFile, At
    <2>1. PICK step \in TempSteps :
            /\ At(step)
            /\ UNCHANGED <<child, signalled>>
            /\ \/ /\ MakeBaseDir \/ MakeTempFile(step) \/ (mgr.pending = BaseDir /\ Track)
                  /\ UNCHANGED <<pc, todo>>
               \/ Track /\ pc' = "step" /\ mgr.pending # BaseDir
               \/ mgr.pending = NoEntry /\ UNCHANGED <<disk, mgr>> /\ pc' = "failed"
      BY <1>3 DEF CreateTempFile, TempSteps, tempVars, processVars, Done, Fail
    <2>2. CASE MakeBaseDir /\ UNCHANGED <<pc, todo>>
      <3>1. BaseDir \notin DOMAIN disk /\ mgr.pending = NoEntry
        BY <2>0, <2>2, PathKinds DEF DirInv, MakeBaseDir, NoPath, Tracked
      <3>2. DOMAIN disk' = DOMAIN disk \cup {BaseDir}
        BY <2>2 DEF MakeBaseDir, Put
      <3>3. \A f \in DOMAIN disk' : ~InBaseDir(f)
        BY <3>1, <3>2, PathPlaces DEF DirInv
      <3>4. ~mgr'.cut
        BY <2>0, <2>2, MgrEffects DEF DirInv
      <3> QED BY <2>0, <2>1, <2>2, <3>2, <3>3, <3>4, MgrEffects DEF DirInv, At, InBaseDir
    <2>3. CASE MakeTempFile(step) /\ UNCHANGED <<pc, todo>>
      <3>1. TempPath(step, mgr.file_index) \in Temps(step)
        BY DEF MgrType, Temps
      <3>2. TempPath(step, mgr.file_index) # BaseDir /\ InBaseDir(TempPath(step, mgr.file_index))
        BY <3>1, PathKinds, PathPlaces
      <3>3. DOMAIN disk' = DOMAIN disk \cup {TempPath(step, mgr.file_index)} /\ BaseDir \in DOMAIN disk
        BY <2>3, <3>2 DEF MakeTempFile, Creatable, Exists, Put
      <3>5. TempPath(step, mgr.file_index) \in Tracked
        BY <3>1 DEF Tracked
      <3>6. mgr'.tracked = mgr.tracked /\ mgr'.pending # BaseDir /\ mgr.pending # BaseDir
        <4>1. mgr.pending = NoEntry /\ NoEntry # BaseDir
          BY <2>3 DEF MakeTempFile, NoEntry, BaseDir
        <4>2. mgr'.tracked = mgr.tracked /\ mgr'.pending = TempPath(step, mgr.file_index)
          BY <2>3, MgrEffects
        <4> QED BY <3>2, <4>1, <4>2
      <3>4. DirOnDisk'
        BY <1>0, <2>0, <2>3, <3>3, <3>5, <3>6 DEF DirOnDisk, InBaseDir
      <3> QED BY <2>0, <2>1, <2>3, <3>1, <3>2, <3>4, MgrEffects DEF DirInv, DirOnDisk, At, MakeTempFile
    <2>4. CASE mgr.pending = BaseDir /\ Track /\ UNCHANGED <<pc, todo>>
      BY <2>0, <2>1, <2>4, MgrEffects, PathKinds DEF DirInv, Track, NoPath, Tracked, InBaseDir
    <2>5. CASE Track /\ pc' = "step" /\ mgr.pending # BaseDir
      BY <2>0, <2>1, <2>5, MgrEffects, PathKinds DEF DirInv, Track, NoPath, Tracked, InBaseDir
    <2>6. CASE mgr.pending = NoEntry /\ UNCHANGED <<disk, mgr>> /\ pc' = "failed"
      BY <2>0, <2>1, <2>6 DEF DirInv, InBaseDir
    <2> QED BY <2>1, <2>2, <2>3, <2>4, <2>5, <2>6
  <1>4. CASE StartChild \/ WaitStage \/ ReturnFailure
    <2>1. /\ ~signalled /\ UNCHANGED <<mgr, signalled>> /\ pc' # "exited"
          /\ mgr.pending = NoEntry /\ pc \notin {"atexit", "exited"}
      <3>1. /\ ~signalled /\ UNCHANGED <<mgr, signalled>> /\ pc' # "exited" /\ ~\E step \in TempSteps : At(step)
            /\ pc \notin {"atexit", "exited"}
        BY <1>4 DEF DirInv, StartChild, WaitStage, ReturnFailure, Done, Fail, At, TempSteps, ChildSteps
      <3> QED BY <3>1, NothingPending
    <2>2. DOMAIN disk' \subseteq DOMAIN disk /\ (BaseDir \in DOMAIN disk => BaseDir \in DOMAIN disk')
      <3>1. CASE StartChild
        <4>1. PICK step \in ChildSteps : disk' = disk \/ disk' = Without(disk, FailedOutputs(step))
          BY <3>1 DEF StartChild
        <4>2. BaseDir \notin FailedOutputs(step)
          BY NamedFiles DEF FailedOutputs
        <4> QED BY <4>1, <4>2 DEF Without, Restrict
      <3>2. CASE WaitStage
        <4>1. PICK step \in ChildSteps :
                \/ disk' = disk
                \/ disk' = Without(disk, {names.asm})
                \/ disk' = Without(disk, FailedOutputs(step) \cup IF step = "link" THEN {LinkerOutput} ELSE {})
                \/ disk' = Without(disk, FailedOutputs(step))
          BY <3>2 DEF WaitStage, RemoveFile
        <4>2. BaseDir \notin FailedOutputs(step) \cup {names.asm, LinkerOutput}
          BY NamedFiles DEF FailedOutputs
        <4> QED BY <4>1, <4>2 DEF Without, Restrict
      <3>3. CASE ReturnFailure
        BY <3>3, NamedFiles DEF ReturnFailure, RemoveFile, Without, Restrict
      <3> QED BY <1>4, <3>1, <3>2, <3>3
    <2> QED BY <2>1, <2>2, PathKinds DEF DirInv, InBaseDir, NoPath, Tracked
  <1>5. CASE AtExit
    BY <1>5 DEF DirInv, AtExit, tempVars, processVars, InBaseDir
  <1>7. CASE Signal
    <2>1. UNCHANGED <<disk, child>> /\ signalled' /\ pc' = "atexit"
      BY <1>7 DEF Signal, processVars
    <2> QED BY <1>7, <2>1, MgrEffects DEF DirInv, InBaseDir
  <1>8. CASE RemoveTemps
    <2>1. UNCHANGED <<child, signalled, pc, todo>> /\ pc = "atexit" /\ Removal(mgr, mgr')
      BY <1>8 DEF RemoveTemps, processVars
    <2>2. \A f \in DOMAIN disk' : InBaseDir(f) => BaseDir \in DOMAIN disk' /\ f \in DOMAIN disk
      BY <2>1, RemovalOnDisk DEF DirInv
    <2> QED BY <1>8, <2>1, <2>2, MgrEffects DEF DirInv, InBaseDir
  <1>6. CASE ChildStep
    <2>1. UNCHANGED <<mgr, pc, todo, signalled>> /\ child.state # "none"
      BY <1>6 DEF ChildStep, ChildStarts, ChildInterrupted, ChildRemoves, ChildOpens, ChildFails, ChildSucceeds
    <2>2. DirOnDisk'
      <3>1. CASE UNCHANGED disk
        BY <1>0, <2>1, <3>1 DEF DirOnDisk, InBaseDir
      <3>2. CASE Removal(child, child')
        <4>1. \A f \in DOMAIN disk' : InBaseDir(f) => BaseDir \in DOMAIN disk' /\ f \in DOMAIN disk
          BY <1>0, <3>2, RemovalOnDisk DEF DirOnDisk
        <4>2. DOMAIN disk' \subseteq DOMAIN disk
          BY <3>2, RemovalOnDisk
        <4> QED BY <1>0, <2>1, <4>1, <4>2 DEF DirOnDisk, InBaseDir
      <3>3. CASE ChildOpens
        <4>1. DOMAIN disk' = DOMAIN disk \cup Written(child.job)
          BY <3>3 DEF ChildOpens
        <4>2. \A f \in Written(child.job) : InBaseDir(f) => BaseDir \in DOMAIN disk /\ f \in Tracked
          BY <2>1, <3>3, NamedFiles DEF ChildOpens, Creatable, Exists
        <4>3. BaseDir \notin Written(child.job) /\ mgr.pending # BaseDir
          BY <2>1, NamedFiles DEF DirInv
        <4> QED BY <1>0, <2>1, <4>1, <4>2, <4>3 DEF DirOnDisk, InBaseDir
      <3>4. CASE ChildSucceeds
        <4>1. DOMAIN disk' = DOMAIN disk
          BY <3>4 DEF ChildSucceeds
        <4> QED BY <1>0, <2>1, <4>1 DEF DirOnDisk, InBaseDir
      <3> QED BY <1>6, <3>1, <3>2, <3>3, <3>4 DEF ChildStep, ChildStarts, ChildInterrupted, ChildRemoves, ChildFails
    <2>3. mgr.pending # BaseDir
      BY <2>1 DEF DirInv
    <2> QED BY <2>1, <2>2, <2>3 DEF DirInv, DirOnDisk
  <1> QED BY <1>1, <1>2, <1>3, <1>4, <1>5, <1>6, <1>7, <1>8 DEF Next, DriverStep

\* One step of the removal, while nothing else removes files: what is in the list
\* stays on disk until it is removed, and the directory is left only to a child.
LEMMA RemovalStep ==
  ASSUME TypeInv, DirInv, RemovalInv, RemoveTemps, ~mgr.cut, ~child.swept
  PROVE  /\ mgr'.removing \subseteq DOMAIN disk'
         /\ BaseDir \in mgr'.removing => BaseDir \notin mgr'.tracked
         /\ BaseDir \notin mgr'.tracked =>
              \A f \in DOMAIN disk' : InBaseDir(f) => f \in mgr'.removing \/ OfChild(f)
         /\ BaseDir \in DOMAIN disk' =>
              mgr.pending = BaseDir \/ BaseDir \in mgr'.tracked \cup mgr'.removing \/ child.state # "none"
  <1> MgrType /\ pc = "atexit" /\ Removal(mgr, mgr')
    BY DEF TypeInv, RemoveTemps
  <1>0. /\ mgr.removing \subseteq DOMAIN disk
        /\ BaseDir \in mgr.removing => BaseDir \notin mgr.tracked
        /\ BaseDir \notin mgr.tracked =>
             \A f \in DOMAIN disk : InBaseDir(f) => f \in mgr.removing \/ OfChild(f)
        /\ BaseDir \in DOMAIN disk =>
             mgr.pending = BaseDir \/ BaseDir \in mgr.tracked \cup mgr.removing \/ child.state # "none"
    BY DEF RemovalInv
  <1>1. CASE LookAtEntry(mgr, mgr')
    <2>1. PICK e \in mgr.tracked : mgr' = [mgr EXCEPT !.tracked = mgr.tracked \ {e}, !.removing = Listing(e)]
      BY <1>1 DEF LookAtEntry, First
    <2>2. mgr'.tracked = mgr.tracked \ {e} /\ mgr'.removing = Listing(e) /\ disk' = disk /\ mgr.removing = {}
      BY <1>1, <2>1 DEF LookAtEntry, MgrType
    <2>3. CASE e = BaseDir
      <3>1. BaseDir \in DOMAIN disk => Listing(e) = {BaseDir} \cup {f \in DOMAIN disk : InBaseDir(f)}
        BY <2>3 DEF Listing, Exists, FilesInBaseDir
      <3>2. BaseDir \notin DOMAIN disk => Listing(e) = {} /\ \A f \in DOMAIN disk : ~InBaseDir(f)
        BY <2>3 DEF Listing, Exists, DirInv
      <3> QED BY <2>2, <2>3, <3>1, <3>2
    <2>4. CASE e # BaseDir
      <3>1. Listing(e) \subseteq {e} /\ Listing(e) \subseteq DOMAIN disk
        BY <2>4 DEF Listing, Exists
      <3> QED BY <1>0, <2>2, <2>4, <3>1
    <2> QED BY <2>3, <2>4
  <1>2. CASE RemoveNext(mgr, mgr')
    <2>1. PICK f : disk' = Without(disk, {f}) /\ mgr' = [mgr EXCEPT !.removing = mgr.removing \ {f}]
      BY <1>2 DEF RemoveNext, RemoveFile
    <2>2. /\ mgr'.tracked = mgr.tracked /\ mgr'.removing = mgr.removing \ {f}
          /\ DOMAIN disk' = DOMAIN disk \ {f}
      BY <2>1 DEF MgrType, Without, Restrict
    <2> QED BY <1>0, <2>2
  <1>3. CASE RemoveFails(mgr, mgr')
    <2>1. PICK f \in NextToRemove(mgr) : ~Removable(f)
      BY <1>3 DEF RemoveFails
    <2>2. mgr'.removing = {} /\ disk' = disk
      BY <1>3 DEF RemoveFails, MgrType
    <2>3. f \in DOMAIN disk
      BY <1>0 DEF NextToRemove, First, FilesInBaseDir
    <2>4. f = BaseDir /\ FilesInBaseDir # {}
      BY <2>1, <2>3 DEF Removable, Exists
    <2>5. mgr.removing = {BaseDir}
      BY <2>4, PathPlaces DEF NextToRemove, First
    <2>6. \A g \in DOMAIN disk : InBaseDir(g) => OfChild(g)
      BY <1>0, <2>5, PathPlaces
    <2>7. child.state # "none"
      BY <2>4, <2>6 DEF FilesInBaseDir, OfChild
    <2> QED BY <2>2, <2>6, <2>7
  <1> QED BY <1>1, <1>2, <1>3 DEF Removal

\* An entry that is being removed is no longer in the tree.
LEMMA RemovedOnce ==
  ASSUME MgrType, Removal(mgr, mgr'), BaseDir \in mgr.removing => BaseDir \notin mgr.tracked
  PROVE  BaseDir \in mgr'.removing => BaseDir \notin mgr'.tracked
  <1>1. CASE LookAtEntry(mgr, mgr')
    BY <1>1 DEF LookAtEntry, First, Listing, MgrType
  <1>2. CASE RemoveNext(mgr, mgr')
    BY <1>2 DEF RemoveNext, MgrType
  <1>3. CASE RemoveFails(mgr, mgr')
    BY <1>3 DEF RemoveFails, MgrType
  <1> QED BY <1>1, <1>2, <1>3 DEF Removal

\* Every step keeps the account of what is still to be removed.
LEMMA RemovalKept ==
  ASSUME Inv, [Next]_vars
  PROVE  RemovalInv'
  <1> TypeInv /\ DirInv /\ RemovalInv /\ WaitInv /\ MgrType /\ ChildType
    BY DEF Inv, TypeInv
  <1>1. CASE UNCHANGED vars
    BY <1>1 DEF RemovalInv, vars, tempVars, processVars, driverVars, InBaseDir, OfChild, Written
  <1>2. ASSUME pc \notin {"atexit", "exited"}, mgr'.removing = {}, mgr'.tracked = mgr.tracked,
               mgr'.pending = mgr.pending, pc' # "exited",
               DOMAIN disk' \subseteq DOMAIN disk \/ pc' # "atexit"
        PROVE  RemovalInv'
    BY <1>2 DEF RemovalInv, DirInv, InBaseDir
  <1>3. CASE CreateTempFile
    <2>1. pc = "step" /\ pc' \notin {"atexit", "exited"}
      BY <1>3 DEF CreateTempFile, At, Done, Fail
    <2>2. mgr'.removing = mgr.removing
      BY <1>3, MgrEffects DEF CreateTempFile, tempVars, TempSteps
    <2> QED BY <2>1, <2>2 DEF RemovalInv
  <1>4. CASE BeginArgument \/ EndArgument \/ AddLinkerArgument \/ AfterArguments \/ Return \/ WaitProgram
    <2>1. UNCHANGED tempVars /\ pc \notin {"atexit", "exited"} /\ pc' # "exited"
      BY <1>4 DEF BeginArgument, EndArgument, AddLinkerArgument, WaitProgram, AfterArguments, Return, Done, Fail, At
    <2> QED BY <1>2, <2>1 DEF tempVars, RemovalInv
  <1>5. CASE StartChild \/ WaitStage \/ ReturnFailure
    <2>1. UNCHANGED mgr /\ pc \notin {"atexit", "exited"} /\ pc' # "exited"
      BY <1>5 DEF StartChild, WaitStage, ReturnFailure, Done, Fail, At
    <2>2. DOMAIN disk' \subseteq DOMAIN disk \/ pc' # "atexit"
      BY <1>5 DEF StartChild, WaitStage, ReturnFailure, Done, Fail, RemoveFile, Without, Restrict
    <2> QED BY <1>2, <2>1, <2>2 DEF RemovalInv
  <1>6. CASE AtExit
    BY <1>6 DEF RemovalInv, AtExit, tempVars, processVars, InBaseDir, OfChild, Written, Removed
  <1>7. CASE Signal
    <2>1. UNCHANGED disk /\ pc' = "atexit" /\ pc # "exited"
      BY <1>7 DEF Signal
    <2>2. CASE pc = "atexit"
      <3>1. mgr'.cut /\ mgr'.removing = {}
        BY <1>7, <2>2 DEF Signal, MgrType
      <3> QED BY <2>1, <3>1 DEF RemovalInv
    <2>3. CASE pc # "atexit"
      BY <1>2, <1>7, <2>1, <2>3 DEF Signal, RemovalInv
    <2> QED BY <2>2, <2>3
  <1>8. CASE RemoveTemps
    <2>1. UNCHANGED <<child, pc>> /\ pc = "atexit" /\ mgr'.pending = mgr.pending /\ mgr'.cut = mgr.cut
      BY <1>8, MgrEffects DEF RemoveTemps, processVars
    <2>2. BaseDir \in mgr'.removing => BaseDir \notin mgr'.tracked
      BY <1>8, RemovedOnce DEF RemoveTemps, RemovalInv
    <2>3. CASE mgr.cut \/ child.swept
      BY <2>1, <2>2, <2>3 DEF RemovalInv
    <2>4. CASE ~mgr.cut /\ ~child.swept
      BY <1>8, <2>1, <2>4, RemovalStep DEF RemovalInv, OfChild, InBaseDir, Written
    <2> QED BY <2>3, <2>4
  <1>9. CASE ChildStep
    <2>1. UNCHANGED <<mgr, pc>> /\ child.state # "none"
      BY <1>9 DEF ChildStep, ChildStarts, ChildInterrupted, ChildRemoves, ChildOpens, ChildFails, ChildSucceeds
    <2>2. child'.job = child.job /\ child'.state # "none" /\ (child.swept => child'.swept)
      BY <1>9, ChildEffects DEF ChildStep, ChildInterrupted, ChildFails, ChildSucceeds
    <2>3. CASE ChildRemoves
      <3>1. child'.swept
        BY <2>3, ChildEffects DEF ChildRemoves, ChildType
      <3> QED BY <2>1, <3>1 DEF RemovalInv
    <2>4. CASE ~ChildRemoves
      <3>1. DOMAIN disk \subseteq DOMAIN disk' /\ DOMAIN disk' \subseteq DOMAIN disk \cup Written(child.job)
        BY <1>9, <2>4 DEF ChildStep, ChildStarts, ChildInterrupted, ChildOpens, ChildFails, ChildSucceeds
      <3>2. BaseDir \in DOMAIN disk' => BaseDir \in DOMAIN disk
        BY <2>1, <3>1, NamedFiles
      <3>3. \A f \in DOMAIN disk' \ DOMAIN disk : OfChild(f)
        BY <2>1, <3>1 DEF OfChild
      <3>4. \A f : OfChild(f) => (OfChild(f))'
        BY <2>2 DEF OfChild, Written
      <3> QED BY <2>1, <2>2, <3>1, <3>2, <3>3, <3>4 DEF RemovalInv, InBaseDir
    <2> QED BY <2>3, <2>4
  <1> QED BY <1>1, <1>3, <1>4, <1>5, <1>6, <1>7, <1>8, <1>9 DEF Next, DriverStep

-----------------------------------------------------------------------------
(* The plan of the steps *)

\* Without a name for the output, there is no name in the configuration either.
LEMMA Unnamed ==
  ASSUME Inv, ~Linking, NEW b \in Bases
  PROVE  OutputOf(b) = NoPath <=> NoOutput
  <1>1. \A e : Derived(b, e) # NoPath
    BY DEF Derived, NoPath, NoEntry
  <1>2. conf.stage \in {"ASSEMBLE", "COMPILE", "PREPROCESS", "PREPROCESS_SAVE"}
    BY ConfFacts DEF Inv, TypeInv, Linking, Stages, PreprocessStages
  <1>3. Stdout # NoPath
    BY DEF Stdout, NoPath, NoEntry
  <1> QED BY <1>1, <1>2, <1>3 DEF OutputOf, NoOutput, SavedName, Linking, PreprocessStages

\* Every step keeps the name of the output, but for the executable of -run.
LEMMA OutputKept ==
  ASSUME Inv, [Next]_vars
  PROVE  OutputInv'
  <1> OutputInv /\ TypeInv
    BY DEF Inv
  <1>1. conf' = conf
    BY DEF vars, driverVars, Next, DriverStep, ChildStep, BeginArgument, EndArgument, CreateTempFile,
       AddLinkerArgument, StartChild, WaitStage, WaitProgram, AfterArguments, Return, ReturnFailure, RemoveTemps, AtExit, Signal
  <1>2. CASE BeginArgument
    <2>1. /\ output_file' = output_file
          /\ names' = [object |-> OutputOf(Argument.base), asm |-> NoPath]
          /\ cc'.out = cc.out
      BY <1>2 DEF BeginArgument, TypeInv, ConfigType
    <2>2. Argument.base \in Bases
      BY <1>2, ConfFacts DEF BeginArgument, Argument, TypeInv
    <2>3. NoOutput => OutputOf(Argument.base) = NoPath
      BY <2>2, Unnamed DEF NoOutput, Linking, PreprocessStages
    <2> QED BY <1>1, <2>1, <2>3 DEF OutputInv, NoOutput
  <1>3. CASE CreateTempFile
    <2>1. PICK step \in TempSteps :
            /\ At(step) /\ UNCHANGED cc
            /\ UNCHANGED <<names, output_file>> \/ Named(step, mgr.pending)
      BY <1>3 DEF CreateTempFile, TempSteps
    <2>2. /\ step = "exe" => conf.stage = "RUN"
          /\ Linking \/ conf.stage = "ASSEMBLE"
      BY <2>1, PlanHeads, Calm DEF At
    <2> QED BY <1>1, <2>1, <2>2 DEF OutputInv, NoOutput, Named, Linking, PreprocessStages
  <1>4. CASE StartChild
    <2>1. PICK step \in ChildSteps : cc' = ConfigAfter(step) /\ UNCHANGED <<names, output_file>>
      BY <1>4 DEF StartChild
    <2>2. cc'.out \in {cc.out, CompilerOutput}
      BY <2>1 DEF ConfigAfter, UpdatedConfig, TypeInv, ConfigType
    <2> QED BY <1>1, <2>1, <2>2 DEF OutputInv, NoOutput, CompilerOutput
  <1>5. CASE UNCHANGED <<names, output_file>> /\ cc'.out = cc.out
    BY <1>1, <1>5 DEF OutputInv, NoOutput
  <1> QED
    BY <1>2, <1>3, <1>4, <1>5
    DEF vars, driverVars, Next, DriverStep, ChildStep, EndArgument, AddLinkerArgument, WaitStage,
        WaitProgram, AfterArguments, Return, ReturnFailure, RemoveTemps, AtExit, Signal, TypeInv, ConfigType

\* What is left of each list of steps after its first.
LEMMA Tails ==
  /\ Tail(<<"object-file", "asm-file", "compile", "assemble", "add">>) = <<"asm-file", "compile", "assemble", "add">>
  /\ Tail(<<"object-file", "asm-file", "preprocess", "assemble", "add">>) = <<"asm-file", "preprocess", "assemble", "add">>
  /\ Tail(<<"object-file", "assemble", "add">>) = <<"assemble", "add">>
  /\ Tail(<<"asm-file", "compile", "assemble", "add">>) = <<"compile", "assemble", "add">>
  /\ Tail(<<"asm-file", "preprocess", "assemble", "add">>) = <<"preprocess", "assemble", "add">>
  /\ Tail(<<"compile", "assemble", "add">>) = <<"assemble", "add">>
  /\ Tail(<<"preprocess", "assemble", "add">>) = <<"assemble", "add">>
  /\ Tail(<<"assemble", "add">>) = <<"add">>
  /\ Tail(<<"add">>) = <<>>
  /\ Tail(<<"asm-file", "compile", "assemble">>) = <<"compile", "assemble">>
  /\ Tail(<<"asm-file", "preprocess", "assemble">>) = <<"preprocess", "assemble">>
  /\ Tail(<<"compile", "assemble">>) = <<"assemble">>
  /\ Tail(<<"preprocess", "assemble">>) = <<"assemble">>
  /\ Tail(<<"assemble">>) = <<>>
  /\ Tail(<<"compile">>) = <<>>
  /\ Tail(<<"preprocess">>) = <<>>
  /\ Tail(<<"link">>) = <<>>
  /\ Tail(<<"exe", "link", "program">>) = <<"link", "program">>
  /\ Tail(<<"link", "program">>) = <<"program">>
  /\ Tail(<<"program">>) = <<>>
  OBVIOUS

\* What is left of a plan after its first step is a plan.
LEMMA PlanTail ==
  ASSUME Plan, todo # <<>>
  PROVE  \/ Tail(todo) = <<>>
         \/ InArguments /\ Linking /\ Tail(todo) \in LinkPlans
         \/ InArguments /\ conf.stage = "ASSEMBLE" /\ Tail(todo) \in AssemblePlans
         \/ ~InArguments /\ conf.stage = "RUN" /\ Tail(todo) \in RunPlans
  <1>1. todo \in LinkPlans => Tail(todo) = <<>> \/ Tail(todo) \in LinkPlans
    BY Tails DEF LinkPlans
  <1>2. todo \in AssemblePlans => Tail(todo) = <<>> \/ Tail(todo) \in AssemblePlans
    BY Tails DEF AssemblePlans
  <1>3. todo \in CompilePlans \cup {<<"link">>} => Tail(todo) = <<>>
    BY Tails DEF CompilePlans
  <1>4. todo \in RunPlans => Tail(todo) = <<>> \/ Tail(todo) \in RunPlans
    BY Tails DEF RunPlans
  <1> QED BY <1>1, <1>2, <1>3, <1>4 DEF Plan

\* A compiler runs into an assembly file right after that was made, and a
\* linker into a temporary executable.
LEMMA PlanBefore ==
  ASSUME Plan, todo # <<>>, Tail(todo) # <<>>
  PROVE  /\ Head(Tail(todo)) \in {"compile", "preprocess"} => Head(todo) = "asm-file"
         /\ Head(Tail(todo)) = "link" => Head(todo) = "exe"
         /\ Head(Tail(todo)) = "program" => Head(todo) = "link"
         /\ Head(Tail(todo)) # "object-file"
  <1>1. CASE todo \in LinkPlans
    BY <1>1 DEF LinkPlans
  <1>2. CASE todo \in AssemblePlans
    BY <1>2 DEF AssemblePlans
  <1>3. CASE todo \in CompilePlans \cup {<<"link">>}
    BY <1>3 DEF CompilePlans
  <1>4. CASE todo \in RunPlans
    BY <1>4 DEF RunPlans
  <1> QED BY <1>1, <1>2, <1>3, <1>4 DEF Plan

\* Every step leaves the rest of a plan, with the names its next step needs.
LEMMA PlanKept ==
  ASSUME Inv, [Next]_vars
  PROVE  PlanInv'
  <1> TypeInv /\ PlanInv
    BY DEF Inv
  <1>1. conf' = conf
    BY DEF vars, driverVars, Next, DriverStep, ChildStep, BeginArgument, EndArgument, CreateTempFile,
       AddLinkerArgument, StartChild, WaitStage, WaitProgram, AfterArguments, Return, ReturnFailure, RemoveTemps, AtExit, Signal
  <1>2. CASE BeginArgument
    <2>1. /\ output_file' = output_file /\ index' = index
          /\ names' = [object |-> OutputOf(Argument.base), asm |-> NoPath]
          /\ todo' = Steps(Argument.type) /\ InArguments
      BY <1>2 DEF BeginArgument, InArguments
    <2>2. Argument.type \in ArgumentTypes /\ conf.stage \in Stages
      BY <1>2, ConfFacts DEF BeginArgument, Argument, TypeInv
    <2>3. Plan'
      <3>1. \A type \in ArgumentTypes : LinkSteps[type] \in LinkPlans
        BY SMTT(20) DEF ArgumentTypes, LinkSteps, LinkPlans
      <3>2. \A type \in ArgumentTypes : AssembleSteps[type] = <<>> \/ AssembleSteps[type] \in AssemblePlans
        BY SMTT(20) DEF ArgumentTypes, AssembleSteps, AssemblePlans
      <3>3. \A type \in ArgumentTypes : CompileSteps[type] = <<>> \/ CompileSteps[type] \in CompilePlans
        BY SMTT(20) DEF ArgumentTypes, CompileSteps, CompilePlans
      <3> QED BY <1>1, <2>1, <2>2, <3>1, <3>2, <3>3 DEF Plan, InArguments, Linking, Steps
    <2>4. todo' # <<>> /\ Head(todo') \in {"compile", "preprocess", "link", "program"} =>
            ~Linking /\ conf.stage # "ASSEMBLE"
      BY SMTT(20), <2>1, <2>2 DEF Stages, PreprocessStages, ArgumentTypes, Steps, LinkSteps, AssembleSteps, CompileSteps, Linking
    <2>5. (names.object = OutputOf(Argument.base))'
      BY <1>1, <2>1 DEF OutputOf, SavedName, Argument
    <2> QED BY <1>1, <2>1, <2>3, <2>4, <2>5 DEF PlanInv, Linking
  <1>3. CASE CreateTempFile
    <2>0. pc = "step" /\ ~signalled
      BY <1>3, Calm DEF CreateTempFile, At
    <2>1. PICK step \in TempSteps :
            /\ At(step) /\ UNCHANGED <<index, signalled>>
            /\ \/ UNCHANGED <<names, output_file, todo>>
               \/ pc' = "failed"
               \/ /\ mgr.pending # NoEntry /\ Named(step, mgr.pending) /\ todo' = Tail(todo)
      BY <1>3 DEF CreateTempFile, TempSteps, Done, Fail, Track
    <2>2. CASE UNCHANGED <<names, output_file, todo>>
      BY <1>1, <2>0, <2>1, <2>2 DEF PlanInv, Plan, InArguments, Linking, OutputOf, SavedName, Argument
    <2>3. CASE pc' = "failed"
      BY <2>3 DEF PlanInv
    <2>4. CASE mgr.pending # NoEntry /\ Named(step, mgr.pending) /\ todo' = Tail(todo)
      <3>1. Plan /\ todo # <<>>
        BY <2>0, <2>1 DEF PlanInv, At
      <3>2. Plan'
        BY <1>1, <2>1, <2>4, <3>1, PlanTail DEF Plan, InArguments, Linking
      <3>3. /\ step = "asm-file" => names'.asm # NoPath
            /\ step = "exe" => output_file' # NoPath
        BY <2>4 DEF Named, NoPath
      <3>4. InArguments /\ ~Linking => names'.object = names.object /\ output_file' = output_file
        BY <2>0, <2>1, <2>4, PlanHeads DEF Named, At
      <3>5. (InArguments /\ ~Linking => names.object = OutputOf(Argument.base))'
        BY <1>1, <2>0, <2>1, <3>4 DEF PlanInv, InArguments, Linking, OutputOf, SavedName, Argument
      <3>6. step = Head(todo)
        BY <2>1 DEF At
      <3>7. Linking \/ conf.stage = "ASSEMBLE"
        BY <2>0, <2>1, PlanHeads DEF At
      <3> QED BY <1>1, <2>4, <3>1, <3>2, <3>3, <3>5, <3>6, <3>7, PlanBefore DEF PlanInv, TempSteps, Linking
    <2> QED BY <2>1, <2>2, <2>3, <2>4
  <1>4. CASE AfterArguments
    <2>1. CASE pc' = "step" /\ todo' = FinalSteps
      BY SMTT(20), <1>1, <1>4, <2>1 DEF AfterArguments, PlanInv, Plan, InArguments, Linking, FinalSteps, RunPlans
    <2>2. CASE pc' = "failed"
      BY <2>2 DEF PlanInv
    <2> QED BY <1>4, <2>1, <2>2 DEF AfterArguments, Fail
  <1>5. CASE pc' \notin {"step", "wait"} \/ signalled'
    BY <1>5 DEF PlanInv
  <1>6. CASE pc \in {"step", "wait"} /\ ~signalled /\ UNCHANGED <<index, names, output_file>> /\ todo' = Tail(todo) /\ todo # <<>> /\ Head(todo) \notin TempSteps
    <2>1. Plan /\ Plan'
      BY <1>1, <1>6, PlanTail DEF PlanInv, Plan, InArguments, Linking
    <2>2. (InArguments /\ ~Linking => names.object = OutputOf(Argument.base))'
      BY <1>1, <1>6 DEF PlanInv, InArguments, Linking, OutputOf, SavedName, Argument
    <2>3. (InArguments /\ ~Linking /\ conf.stage # "ASSEMBLE" => names.asm = NoPath)'
      BY <1>1, <1>6 DEF PlanInv, InArguments, Linking
    <2> QED BY <1>1, <1>6, <2>1, <2>2, <2>3, PlanBefore DEF PlanInv, TempSteps, Linking
  <1>7. CASE pc \in {"step", "wait"} /\ UNCHANGED <<index, names, output_file, todo, signalled>>
    BY <1>1, <1>7 DEF PlanInv, Plan, InArguments, Linking, OutputOf, SavedName, Argument
  <1>8. CASE UNCHANGED vars
    BY <1>8 DEF vars, driverVars, PlanInv, Plan, InArguments, Linking, OutputOf, SavedName, Argument
  <1>9. CASE StartChild
    BY <1>5, <1>7, <1>9 DEF StartChild, At, Fail
  <1>10. CASE WaitStage
    <2>1. pc = "wait" /\ ~signalled /\ todo # <<>>
      BY <1>10 DEF WaitStage, Inv, DirInv, WaitInv
    <2> QED BY <1>5, <1>6, <1>10, <2>1 DEF WaitStage, Done, Fail, ChildSteps, TempSteps
  <1>11. CASE AddLinkerArgument
    <2>1. ~signalled
      BY <1>11, Calm DEF AddLinkerArgument, At
    <2> QED BY <1>6, <1>11, <2>1 DEF AddLinkerArgument, At, Done, TempSteps
  <1>12. CASE ChildStep
    <2>1. UNCHANGED <<index, names, output_file, todo, signalled, pc>>
      BY <1>12 DEF ChildStep
    <2> QED BY <2>1, <1>5, <1>7
  <1>13. CASE EndArgument \/ WaitProgram \/ Return \/ ReturnFailure \/ RemoveTemps \/ AtExit \/ Signal
    BY <1>5, <1>13 DEF EndArgument, WaitProgram, Return, ReturnFailure, RemoveTemps, AtExit, Signal
  <1> QED BY <1>2, <1>3, <1>4, <1>8, <1>9, <1>10, <1>11, <1>12, <1>13 DEF Next, DriverStep

\* Every step keeps that only arguments with steps have steps left.
LEMMA StepsKept ==
  ASSUME Inv, [Next]_vars
  PROVE  StepsInv'
  <1> StepsInv
    BY DEF Inv
  <1>1. conf' = conf
    BY DEF vars, driverVars, Next, DriverStep, ChildStep, BeginArgument, EndArgument, CreateTempFile,
       AddLinkerArgument, StartChild, WaitStage, WaitProgram, AfterArguments, Return, ReturnFailure, RemoveTemps, AtExit, Signal
  <1>2. CASE BeginArgument
    BY <1>1, <1>2 DEF BeginArgument, StepsInv, Steps, Argument
  <1>3. CASE AfterArguments
    BY <1>1, <1>3 DEF AfterArguments, StepsInv, InArguments
  <1>4. CASE UNCHANGED <<index, todo, pc>> \/ pc' \notin {"step", "wait"}
    BY <1>1, <1>4 DEF StepsInv, Steps, Argument, InArguments
  <1>5. CASE pc \in {"step", "wait"} /\ UNCHANGED index /\ todo # <<>>
    BY <1>1, <1>5 DEF StepsInv, Steps, Argument, InArguments
  <1>6. CASE WaitStage
    <2>1. pc = "wait" /\ UNCHANGED index /\ ~signalled
      BY <1>6 DEF WaitStage, Inv, DirInv
    <2> QED BY <1>5, <2>1 DEF Inv, WaitInv
  <1>7. CASE CreateTempFile \/ AddLinkerArgument \/ StartChild
    BY <1>5, <1>7 DEF CreateTempFile, AddLinkerArgument, StartChild, At
  <1>8. CASE EndArgument \/ WaitProgram \/ Return \/ ReturnFailure \/ RemoveTemps \/ AtExit \/ Signal
    BY <1>4, <1>8 DEF EndArgument, WaitProgram, Return, ReturnFailure, RemoveTemps, AtExit, Signal
  <1>9. CASE ChildStep \/ UNCHANGED vars
    BY <1>4, <1>9 DEF ChildStep, vars, driverVars
  <1> QED BY <1>2, <1>3, <1>6, <1>7, <1>8, <1>9 DEF Next, DriverStep

-----------------------------------------------------------------------------
(* The child the driver waits for *)

\* The job of a step is what the names of the driver say.
LEMMA JobFacts ==
  ASSUME Inv, NEW step \in ChildSteps, At(step)
  PROVE  /\ JobOf(step).kind = step
         /\ JobOf(step).out = OutOf(step)
         /\ JobOf(step).inputs = InputsOf(step)
         /\ step \in {"compile", "preprocess"} => JobOf(step).arg = index
         /\ step \notin {"compile", "preprocess"} => JobOf(step).dep = NoPath
  <1>1. ~signalled /\ pc = "step" /\ todo # <<>> /\ Head(todo) = step
    BY Calm DEF At
  <1>2. step \in {"compile", "preprocess"} => CompilerOutput = CompilerTarget
    <2> SUFFICES ASSUME step \in {"compile", "preprocess"}, names.asm = NoPath, names.object = NoPath
                 PROVE  cc.out = NoPath
      BY DEF CompilerOutput, CompilerTarget
    <2>1. InArguments /\ ~Linking
      BY <1>1, PlanHeads DEF Inv, PlanInv
    <2>2. Argument.base \in Bases /\ OutputOf(Argument.base) = NoPath
      BY <1>1, <2>1, ConfFacts DEF Inv, TypeInv, PlanInv, Argument, InArguments
    <2>3. NoOutput
      BY <2>1, <2>2, Unnamed
    <2> QED BY <2>3 DEF Inv, OutputInv
  <1> QED BY <1>2 DEF JobOf, CompilerJob, AssemblerJob, LinkerJob, ProgramJob, OutOf, InputsOf, ChildSteps

\* The variables of the driver that a job is made from.
jobVars == <<index, todo, names, output_file, linker, conf>>

\* A job depends on nothing but these variables.
LEMMA OutputsStay ==
  ASSUME NEW step, UNCHANGED jobVars
  PROVE  (OutOf(step))' = OutOf(step) /\ (InputsOf(step))' = InputsOf(step)
  BY DEF jobVars, OutOf, CompilerTarget, LinkerOutput, InputsOf

\* Every step keeps that a child exists exactly while the driver waits for it,
\* and that it has the job of the step the driver is at.
LEMMA WaitKept ==
  ASSUME Inv, [Next]_vars
  PROVE  WaitInv'
  <1> WaitInv /\ ChildType /\ DirInv
    BY DEF Inv, TypeInv
  <1>1. CASE UNCHANGED vars
    BY <1>1 DEF vars, processVars, driverVars, WaitInv, OutOf, CompilerTarget, LinkerOutput, InputsOf
  <1>2. CASE signalled'
    BY <1>2 DEF WaitInv
  <1>3. CASE UNCHANGED child /\ pc # "wait" /\ pc' # "wait" /\ (signalled => signalled')
    BY <1>3 DEF WaitInv
  <1>4. CASE child' = NoChild /\ pc' # "wait"
    BY <1>4, ChildEffects DEF WaitInv
  <1>5. CASE BeginArgument \/ EndArgument \/ AddLinkerArgument \/ AfterArguments \/ Return \/ ReturnFailure
             \/ RemoveTemps \/ AtExit
    BY <1>3, <1>5
    DEF BeginArgument, EndArgument, AddLinkerArgument, AfterArguments, Return, ReturnFailure, RemoveTemps, AtExit,
         At, Done, Fail, processVars
  <1>6. CASE CreateTempFile
    BY <1>3, <1>6 DEF CreateTempFile, At, Done, Fail, processVars
  <1>7. CASE WaitStage \/ WaitProgram
    BY <1>4, <1>7 DEF WaitStage, WaitProgram, Wait, WaitFails, Done, Fail
  <1>8. CASE StartChild
    <2>1. PICK step \in ChildSteps :
            /\ At(step) /\ UNCHANGED signalled
            /\ \/ Spawn(JobOf(step)) /\ pc' = "wait" /\ UNCHANGED jobVars
               \/ UNCHANGED child /\ pc' = "failed"
      BY <1>8 DEF StartChild, InitFails, ForkFails, Fail, jobVars
    <2>2. CASE UNCHANGED child /\ pc' = "failed"
      BY <1>3, <2>1, <2>2 DEF At
    <2>3. CASE Spawn(JobOf(step)) /\ pc' = "wait" /\ UNCHANGED jobVars
      <3>1. child'.job = JobOf(step) /\ child'.state = "forked" /\ process'.pid
        BY <2>3, ChildEffects DEF Spawn, ProcessNone
      <3>2. todo' = todo /\ index' = index /\ todo # <<>> /\ Head(todo) = step
        BY <2>1, <2>3 DEF At, jobVars
      <3> QED BY <2>1, <2>3, <3>1, <3>2, JobFacts, OutputsStay DEF WaitInv
    <2> QED BY <2>1, <2>2, <2>3
  <1>9. CASE ChildStep
    <2>1. UNCHANGED <<jobVars, pc, signalled, process>> /\ child.state # "none"
      BY <1>9 DEF ChildStep, ChildStarts, ChildInterrupted, ChildRemoves, ChildOpens, ChildFails, ChildSucceeds, jobVars
    <2>2. child'.job = child.job /\ child'.state # "none"
      BY <1>9, ChildEffects DEF ChildStep, ChildInterrupted, ChildFails, ChildSucceeds
    <2>3. todo' = todo /\ index' = index
      BY <2>1 DEF jobVars
    <2> QED BY <2>1, <2>2, <2>3, OutputsStay DEF WaitInv
  <1>10. CASE Signal
    BY <1>2, <1>10 DEF Signal
  <1> QED BY <1>1, <1>5, <1>6, <1>7, <1>8, <1>9, <1>10 DEF Next, DriverStep

-----------------------------------------------------------------------------
(* Half-written files *)

\* Where a half-written file may be while no child runs and nothing failed.
Excused(f) == f \in DepFiles \/ InBaseDir(f)

\* A finished product is not half-written.
LEMMA ProductFacts ==
  /\ Rule # Partial /\ Rule.what \notin {"empty", "partial", "dir"}
  /\ Product # Partial /\ Product.what \notin {"empty", "partial", "dir"}
  <1>1. /\ Rule.what = "rule" /\ Rule.arg = child.job.arg
        /\ Product.what \in {"rule", "compile", "preprocess", "object", "exe"}
    BY DEF Rule, Product
  <1>2. Partial.what = "partial"
    BY DEF Partial
  <1> QED BY <1>1, <1>2

\* Every step keeps half-written files to where driver_run_argument removes them.
LEMMA PartialKept ==
  ASSUME Inv, [Next]_vars
  PROVE  PartialInv'
  <1> TypeInv /\ WaitInv /\ PartialInv /\ ChildType /\ DirInv
    BY DEF Inv, TypeInv
  <1>1. CASE UNCHANGED vars
    BY <1>1 DEF vars, tempVars, processVars, driverVars, PartialInv, InBaseDir
  <1>2. ASSUME ~signalled, pc \in {"argument", "step"}, NEW f \in DOMAIN disk, disk[f] = Partial
        PROVE  Excused(f)
    BY <1>2 DEF PartialInv, Excused
  <1>3. CASE BeginArgument \/ EndArgument \/ AddLinkerArgument \/ AfterArguments \/ Return
    <2>1. UNCHANGED <<disk, signalled>> /\ ~signalled /\ pc \in {"argument", "step"}
      BY <1>3, Calm DEF BeginArgument, EndArgument, AddLinkerArgument, AfterArguments, Return, At, tempVars
    <2> QED BY <1>2, <2>1 DEF PartialInv, Excused, InBaseDir
  <1>4. CASE CreateTempFile
    <2>1. UNCHANGED signalled /\ ~signalled /\ pc = "step"
      BY <1>4, Calm DEF CreateTempFile, At
    <2>2. \/ UNCHANGED disk
          \/ disk' = Put(disk, BaseDir, Dir)
          \/ \E step \in TempSteps : disk' = Put(disk, TempPath(step, mgr.file_index), Empty)
      BY <1>4 DEF CreateTempFile, MakeBaseDir, MakeTempFile, Track, TempSteps, tempVars
    <2>3. Dir # Partial /\ Empty # Partial
      BY DEF Dir, Empty, Partial
    <2>4. BaseDir # NoPath /\ \A step, n : TempPath(step, n) # NoPath
      BY DEF BaseDir, TempPath, NoPath, NoEntry
    <2>5. \A f \in DOMAIN disk' : disk'[f] = Partial => f \in DOMAIN disk /\ disk[f] = Partial
      BY <2>2, <2>3 DEF Put
    <2>6. NoPath \notin DOMAIN disk'
      BY <2>2, <2>4 DEF Put, PartialInv
    <2> QED BY <1>2, <2>1, <2>5, <2>6 DEF PartialInv, Excused, InBaseDir
  <1>5. CASE StartChild
    <2>1. UNCHANGED signalled /\ ~signalled /\ pc = "step"
      BY <1>5, Calm DEF StartChild, At
    <2>2. PICK F : disk' = disk \/ disk' = Without(disk, F)
      BY <1>5 DEF StartChild
    <2> QED BY <1>2, <2>1, <2>2 DEF PartialInv, Excused, Without, Restrict, InBaseDir
  <1>6. CASE WaitProgram
    <2>1. UNCHANGED <<disk, signalled>> /\ ~signalled /\ pc = "wait" /\ child.job.out = NoPath
      BY <1>6 DEF WaitProgram, WaitInv, DirInv, OutOf, tempVars
    <2> QED BY <2>1 DEF PartialInv, InBaseDir
  <1>7. CASE WaitStage
    <2>1. /\ UNCHANGED <<signalled, output_file, conf>> /\ ~signalled /\ pc = "wait"
          /\ process.pid /\ child.job.out = OutOf(Head(todo))
      BY <1>7 DEF WaitStage, WaitInv, DirInv
    <2>2. PICK step \in ChildSteps \ {"program"} :
            /\ Head(todo) = step
            /\ \/ /\ child.end = ExitSuccess /\ pc' = "step"
                  /\ disk' = IF step = "assemble" THEN Without(disk, {names.asm}) ELSE disk
               \/ /\ pc' = "failed"
                  /\ disk' = Without(disk, FailedOutputs(step) \cup IF step = "link" THEN {LinkerOutput} ELSE {})
               \/ /\ pc' = "failed" /\ process' = process
                  /\ disk' = Without(disk, FailedOutputs(step))
      BY <1>7 DEF WaitStage, RemoveFile, Succeeded, Done, Fail, WaitFails
    <2>3. CASE child.end = ExitSuccess
      <3>1. PICK F : disk' = disk \/ disk' = Without(disk, F)
        BY <2>2
      <3> QED BY <2>1, <2>3, <3>1 DEF PartialInv, Without, Restrict, InBaseDir
    <2>4. step # "link" => OutOf(step) \in FailedOutputs(step)
      BY DEF ChildSteps, OutOf, CompilerTarget, FailedOutputs
    <2>5. CASE /\ pc' = "failed"
               /\ disk' = Without(disk, FailedOutputs(step) \cup IF step = "link" THEN {LinkerOutput} ELSE {})
      <3>1. \A f \in DOMAIN disk' : f # OutOf(step)
        BY <2>4, <2>5 DEF Without, Restrict, OutOf
      <3> QED BY <2>1, <2>2, <2>5, <3>1 DEF PartialInv, Without, Restrict, InBaseDir
    <2>6. CASE /\ pc' = "failed" /\ process' = process
               /\ disk' = Without(disk, FailedOutputs(step))
      <3>1. CASE step # "link"
        <4>1. \A f \in DOMAIN disk' : f # OutOf(step)
          BY <2>4, <2>6, <3>1 DEF Without, Restrict
        <4> QED BY <2>1, <2>2, <2>6, <4>1 DEF PartialInv, Without, Restrict, InBaseDir
      <3>2. CASE step = "link"
        <4>1. Head(todo) = "link" /\ todo # <<>>
          BY <2>1, <2>2, <3>2 DEF WaitInv
        <4>2. conf.stage = "LINK" \/ output_file # NoPath
          BY <2>1, <4>1, PlanHeads DEF Inv, PlanInv, Linking
        <4>3. OutOf(step) = output_file \/ (OutOf(step) = DefaultOutput /\ output_file = NoPath)
          BY <3>2 DEF OutOf, LinkerOutput, DefaultOutput
        <4> QED BY <2>1, <2>2, <2>6, <4>2, <4>3 DEF PartialInv, Without, Restrict, InBaseDir
      <3> QED BY <3>1, <3>2
    <2> QED BY <2>2, <2>3, <2>5, <2>6
  <1>8. CASE ReturnFailure
    BY <1>8 DEF ReturnFailure, RemoveFile, Without, Restrict, PartialInv, InBaseDir, processVars
  <1>9. CASE RemoveTemps \/ AtExit
    <2>1. /\ DOMAIN disk' \subseteq DOMAIN disk /\ \A f \in DOMAIN disk' : disk'[f] = disk[f]
          /\ UNCHANGED <<signalled, process, output_file, conf>> /\ pc = "atexit" /\ pc' \in {"atexit", "exited"}
      BY <1>9, RemovalOnDisk DEF RemoveTemps, AtExit, tempVars, processVars
    <2> QED BY <2>1 DEF PartialInv, InBaseDir
  <1>10. CASE Signal
    BY <1>10 DEF Signal, PartialInv
  <1>11. CASE ChildStep
    <2>1. UNCHANGED <<signalled, pc>> /\ child.state # "none" /\ child'.job = child.job
      BY <1>11, ChildEffects DEF ChildStep, ChildStarts, ChildInterrupted, ChildRemoves, ChildOpens, ChildFails, ChildSucceeds
    <2>2. ~signalled => pc = "wait"
      BY <2>1 DEF WaitInv
    <2>3. child.job.dep \in DepFiles \/ child.job.dep = NoPath
      BY <2>1 DEF ChildType, DepNames
    <2>4. CASE ChildOpens
      <3>1. /\ DOMAIN disk' = DOMAIN disk \cup Written(child.job)
            /\ \A f \in DOMAIN disk' : f \notin Written(child.job) => disk'[f] = disk[f]
            /\ child'.end # ExitSuccess
        BY <2>4, ChildEffects DEF ChildOpens, ChildType, Uninitialized, ExitSuccess
      <3>2. \A f \in Written(child.job) : f # NoPath /\ (f \in DepFiles \/ f = child.job.out)
        BY <2>3 DEF Written, NoPath
      <3> QED BY <2>1, <2>2, <3>1, <3>2 DEF PartialInv, InBaseDir
    <2>5. CASE ChildSucceeds
      <3>1. /\ DOMAIN disk' = DOMAIN disk
            /\ \A f \in DOMAIN disk' : disk'[f] = Partial => f # child.job.out /\ disk[f] = Partial
        BY <2>5, ProductFacts DEF ChildSucceeds
      <3> QED BY <2>1, <2>2, <3>1 DEF PartialInv, InBaseDir
    <2>6. CASE ChildStarts \/ ChildInterrupted \/ ChildRemoves \/ ChildFails
      <3>1. disk' = disk \/ Removal(child, child')
        BY <2>6 DEF ChildStarts, ChildInterrupted, ChildRemoves, ChildFails
      <3>2. /\ DOMAIN disk' \subseteq DOMAIN disk /\ \A f \in DOMAIN disk' : disk'[f] = disk[f]
        BY <3>1, RemovalOnDisk
      <3>3. child'.end # ExitSuccess
        <4>1. CASE ChildRemoves
          <5>1. child.end = ExitFailure
            BY <4>1 DEF ChildRemoves, ChildType
          <5>2. child'.end = child.end
            BY <4>1, ChildEffects
          <5> QED BY <5>1, <5>2 DEF ExitSuccess, ExitFailure
        <4>2. CASE ChildStarts
          <5>1. child.end = Uninitialized
            BY <4>2 DEF ChildStarts, ChildType
          <5>2. child'.end = child.end
            BY <4>2, ChildEffects
          <5> QED BY <5>1, <5>2 DEF ExitSuccess, Uninitialized
        <4>3. CASE ChildInterrupted \/ ChildFails
          <5>1. PICK how \in {ExitFailure, Signalled}, handlers \in {TRUE, FALSE, KeepsHandlers} : Exits(how, handlers)
            BY <4>3 DEF ChildInterrupted, ChildFails
          <5>2. child'.end = how
            BY <5>1, ChildEffects
          <5> QED BY <5>2 DEF ExitSuccess, ExitFailure, Signalled
        <4> QED BY <2>6, <4>1, <4>2, <4>3
      <3> QED BY <2>1, <2>2, <3>2, <3>3 DEF PartialInv, InBaseDir
    <2> QED BY <1>11, <2>4, <2>5, <2>6 DEF ChildStep
  <1> QED BY <1>1, <1>3, <1>4, <1>5, <1>6, <1>7, <1>8, <1>9, <1>10, <1>11 DEF Next, DriverStep

-----------------------------------------------------------------------------
(* Temporary files and the linker's arguments *)

\* An argument for the linker ends with "add", after the object file was made.
LEMMA PlanAdds ==
  ASSUME Plan, todo # <<>>, InArguments, Linking, Head(todo) # "add"
  PROVE  /\ Tail(todo) # <<>>
         /\ Head(Tail(todo)) = "add" => Head(todo) = "assemble"
  <1>1. todo \in LinkPlans
    BY DEF Plan, Linking
  <1>2. Tail(todo) # <<>>
    <2>1. todo # <<"add">>
      OBVIOUS
    <2>2. Tail(todo) \in LinkPlans
      BY <1>1, <2>1, Tails DEF LinkPlans
    <2>3. <<>> \notin LinkPlans
      BY DEF LinkPlans
    <2> QED BY <2>2, <2>3
  <1>3. Head(Tail(todo)) = "add" => Head(todo) = "assemble"
    BY <1>1 DEF LinkPlans
  <1> QED BY <1>2, <1>3

\* The name of a temporary file tells its index.
LEMMA TempNames ==
  /\ \A k, l, m, n : TempPath(k, m) = TempPath(l, n) => k = l /\ m = n
  /\ BaseDir \notin LinkNames /\ NoPath \notin LinkNames
  /\ \A n : TempPath("object-file", n) \notin {BaseDir, NoPath, NoEntry}
  BY DEF TempPath, BaseDir, NoPath, NoEntry, LinkNames, Inputs, Input, Temps

\* The steps left of an argument of the linker.
LEMMA LinkStart ==
  ASSUME TypeInv, InArguments, Linking
  PROVE  /\ Steps(Argument.type) # <<>>
         /\ Head(Steps(Argument.type)) \in {"object-file", "add"}
         /\ Head(Steps(Argument.type)) = "add" => Argument.type \in {"OBJECT", "LINKER_FLAG"}
         /\ OutputOf(Argument.base) = NoPath
  <1>1. Argument.type \in ArgumentTypes
    BY ConfFacts DEF TypeInv, InArguments, Argument
  <1> QED BY <1>1 DEF Steps, LinkSteps, ArgumentTypes, Linking, OutputOf

\* Every step keeps the temporary files that the linker is given apart from those
\* that are made or written next.
LEMMA FreshKept ==
  ASSUME Inv, [Next]_vars
  PROVE  FreshInv'
  <1> TypeInv /\ PlanInv /\ FreshInv /\ DirInv /\ MgrType
    BY DEF Inv, TypeInv
  <1> DEFINE Names == /\ \A i \in DOMAIN linker : Older(linker[i]) /\ linker[i] # mgr.pending
                      /\ Older(names.object) /\ Older(mgr.pending)
             Apart == pc \in {"step", "wait"} /\ Linking /\ InArguments /\ todo # <<>> =>
                        /\ \A i \in DOMAIN linker : linker[i] # names.object
                        /\ Head(todo) \notin {"object-file", "add"} => names.object \in Temps("object-file")
  <1>0. (Names' /\ Apart' => FreshInv') /\ Names /\ Apart
    BY DEF FreshInv
  <1>1. conf' = conf
    BY DEF vars, driverVars, Next, DriverStep, ChildStep, BeginArgument, EndArgument, CreateTempFile,
       AddLinkerArgument, StartChild, WaitStage, WaitProgram, AfterArguments, Return, ReturnFailure, RemoveTemps, AtExit, Signal
  <1>2. ASSUME UNCHANGED <<linker, names>>, mgr'.pending = mgr.pending, mgr'.file_index = mgr.file_index
        PROVE  Names'
    BY <1>0, <1>2 DEF Older
  <1>3. ASSUME pc' \notin {"step", "wait"}
        PROVE  Apart'
    BY <1>3
  <1>4. CASE UNCHANGED vars
    <2>1. Names'
      BY <1>2, <1>4 DEF vars, driverVars, tempVars
    <2>2. Apart'
      BY <1>0, <1>4 DEF vars, driverVars, Linking, InArguments
    <2> QED BY <1>0, <2>1, <2>2
  <1>5. CASE BeginArgument
    <2>1. /\ UNCHANGED <<linker, mgr, index>> /\ todo' = Steps(Argument.type) /\ InArguments
          /\ names' = [object |-> OutputOf(Argument.base), asm |-> NoPath]
      BY <1>5 DEF BeginArgument, InArguments, tempVars
    <2>2. OutputOf(Argument.base) \in {NoPath} \cup Products
      BY <2>1, OutputNamed, ConfFacts DEF Inv, TypeInv, InArguments, Argument
    <2>3. \A n \in Nat : TempPath("object-file", n) \notin {NoPath} \cup Products
      BY PathKinds DEF Tracked, Temps, TempSteps, NoPath
    <2>4. Names'
      BY <1>0, <2>1, <2>2, <2>3 DEF Older
    <2>5. Apart'
      <3> SUFFICES ASSUME Linking PROVE Apart'
        BY <1>1 DEF Linking
      <3>1. names'.object = NoPath /\ Head(todo') \in {"object-file", "add"}
        BY <2>1, LinkStart
      <3> QED BY <2>1, <3>1, TempNames, SeqFacts DEF TypeInv
    <2> QED BY <1>0, <2>4, <2>5
  <1>6. CASE CreateTempFile
    <2>0. pc = "step" /\ ~signalled
      BY <1>6, Calm DEF CreateTempFile, At
    <2>1. PICK step \in TempSteps :
            /\ At(step) /\ UNCHANGED <<index, linker>>
            /\ \/ MakeBaseDir /\ UNCHANGED <<pc, todo, names>>
               \/ MakeTempFile(step) /\ UNCHANGED <<pc, todo, names>>
               \/ Track /\ UNCHANGED <<pc, todo, names>>
               \/ mgr.pending # BaseDir /\ Track /\ Named(step, mgr.pending) /\ Done
               \/ UNCHANGED <<mgr, names>> /\ pc' = "failed"
      BY <1>6 DEF CreateTempFile, TempSteps, Fail, tempVars
    <2>2. ASSUME UNCHANGED <<pc, todo, names>> PROVE Apart'
      BY <1>0, <1>1, <2>1, <2>2 DEF Linking, InArguments
    <2>3. \A i \in DOMAIN linker : linker[i] \in LinkNames
      BY SeqFacts DEF TypeInv
    <2>4. CASE MakeBaseDir /\ UNCHANGED <<pc, todo, names>>
      <3>1. mgr'.pending = BaseDir /\ mgr'.file_index = mgr.file_index
        BY <2>4, MgrEffects
      <3>2. (Older(names.object))' /\ \A i \in DOMAIN linker : (Older(linker[i]))'
        BY <1>0, <2>1, <2>4, <3>1 DEF Older
      <3>3. (Older(mgr.pending))'
        BY <3>1, TempNames DEF Older
      <3>4. \A i \in DOMAIN linker : linker[i] # mgr'.pending
        BY <2>3, <3>1, TempNames
      <3>5. Names'
        BY <2>1, <3>2, <3>3, <3>4
      <3> QED BY <1>0, <2>2, <2>4, <3>5
    <2>5. CASE MakeTempFile(step) /\ UNCHANGED <<pc, todo, names>>
      <3>1. mgr.file_index \in Nat
        BY DEF MgrType
      <3>2. mgr'.file_index = mgr.file_index + 1 /\ mgr'.pending = TempPath(step, mgr.file_index)
        BY <2>5, MgrEffects
      <3>3. \A f : Older(f) => (\A n \in Nat : f = TempPath("object-file", n) => n < mgr'.file_index)
        BY <3>1, <3>2 DEF Older
      <3>4. \A i \in DOMAIN linker : linker[i] # mgr'.pending
        <4> SUFFICES ASSUME NEW i \in DOMAIN linker, linker[i] = TempPath(step, mgr.file_index) PROVE FALSE
          BY <3>2
        <4>1. Older(linker[i]) /\ linker[i] \in LinkNames
          BY <1>0, <2>3
        <4>2. step = "object-file"
          BY <4>1 DEF LinkNames, Inputs, Input, Temps, TempPath
        <4> QED BY <3>1, <4>1, <4>2 DEF Older
      <3>5. (Older(mgr.pending))'
        <4> SUFFICES ASSUME NEW n \in Nat, mgr'.pending = TempPath("object-file", n) PROVE n < mgr'.file_index
          BY DEF Older
        <4>1. n = mgr.file_index
          BY <3>2, TempNames
        <4> QED BY <3>1, <3>2, <4>1
      <3>6. (Older(names.object))' /\ \A i \in DOMAIN linker : (Older(linker[i]))'
        BY <1>0, <2>1, <2>5, <3>3 DEF Older
      <3>7. Names'
        BY <2>1, <3>4, <3>5, <3>6
      <3> QED BY <1>0, <2>2, <2>5, <3>7
    <2>6. CASE Track /\ UNCHANGED <<pc, todo, names>>
      <3>1. mgr'.pending = NoEntry /\ mgr'.file_index = mgr.file_index
        BY <2>6, MgrEffects
      <3>2. (Older(names.object))' /\ \A i \in DOMAIN linker : (Older(linker[i]))'
        BY <1>0, <2>1, <2>6, <3>1 DEF Older
      <3>3. (Older(mgr.pending))'
        BY <3>1, TempNames DEF Older
      <3>4. \A i \in DOMAIN linker : linker[i] # mgr'.pending
        BY <2>3, <3>1, TempNames DEF NoPath
      <3>5. Names'
        BY <2>1, <3>2, <3>3, <3>4
      <3> QED BY <1>0, <2>2, <2>6, <3>5
    <2>7. CASE mgr.pending # BaseDir /\ Track /\ Named(step, mgr.pending) /\ Done
      <3>1. mgr'.pending = NoEntry /\ mgr'.file_index = mgr.file_index /\ mgr.pending # NoEntry
        BY <2>7, MgrEffects DEF Track
      <3>2. names'.object \in {names.object, mgr.pending} /\ todo' = Tail(todo) /\ todo # <<>> /\ Head(todo) = step
        BY <2>1, <2>7 DEF Named, Done, At
      <3>3. Names'
        BY <1>0, <2>1, <2>3, <3>1, <3>2, TempNames DEF Older, NoPath
      <3>4. Apart'
        <4> SUFFICES ASSUME Linking, InArguments PROVE Apart'
          BY <1>1, <2>1 DEF Linking, InArguments
        <4>1. step = "object-file" => names'.object = mgr.pending /\ mgr.pending \in Temps("object-file")
          BY <2>0, <2>1, <2>7, <3>1 DEF DirInv, At, Named
        <4>2. step # "object-file" => names'.object = names.object /\ names.object \in Temps("object-file")
          BY <1>0, <2>0, <2>1, <2>7, <3>2 DEF Named, At, TempSteps
        <4>3. \A i \in DOMAIN linker : linker[i] # names'.object
          BY <1>0, <2>0, <3>2, <4>1, <4>2
        <4> QED BY <2>1, <4>1, <4>2, <4>3
      <3> QED BY <1>0, <3>3, <3>4
    <2>8. CASE UNCHANGED <<mgr, names>> /\ pc' = "failed"
      BY <1>0, <1>2, <1>3, <2>1, <2>8
    <2> QED BY <2>1, <2>4, <2>5, <2>6, <2>7, <2>8
  <1>7. CASE AddLinkerArgument
    <2>1. /\ UNCHANGED <<mgr, names, index>> /\ At("add") /\ Done
          /\ linker' = Append(linker, IF Argument.type \in {"OBJECT", "LINKER_FLAG"} THEN Input(index) ELSE names.object)
      BY <1>7 DEF AddLinkerArgument, tempVars
    <2>2. todo' = <<>>
      BY <2>1, Calm, PlanHeads, Tails DEF At, Done
    <2>3. mgr.pending = NoEntry
      BY <2>1, Calm, NothingPending DEF At, TempSteps
    <2>4. linker' \in Seq(LinkNames) /\ linker \in Seq(LinkNames)
      BY TypeKept DEF TypeInv
    <2>5. \A n \in Nat : Input(index) # TempPath("object-file", n)
      BY DEF Input, TempPath
    <2>6. Older(Input(index)) /\ Older(names.object)
      BY <1>0, <2>5 DEF Older
    <2>7. \A i \in DOMAIN linker' : Older(linker'[i])
      <3>1. PICK x : linker' = Append(linker, x) /\ Older(x)
        BY <2>1, <2>6
      <3>2. \A i \in DOMAIN linker' : (i \in DOMAIN linker /\ linker'[i] = linker[i]) \/ linker'[i] = x
        BY <2>4, <3>1
      <3> QED BY <1>0, <3>1, <3>2
    <2>8. \A i \in DOMAIN linker' : linker'[i] # NoEntry
      BY <2>4, TempNames, SeqFacts DEF NoPath
    <2>9. Names'
      BY <1>0, <2>1, <2>3, <2>7, <2>8 DEF Older
    <2> QED BY <1>0, <2>2, <2>9
  <1>8. CASE StartChild
    <2>1. UNCHANGED <<mgr, linker, names, index>> /\ pc = "step" /\ (pc' = "failed" \/ UNCHANGED todo)
      BY <1>8 DEF StartChild, At, Fail
    <2>2. Names'
      BY <1>2, <2>1
    <2>3. Apart'
      BY <1>0, <1>1, <2>1 DEF Linking, InArguments
    <2> QED BY <1>0, <2>2, <2>3
  <1>9. CASE WaitStage
    <2>1. /\ UNCHANGED <<mgr, linker, names, index>> /\ pc = "wait" /\ Head(todo) \in ChildSteps
          /\ pc' = "failed" \/ todo' = Tail(todo)
      BY <1>9 DEF WaitStage, Done, Fail
    <2>2. Names'
      BY <1>2, <2>1
    <2>3. todo # <<>>
      BY <2>1 DEF Inv, WaitInv, DirInv
    <2>4. Apart'
      BY <1>0, <1>1, <2>1, <2>3 DEF Linking, InArguments, ChildSteps
    <2> QED BY <1>0, <2>2, <2>4
  <1>10. CASE ChildStep
    <2>1. UNCHANGED <<mgr, linker, names, index, pc, todo>>
      BY <1>10 DEF ChildStep, ChildStarts, ChildInterrupted, ChildRemoves, ChildOpens, ChildFails, ChildSucceeds
    <2>2. Names'
      BY <1>2, <2>1
    <2>3. Apart'
      BY <1>0, <1>1, <2>1 DEF Linking, InArguments
    <2> QED BY <1>0, <2>2, <2>3
  <1>11. CASE AfterArguments
    <2>1. UNCHANGED <<mgr, linker, names, index>> /\ ~InArguments
      BY <1>11 DEF AfterArguments, InArguments, tempVars
    <2>2. Names'
      BY <1>2, <2>1
    <2>3. Apart'
      BY <1>1, <2>1 DEF InArguments
    <2> QED BY <1>0, <2>2, <2>3
  <1>12. CASE EndArgument \/ WaitProgram \/ Return \/ ReturnFailure
    <2>1. UNCHANGED <<mgr, linker, names>> /\ pc' \notin {"step", "wait"}
      BY <1>12 DEF EndArgument, WaitProgram, Return, ReturnFailure, tempVars
    <2> QED BY <1>0, <1>2, <1>3, <2>1
  <1>13. CASE RemoveTemps \/ AtExit \/ Signal
    <2>1. /\ AtExit => UNCHANGED mgr
          /\ UNCHANGED <<linker, names>> /\ pc' \notin {"step", "wait"}
      BY <1>13 DEF RemoveTemps, AtExit, Signal, tempVars
    <2> QED BY <1>0, <1>2, <1>3, <1>13, <2>1, MgrEffects
  <1> QED BY <1>4, <1>5, <1>6, <1>7, <1>8, <1>9, <1>10, <1>11, <1>12, <1>13 DEF Next, DriverStep

\* Nothing that failed is forgotten.
LEMMA GoodBefore ==
  ASSUME Inv, [Next]_vars, Good'
  PROVE  /\ Good /\ conf' = conf /\ ~signalled
         /\ \/ UNCHANGED vars \/ BeginArgument \/ EndArgument \/ CreateTempFile \/ AddLinkerArgument
            \/ StartChild \/ WaitStage \/ AfterArguments \/ ChildStep
  <1> TypeInv /\ WaitInv /\ ChildType
    BY DEF Inv, TypeInv
  <1>1. /\ \/ UNCHANGED vars \/ BeginArgument \/ EndArgument \/ CreateTempFile \/ AddLinkerArgument
           \/ StartChild \/ WaitStage \/ AfterArguments \/ ChildStep
        /\ ~signalled /\ conf' = conf
    <2>1. ~WaitProgram /\ ~Return /\ ~ReturnFailure /\ ~RemoveTemps /\ ~AtExit /\ ~Signal
      BY DEF Good, WaitProgram, Return, ReturnFailure, RemoveTemps, AtExit, Signal
    <2>2. \/ UNCHANGED vars \/ BeginArgument \/ EndArgument \/ CreateTempFile \/ AddLinkerArgument
          \/ StartChild \/ WaitStage \/ AfterArguments \/ ChildStep
      BY <2>1 DEF Next, DriverStep
    <2>3. UNCHANGED <<conf, signalled>>
      BY <2>2 DEF vars, driverVars, ChildStep, BeginArgument, EndArgument, CreateTempFile, AddLinkerArgument,
         StartChild, WaitStage, AfterArguments
    <2> QED BY <2>2, <2>3 DEF Good
  <1>2. CASE UNCHANGED vars
    BY <1>2 DEF Good, vars, driverVars, processVars
  <1>3. CASE pc \in {"argument", "step"}
    BY <1>1, <1>3, Calm
  <1>4. CASE WaitStage
    <2>1. child.end = ExitSuccess /\ pc = "wait"
      BY <1>4 DEF WaitStage, Succeeded, Fail, Good
    <2> QED BY <1>1, <2>1 DEF Good, ExitSuccess, ExitFailure, Signalled
  <1>5. CASE ChildStep
    <2>1. pc' = pc /\ child.state # "none"
      BY <1>5 DEF ChildStep, ChildStarts, ChildInterrupted, ChildRemoves, ChildOpens, ChildFails, ChildSucceeds
    <2>2. child.end = Uninitialized \/ child'.end = child.end
      BY <1>5, ChildEffects DEF ChildStep, ChildStarts, ChildInterrupted, ChildRemoves, ChildOpens, ChildFails, ChildSucceeds, ChildType
    <2> QED BY <1>1, <2>1, <2>2 DEF Good, Uninitialized, ExitFailure, Signalled
  <1> QED
    BY <1>1, <1>2, <1>3, <1>4, <1>5
    DEF BeginArgument, EndArgument, CreateTempFile, AddLinkerArgument, StartChild, AfterArguments, At

\* The driver goes on after a child only if the child succeeded.
LEMMA WaitGood ==
  ASSUME Inv, WaitStage, Good'
  PROVE  /\ pc = "wait" /\ pc' = "step" /\ ~signalled /\ child.state = "ended" /\ child.end = ExitSuccess
         /\ todo # <<>> /\ todo' = Tail(todo) /\ Head(todo) \in ChildSteps \ {"program"}
         /\ disk' = IF Head(todo) = "assemble" THEN Without(disk, {names.asm}) ELSE disk
         /\ UNCHANGED <<index, names, output_file, linker>>
  BY DEF Inv, WaitInv, DirInv, WaitStage, Succeeded, Ended, Fail, Done, Good, RemoveFile

\* What a step that creates a temporary file does.
LEMMA CreateGood ==
  ASSUME Inv, CreateTempFile, Good'
  PROVE  \E step \in TempSteps :
           /\ At(step) /\ UNCHANGED <<index, linker>>
           /\ \/ /\ UNCHANGED <<pc, todo, names, output_file>>
                 /\ \/ disk' = Put(disk, BaseDir, Dir)
                    \/ disk' = Put(disk, TempPath(step, mgr.file_index), Empty)
                    \/ UNCHANGED disk
              \/ mgr.pending # BaseDir /\ Named(step, mgr.pending) /\ Done /\ UNCHANGED disk
  BY DEF CreateTempFile, TempSteps, Fail, Good, MakeBaseDir, MakeTempFile, Track

\* Every step keeps one linker argument per handled argument.
LEMMA CountKept ==
  ASSUME Inv, [Next]_vars
  PROVE  CountInv'
  <1> SUFFICES ASSUME Good', Linking
               PROVE  (Len(linker) = IF InArguments /\ pc = "step" /\ todo = <<>> THEN index ELSE index - 1)'
    BY GoodBefore DEF CountInv, Linking
  <1> DEFINE Count == Len(linker) = IF InArguments /\ pc = "step" /\ todo = <<>> THEN index ELSE index - 1
  <1> TypeInv /\ PlanInv /\ WaitInv
    BY DEF Inv
  <1>1. Good /\ conf' = conf /\ ~signalled /\ Count
    BY GoodBefore DEF Inv, CountInv
  <1>2. index \in Nat /\ linker \in Seq(LinkNames)
    BY ConfFacts DEF TypeInv
  <1>3. CASE UNCHANGED vars
    BY <1>1, <1>3 DEF vars, driverVars, InArguments
  <1>4. CASE BeginArgument
    <2>1. UNCHANGED <<index, linker>> /\ todo' = Steps(Argument.type) /\ InArguments /\ pc = "argument"
      BY <1>4 DEF BeginArgument, InArguments
    <2> QED BY <1>1, <2>1, LinkStart
  <1>5. CASE EndArgument
    <2>1. UNCHANGED linker /\ index' = index + 1 /\ InArguments /\ pc = "step" /\ todo = <<>> /\ pc' = "argument"
      BY <1>5 DEF EndArgument, InArguments
    <2> QED BY <1>1, <1>2, <2>1
  <1>6. CASE AfterArguments
    <2>1. UNCHANGED <<index, linker>> /\ ~InArguments
      BY <1>6 DEF AfterArguments, InArguments
    <2> QED BY <1>1, <2>1 DEF InArguments
  <1>7. CASE AddLinkerArgument
    <2>1. /\ UNCHANGED index /\ At("add") /\ Done
          /\ \E x : linker' = Append(linker, x)
      BY <1>7 DEF AddLinkerArgument
    <2>2. todo = <<"add">> /\ InArguments /\ pc = "step"
      BY <1>1, <2>1, PlanHeads DEF At
    <2>3. pc' = "step" /\ todo' = <<>>
      BY <2>1, <2>2, Tails DEF Done
    <2>4. Len(linker') = Len(linker) + 1
      BY <1>2, <2>1, TypeKept DEF TypeInv
    <2>5. Len(linker) = index - 1
      BY <1>1, <2>1 DEF At
    <2>6. InArguments'
      BY <1>1, <2>1, <2>2 DEF InArguments
    <2>7. Len(linker') = index'
      BY <1>2, <2>1, <2>4, <2>5
    <2> QED BY <2>3, <2>6, <2>7
  <1>8. ASSUME UNCHANGED <<index, linker>>, todo # <<>>, pc \in {"step", "wait"},
               todo' = todo \/ (todo' = Tail(todo) /\ Head(todo) # "add")
        PROVE  Count'
    <2>1. CASE InArguments
      <3>1. todo' # <<>>
        BY <1>1, <1>8, <2>1, PlanAdds DEF PlanInv
      <3> QED BY <1>1, <1>8, <2>1, <3>1
    <2>2. CASE ~InArguments
      BY <1>1, <1>8, <2>2 DEF InArguments
    <2> QED BY <2>1, <2>2
  <1>9. CASE CreateTempFile
    BY <1>8, <1>9, CreateGood DEF TempSteps, At, Done
  <1>10. CASE StartChild
    BY <1>8, <1>10 DEF StartChild, At, Fail
  <1>11. CASE WaitStage
    BY <1>8, <1>11, WaitGood DEF ChildSteps
  <1>12. CASE ChildStep
    <2>1. UNCHANGED <<index, linker, todo, pc>>
      BY <1>12 DEF ChildStep
    <2> QED BY <1>1, <2>1 DEF InArguments
  <1> QED BY <1>3, <1>4, <1>5, <1>6, <1>7, <1>9, <1>10, <1>11, <1>12, GoodBefore
=============================================================================
