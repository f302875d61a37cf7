---------------------------- MODULE DriverProofs ----------------------------
(* The theorems about the compiler driver, for every set of command lines:   *)
(* of any number of arguments, any base names, and any stage and options.    *)
(* Before them the last parts of the invariant: what has been made stays     *)
(* whole, a failure reaches the exit status, and what success means.         *)
EXTENDS DriverPlan

-----------------------------------------------------------------------------
(* What has been made stays whole *)

\* No input is among the files the driver or a child writes or removes.
LEMMA InputsApart ==
  ASSUME TypeInv, NEW f \in Inputs
  PROVE  /\ f \notin Tracked /\ ~InBaseDir(f)
         /\ f \notin {names.object, names.asm, output_file, LinkerOutput}
         /\ child.state # "none" => f \notin {child.job.out, child.job.dep}
  <1>1. f \notin Tracked /\ ~InBaseDir(f)
    BY PathKinds, PathPlaces
  <1>2. f \notin WrittenNames \cup DepNames
    BY PathKinds DEF WrittenNames, DepNames, ObjectNames, AsmNames, OutputNameSet, Products, Tracked, TempSteps
  <1> QED BY <1>1, <1>2 DEF TypeInv, ChildType, LinkerOutput, WrittenNames, DefaultOutput

\* No step changes or removes an input.
LEMMA InputsKept ==
  ASSUME Inv, [Next]_vars
  PROVE  (\A i \in DOMAIN conf.args : Holds(Input(i), i))'
  <1> TypeInv /\ WholeInv /\ ChildType
    BY DEF Inv, TypeInv
  <1>1. conf' = conf
    BY DEF vars, driverVars, Next, DriverStep, ChildStep, BeginArgument, EndArgument, CreateTempFile,
       AddLinkerArgument, StartChild, WaitStage, WaitProgram, AfterArguments, Return, ReturnFailure, RemoveTemps, AtExit, Signal
  <1> SUFFICES ASSUME NEW i \in DOMAIN conf.args, NEW f, f = Input(i)
               PROVE  f \in DOMAIN disk' /\ disk'[f] = disk[f]
    BY <1>1 DEF WholeInv, Holds, Whole, Exists
  <1>2. f \in DOMAIN disk /\ f \in Inputs
    BY ConfFacts DEF WholeInv, Holds, Whole, Exists, Inputs, TypeInv
  <1>3. CASE disk' = disk
    BY <1>2, <1>3
  <1>4. ASSUME NEW m, NEW n, Removal(m, n), m.removing \subseteq Tracked
        PROVE  f \in DOMAIN disk' /\ disk'[f] = disk[f]
    <2>1. f \notin m.removing /\ ~InBaseDir(f)
      BY <1>2, <1>4, InputsApart
    <2> QED BY <1>2, <1>4, <2>1, RemovalOnDisk
  <1>5. CASE CreateTempFile
    <2>1. \/ disk' = disk \/ disk' = Put(disk, BaseDir, Dir)
          \/ \E step \in TempSteps : disk' = Put(disk, TempPath(step, mgr.file_index), Empty)
      BY <1>5 DEF CreateTempFile, MakeBaseDir, MakeTempFile, Track, TempSteps, tempVars
    <2>2. f # BaseDir /\ \A step, n : f # TempPath(step, n)
      BY DEF Input, BaseDir, TempPath
    <2> QED BY <1>2, <2>1, <2>2 DEF Put
  <1>6. CASE StartChild
    <2>1. PICK step \in ChildSteps : disk' = disk \/ disk' = Without(disk, FailedOutputs(step))
      BY <1>6 DEF StartChild
    <2>2. f \notin FailedOutputs(step)
      BY <1>2, InputsApart DEF FailedOutputs
    <2> QED BY <1>2, <2>1, <2>2 DEF Without, Restrict
  <1>7. CASE WaitStage
    <2>1. PICK step \in ChildSteps, F \in {{}, {LinkerOutput}, {names.asm}} :
            disk' = disk \/ disk' = Without(disk, F) \/ disk' = Without(disk, FailedOutputs(step) \cup F)
      <3>1. \A S : S \cup {} = S
        OBVIOUS
      <3> QED BY <1>7, <3>1 DEF WaitStage, RemoveFile
    <2>2. f \notin FailedOutputs(step) \cup F
      BY <1>2, InputsApart DEF FailedOutputs
    <2> QED BY <1>2, <2>1, <2>2 DEF Without, Restrict
  <1>8. CASE ReturnFailure
    <2>1. disk' = Without(disk, {output_file}) /\ f # output_file
      BY <1>2, <1>8, InputsApart DEF ReturnFailure, RemoveFile
    <2> QED BY <1>2, <2>1 DEF Without, Restrict
  <1>9. CASE ChildStep
    <2>1. child.state # "none"
      BY <1>9 DEF ChildStep, ChildStarts, ChildInterrupted, ChildRemoves, ChildOpens, ChildFails, ChildSucceeds
    <2>2. f \notin {child.job.out, child.job.dep}
      BY <1>2, <2>1, InputsApart
    <2>3. CASE ChildOpens
      BY <1>2, <2>2, <2>3 DEF ChildOpens, Written
    <2>4. CASE ChildSucceeds
      BY <1>2, <2>2, <2>4 DEF ChildSucceeds
    <2>5. CASE ChildStarts \/ ChildInterrupted \/ ChildFails
      BY <1>3, <2>5 DEF ChildStarts, ChildInterrupted, ChildFails
    <2>6. CASE ChildRemoves
      <3>1. disk' = disk \/ Removal(child, child')
        BY <2>6 DEF ChildRemoves
      <3>2. child.removing \subseteq Tracked
        BY DEF ChildType
      <3> QED BY <1>3, <1>4, <3>1, <3>2
    <2> QED BY <1>9, <2>3, <2>4, <2>5, <2>6 DEF ChildStep
  <1>10. CASE RemoveTemps \/ AtExit \/ Signal
    <2>1. disk' = disk \/ Removal(mgr, mgr')
      BY <1>10 DEF RemoveTemps, AtExit, Signal, tempVars
    <2>2. mgr.removing \subseteq Tracked
      BY DEF TypeInv, MgrType
    <2> QED BY <1>3, <1>4, <2>1, <2>2
  <1>11. CASE UNCHANGED vars
    BY <1>3, <1>11 DEF vars, tempVars
  <1>12. CASE BeginArgument \/ EndArgument \/ AddLinkerArgument \/ WaitProgram \/ AfterArguments \/ Return
    BY <1>3, <1>12 DEF BeginArgument, EndArgument, AddLinkerArgument, WaitProgram, AfterArguments, Return, tempVars
  <1> QED BY <1>5, <1>6, <1>7, <1>8, <1>9, <1>10, <1>11, <1>12 DEF Next, DriverStep

\* While nothing fails, no child fails or runs the handlers of the driver.
LEMMA GoodChild ==
  ASSUME Inv, [Next]_vars, Good'
  PROVE  ~ChildInterrupted /\ ~ChildRemoves /\ ~ChildFails
  <1> ChildType
    BY DEF Inv, TypeInv
  <1>1. ~ChildInterrupted /\ ~ChildFails
    BY ChildEffects DEF Good, ChildInterrupted, ChildFails
  <1>2. ASSUME ChildRemoves PROVE FALSE
    <2>1. child.end = ExitFailure
      BY <1>2 DEF ChildRemoves, ChildType
    <2> QED BY <2>1, GoodBefore DEF Good
  <1> QED BY <1>1, <1>2

\* While nothing fails, a file changes only when it is made, and goes only when
\* it is the assembly file that has been assembled.
LEMMA GoodFrame ==
  ASSUME Inv, [Next]_vars, Good', NEW f \in DOMAIN disk
  PROVE  \/ f \in DOMAIN disk' /\ disk'[f] = disk[f]
         \/ f = BaseDir
         \/ \E step \in TempSteps : At(step) /\ f = TempPath(step, mgr.file_index)
         \/ WaitStage /\ Head(todo) = "assemble" /\ f = names.asm
         \/ pc = "wait" /\ (ChildOpens \/ ChildSucceeds) /\ f \in {child.job.out, child.job.dep}
  <1> TypeInv /\ WaitInv /\ ChildType
    BY DEF Inv, TypeInv
  <1>1. CASE disk' = disk
    BY <1>1
  <1>2. CASE UNCHANGED vars \/ BeginArgument \/ EndArgument \/ AddLinkerArgument \/ AfterArguments
    BY <1>1, <1>2 DEF vars, BeginArgument, EndArgument, AddLinkerArgument, AfterArguments, tempVars
  <1>3. CASE CreateTempFile
    BY <1>3, CreateGood DEF Put
  <1>4. CASE StartChild
    BY <1>1, <1>4 DEF StartChild, Good, Fail
  <1>5. CASE WaitStage
    BY <1>5, WaitGood DEF Without, Restrict
  <1>6. CASE ChildStep
    <2>1. child.state # "none" /\ pc = "wait"
      BY <1>6, GoodBefore DEF WaitInv, ChildStep, ChildStarts, ChildInterrupted, ChildRemoves, ChildOpens, ChildFails, ChildSucceeds
    <2>2. ~ChildInterrupted /\ ~ChildRemoves /\ ~ChildFails
      BY GoodChild
    <2>3. CASE ChildOpens
      BY <2>1, <2>3 DEF ChildOpens, Written
    <2>4. CASE ChildSucceeds
      BY <2>1, <2>4 DEF ChildSucceeds
    <2> QED BY <1>1, <1>6, <2>2, <2>3, <2>4 DEF ChildStep, ChildStarts
  <1> QED BY <1>2, <1>3, <1>4, <1>5, <1>6, GoodBefore

\* The files the linker has been given are not the ones a child writes.
LEMMA LinkerApart ==
  ASSUME Inv, ~signalled, pc = "wait", NEW i \in DOMAIN linker
  PROVE  linker[i] \notin {names.asm, child.job.out, child.job.dep}
  <1> TypeInv /\ WaitInv /\ PlanInv /\ FreshInv /\ ChildType
    BY DEF Inv, TypeInv
  <1>1. linker[i] \in LinkNames
    BY SeqFacts DEF TypeInv
  <1>2. LinkNames \cap (AsmNames \cup OutputNameSet \cup {DefaultOutput} \cup DepNames \cup Products \cup {NoPath}) = {}
    BY PathKinds DEF LinkNames, AsmNames, OutputNameSet, DepNames, Products, Tracked, TempSteps
  <1>3. todo # <<>> /\ Head(todo) \in ChildSteps /\ child.job.out = OutOf(Head(todo)) /\ child.job.dep \in DepNames
    BY DEF WaitInv, ChildType
  <1>4. linker[i] # LinkerOutput
    BY <1>1, <1>2 DEF LinkerOutput, DefaultOutput, TypeInv
  <1>5. CASE Head(todo) \notin {"compile", "preprocess", "assemble"}
    BY <1>1, <1>2, <1>3, <1>4, <1>5 DEF OutOf, TypeInv
  <1>6. CASE Head(todo) \in {"compile", "preprocess", "assemble"}
    <2>1. InArguments
      BY <1>3, <1>6, PlanHeads
    <2>2. CASE Linking
      <3>1. linker[i] # names.object
        BY <1>3, <2>1, <2>2 DEF FreshInv
      <3> QED BY <1>1, <1>2, <1>3, <3>1 DEF OutOf, CompilerTarget, TypeInv, LinkerOutput, DefaultOutput
    <2>3. CASE ~Linking
      <3>1. Argument.base \in Bases /\ names.object = OutputOf(Argument.base)
        BY <2>1, <2>3, ConfFacts DEF PlanInv, InArguments, Argument, TypeInv
      <3>2. names.object \in {NoPath} \cup Products
        BY <3>1, OutputNamed DEF Inv
      <3> QED BY <1>1, <1>2, <1>3, <1>6, <3>2 DEF OutOf, CompilerTarget, TypeInv
    <2> QED BY <2>2, <2>3
  <1> QED BY <1>5, <1>6

\* So they stay as they are while nothing fails.
LEMMA LinkerStays ==
  ASSUME Inv, [Next]_vars, Good', NEW i \in DOMAIN linker
  PROVE  linker[i] \in DOMAIN disk' /\ disk'[linker[i]] = disk[linker[i]] /\ Holds(linker[i], i)
  <1> TypeInv /\ FreshInv
    BY DEF Inv
  <1>1. Good /\ Holds(linker[i], i) /\ linker[i] \in DOMAIN disk
    BY GoodBefore DEF Inv, WholeInv, MadeInv, Holds, Whole, Exists
  <1>2. linker[i] \in LinkNames /\ linker[i] # BaseDir
    BY SeqFacts, TempNames DEF TypeInv
  <1>3. ~\E step \in TempSteps : linker[i] = TempPath(step, mgr.file_index)
    <2> SUFFICES ASSUME NEW step \in TempSteps, linker[i] = TempPath(step, mgr.file_index) PROVE FALSE
      OBVIOUS
    <2>1. step = "object-file"
      BY <1>2 DEF LinkNames, Inputs, Input, Temps, TempPath
    <2>2. mgr.file_index \in Nat /\ Older(linker[i])
      BY DEF TypeInv, MgrType, FreshInv
    <2> QED BY <2>1, <2>2 DEF Older
  <1>4. pc = "wait" => linker[i] \notin {names.asm, child.job.out, child.job.dep}
    BY GoodBefore, LinkerApart
  <1>5. WaitStage => pc = "wait"
    BY DEF WaitStage
  <1> QED BY <1>1, <1>2, <1>3, <1>4, <1>5, GoodFrame

\* A child that succeeds leaves its whole product, made from its argument, or
\* from all the arguments of the linker.
LEMMA Finished ==
  ASSUME Inv, Good, ChildSucceeds, pc = "wait", child.job.out # NoPath
  PROVE  LET f == child.job.out
         IN  /\ f \in DOMAIN disk' /\ disk'[f].what \notin {"empty", "partial", "dir"}
             /\ child.job.kind \in {"compile", "preprocess", "assemble"} => disk'[f].arg = index
             /\ child.job.kind = "link" => disk'[f].args = [i \in DOMAIN linker |-> i]
  <1> TypeInv /\ WaitInv /\ ChildType /\ WholeInv /\ MadeInv /\ ~signalled
    BY DEF Inv, TypeInv, WholeInv, Good
  <1> DEFINE f == child.job.out
  <1>1. child.job.out \in WrittenNames /\ child.job.dep \in DepNames
    BY DEF ChildSucceeds, ChildType
  <1>2. f # child.job.dep
    BY SMTT(20), <1>1, PathKinds DEF WrittenNames, DepNames, ObjectNames, AsmNames, OutputNameSet, Products, Tracked, TempSteps
  <1>3. f \in DOMAIN disk' /\ disk'[f] = Product
    BY <1>2 DEF ChildSucceeds, Exits, Written, NoPath
  <1>4. /\ todo # <<>> /\ Head(todo) = child.job.kind /\ Head(todo) \in ChildSteps
        /\ child.job.inputs = InputsOf(child.job.kind)
        /\ child.job.kind \in {"compile", "preprocess"} => child.job.arg = index
    BY DEF WaitInv
  <1>5. CASE child.job.kind \in {"compile", "preprocess"}
    <2>1. Rule.arg = child.job.arg
      BY DEF Rule
    <2>2. Product.arg = child.job.arg
      BY <1>5, <2>1 DEF Product
    <2>3. disk'[f].arg = index /\ disk'[f].what \notin {"empty", "partial", "dir"}
      BY <1>3, <1>4, <1>5, <2>2, ProductFacts
    <2> QED BY <1>3, <1>5, <2>3
  <1>6. CASE child.job.kind = "assemble"
    <2>1. InArguments
      BY <1>4, <1>6, PlanHeads
    <2>2. child.job.inputs[1] = IF names.asm # NoPath THEN names.asm ELSE Input(index)
      BY <1>4, <1>6 DEF InputsOf
    <2>3. disk[child.job.inputs[1]].arg = index
      BY <1>4, <1>6, <2>1, <2>2 DEF WholeInv, MadeInv, Ahead, Holds, InArguments
    <2>4. Product.arg = index
      BY <1>6, <2>3 DEF Product
    <2>5. disk'[f].arg = index /\ disk'[f].what \notin {"empty", "partial", "dir"}
      BY <1>3, <2>4, ProductFacts
    <2> QED BY <1>3, <1>6, <2>5
  <1>7. CASE child.job.kind = "link"
    <2>1. child.job.inputs = linker
      BY <1>4, <1>7 DEF InputsOf
    <2>2. \A i \in DOMAIN linker : disk[linker[i]].arg = i
      BY DEF MadeInv, Holds
    <2>3. Product.args = [i \in DOMAIN linker |-> disk[linker[i]].arg]
      BY <1>7, <2>1 DEF Product
    <2>4. Product.args = [i \in DOMAIN linker |-> i]
      BY <2>2, <2>3
    <2> QED BY <1>3, <1>7, <2>4, ProductFacts
  <1>8. CASE child.job.kind = "program"
    BY <1>3, <1>8, ProductFacts
  <1> QED BY <1>4, <1>5, <1>6, <1>7, <1>8 DEF ChildSteps

\* The assembler comes first, or after the compiler or the object file.
LEMMA PlanAssembles ==
  ASSUME Plan, todo # <<>>, Tail(todo) # <<>>
  PROVE  /\ Head(Tail(todo)) = "assemble" => Head(todo) \in {"object-file", "compile", "preprocess"}
         /\ Head(Tail(todo)) = "add" => Head(todo) = "assemble"
         /\ Head(Tail(todo)) = "program" => Head(todo) = "link"
  <1>1. CASE todo \in LinkPlans
    BY <1>1 DEF LinkPlans
  <1>2. CASE todo \in AssemblePlans
    BY <1>2 DEF AssemblePlans
  <1>3. CASE todo \in CompilePlans \cup {<<"link">>}
    BY <1>3 DEF CompilePlans
  <1>4. CASE todo \in RunPlans
    BY <1>4 DEF RunPlans
  <1> QED BY <1>1, <1>2, <1>3, <1>4 DEF Plan

\* While nothing fails, every step keeps what has been made so far.
LEMMA MadeKept ==
  ASSUME Inv, [Next]_vars, Good'
  PROVE  MadeInv'
  <1> TypeInv /\ PlanInv /\ WaitInv /\ FreshInv /\ DirInv /\ WholeInv /\ ChildType
    BY DEF Inv, TypeInv
  <1>0. Good /\ MadeInv /\ ~signalled /\ conf' = conf
    BY GoodBefore DEF WholeInv
  <1> DEFINE Links == \A i \in DOMAIN linker : Holds(linker[i], i)
             Assembling == Ahead("assemble") => names.asm = NoPath \/ Holds(names.asm, index)
             Adding == pc = "step" /\ Ahead("add") /\ Argument.type \notin {"OBJECT", "LINKER_FLAG"} =>
                         names.object \in Temps("object-file") /\ Holds(names.object, index)
             Running == pc = "step" /\ Ahead("program") => Whole(output_file)
             Ending == pc = "wait" /\ child.state = "ended" /\ child.job.out # NoPath =>
                         /\ Whole(child.job.out)
                         /\ child.job.kind \in {"compile", "preprocess", "assemble"} =>
                              disk[child.job.out].arg = index
                         /\ child.job.kind = "link" =>
                              disk[child.job.out].args = [i \in DOMAIN linker |-> i]
  <1>a. /\ Links /\ Assembling /\ Adding /\ Running /\ Ending
        /\ Links' /\ Assembling' /\ Adding' /\ Running' /\ Ending' => MadeInv'
    BY <1>0 DEF MadeInv
  <1>b. UNCHANGED linker => Links'
    BY LinkerStays DEF Holds, Whole, Exists
  <1>c. pc' # "wait" => Ending'
    OBVIOUS
  <1>d. pc' # "step" => Adding' /\ Running'
    OBVIOUS
  <1> HIDE DEF Links, Assembling, Adding, Running, Ending
  <1>1. CASE UNCHANGED vars
    <2>1. UNCHANGED <<pc, todo, index, names, output_file, linker, disk, child, conf>>
      BY <1>1 DEF vars, tempVars, processVars, driverVars
    <2> QED BY <1>0, <2>1 DEF MadeInv, Ahead, Holds, Whole, Exists, Argument
  <1>2. CASE BeginArgument
    <2>1. /\ UNCHANGED <<linker, index>> /\ pc' = "step" /\ todo' = Steps(Argument.type)
          /\ names'.asm = NoPath /\ InArguments
      BY <1>2 DEF BeginArgument, InArguments
    <2>2. Argument.type \in ArgumentTypes /\ Argument' = Argument
      BY <1>0, <2>1, ConfFacts DEF TypeInv, InArguments, Argument
    <2>3. todo' # <<>> => Head(todo') # "program" /\ (Head(todo') = "add" => Argument.type \in {"OBJECT", "LINKER_FLAG"})
      <3>1. /\ \A type \in ArgumentTypes : LinkSteps[type] # <<>> =>
                 /\ Head(LinkSteps[type]) # "program"
                 /\ Head(LinkSteps[type]) = "add" => type \in {"OBJECT", "LINKER_FLAG"}
        BY SMTT(20) DEF LinkSteps, ArgumentTypes
      <3>2. \A type \in ArgumentTypes : AssembleSteps[type] # <<>> =>
              Head(AssembleSteps[type]) \notin {"program", "add"}
        BY SMTT(20) DEF AssembleSteps, ArgumentTypes
      <3>3. \A type \in ArgumentTypes : CompileSteps[type] # <<>> =>
              Head(CompileSteps[type]) \notin {"program", "add"}
        BY SMTT(20) DEF CompileSteps, ArgumentTypes
      <3> QED BY <2>1, <2>2, <3>1, <3>2, <3>3 DEF Steps
    <2>4. Assembling' /\ Adding' /\ Running'
      BY <2>1, <2>2, <2>3 DEF Assembling, Adding, Running, Ahead
    <2> QED BY <1>a, <1>b, <1>c, <2>1, <2>4
  <1>3. CASE EndArgument
    <2>1. UNCHANGED linker /\ pc' = "argument"
      BY <1>3 DEF EndArgument
    <2>2. Assembling'
      BY <2>1 DEF Assembling, Ahead
    <2> QED BY <1>a, <1>b, <1>c, <1>d, <2>1, <2>2
  <1>4. CASE AfterArguments
    <2>1. UNCHANGED linker /\ pc' = "step" /\ todo' = FinalSteps
      BY <1>4 DEF AfterArguments, Fail, Good
    <2>2. todo' # <<>> => Head(todo') \notin {"assemble", "add", "program"}
      BY <2>1 DEF FinalSteps
    <2>3. Assembling' /\ Adding' /\ Running'
      BY <2>1, <2>2 DEF Assembling, Adding, Running, Ahead
    <2> QED BY <1>a, <1>b, <1>c, <2>1, <2>3
  <1>5. CASE CreateTempFile
    <2>1. PICK step \in TempSteps :
           /\ At(step) /\ UNCHANGED <<index, linker>>
           /\ \/ /\ UNCHANGED <<pc, todo, names, output_file>>
                 /\ \/ disk' = Put(disk, BaseDir, Dir)
                    \/ disk' = Put(disk, TempPath(step, mgr.file_index), Empty)
                    \/ UNCHANGED disk
              \/ mgr.pending # BaseDir /\ Named(step, mgr.pending) /\ Done /\ UNCHANGED disk
      BY <1>5, CreateGood
    <2>2. pc' = "step" /\ todo # <<>> /\ Head(todo) = step
      BY <2>1 DEF At, Done
    <2>3. CASE todo' = todo
      <3>1. Assembling' /\ Adding' /\ Running'
        BY <2>2, <2>3 DEF Assembling, Adding, Running, Ahead, TempSteps
      <3> QED BY <1>a, <1>b, <1>c, <2>1, <2>2, <3>1
    <2>4. CASE Named(step, mgr.pending) /\ todo' = Tail(todo)
      <3>1. Plan
        BY <1>0, <2>1 DEF PlanInv, At
      <3>2. todo' # <<>> => Head(todo') \notin {"add", "program"} /\ (Head(todo') = "assemble" => step = "object-file")
        BY <2>2, <2>4, <3>1, PlanAssembles DEF TempSteps
      <3>3. step = "object-file" => names'.asm = NoPath
        BY <1>0, <2>1, <2>2, <2>4 DEF PlanInv, Named, At
      <3>4. Assembling' /\ Adding' /\ Running'
        BY <2>2, <3>2, <3>3 DEF Assembling, Adding, Running, Ahead
      <3> QED BY <1>a, <1>b, <1>c, <2>1, <2>2, <3>4
    <2> QED BY <2>1, <2>3, <2>4 DEF Done
  <1>6. CASE AddLinkerArgument
    <2>1. /\ UNCHANGED <<disk, names, index>> /\ At("add") /\ Done
          /\ linker' = Append(linker, IF Argument.type \in {"OBJECT", "LINKER_FLAG"} THEN Input(index) ELSE names.object)
      BY <1>6 DEF AddLinkerArgument, tempVars
    <2>2. todo' = <<>> /\ pc' = "step" /\ InArguments /\ Linking
      BY <1>0, <2>1, PlanHeads, Tails DEF At, Done
    <2>3. Len(linker) = index - 1 /\ index \in Nat /\ linker \in Seq(LinkNames) /\ linker' \in Seq(LinkNames)
      <3>1. index \in Nat
        BY <1>0, ConfFacts DEF TypeInv
      <3>2. linker \in Seq(LinkNames) /\ linker' \in Seq(LinkNames)
        BY TypeKept, <1>0 DEF TypeInv
      <3>3. Good /\ todo # <<>> /\ pc = "step"
        BY <1>0, <2>1 DEF At, Good
      <3> QED BY <2>2, <3>1, <3>2, <3>3 DEF Inv, CountInv
    <2>4. Holds(IF Argument.type \in {"OBJECT", "LINKER_FLAG"} THEN Input(index) ELSE names.object, index)
      BY <1>a, <2>1, <2>2 DEF WholeInv, Adding, Ahead, At, InArguments
    <2>5. \A i \in DOMAIN linker' : Holds(linker'[i], i)
      <3> SUFFICES ASSUME NEW i \in DOMAIN linker' PROVE Holds(linker'[i], i)
        OBVIOUS
      <3>1. CASE i \in DOMAIN linker
        <4>1. linker'[i] = linker[i]
          BY SMTT(20), <2>1, <2>3, <3>1
        <4> QED BY <1>a, <3>1, <4>1 DEF Links
      <3>2. CASE i \notin DOMAIN linker
        <4>1. i = index /\ linker'[i] = IF Argument.type \in {"OBJECT", "LINKER_FLAG"} THEN Input(index) ELSE names.object
          BY <2>1, <2>3, <3>2
        <4> QED BY <2>4, <4>1
      <3> QED BY <3>1, <3>2
    <2>6. Links'
      BY <2>1, <2>5 DEF Links, Holds, Whole, Exists
    <2>7. Assembling' /\ Adding' /\ Running'
      BY <2>2 DEF Assembling, Adding, Running, Ahead
    <2> QED BY <1>a, <1>c, <2>2, <2>6, <2>7
  <1>7. CASE StartChild
    <2>1. PICK step \in ChildSteps : Spawn(JobOf(step)) /\ UNCHANGED <<disk, todo, index, names, linker>> /\ pc' = "wait" /\ pc = "step"
      BY <1>7 DEF StartChild, Fail, Good, At
    <2>2. child'.state = "forked"
      BY <2>1, ChildEffects
    <2>3. Ending'
      BY <2>2 DEF Ending
    <2>4. Assembling'
      BY <1>a, <2>1 DEF Assembling, Ahead, Holds, Whole, Exists
    <2> QED BY <1>a, <1>b, <1>d, <2>1, <2>3, <2>4
  <1>8. CASE WaitStage
    <2>1. /\ pc = "wait" /\ pc' = "step" /\ child.state = "ended"
          /\ todo # <<>> /\ todo' = Tail(todo) /\ Head(todo) \in ChildSteps \ {"program"}
          /\ disk' = IF Head(todo) = "assemble" THEN Without(disk, {names.asm}) ELSE disk
          /\ UNCHANGED <<index, names, output_file, linker>>
      BY <1>8, WaitGood
    <2>2. Plan /\ child.job.kind = Head(todo) /\ child.job.out = OutOf(Head(todo))
      BY <1>0, <2>1 DEF PlanInv, WaitInv
    <2>3. Assembling'
      <3> SUFFICES ASSUME todo' # <<>>, Head(todo') = "assemble", names.asm # NoPath
                   PROVE  Holds(names.asm, index) /\ UNCHANGED disk
        BY <2>1 DEF Assembling, Ahead, Holds, Whole, Exists
      <3>1. Head(todo) \in {"compile", "preprocess"}
        BY <2>1, <2>2, PlanAssembles DEF ChildSteps
      <3>2. child.job.out = names.asm
        BY <2>2, <3>1 DEF OutOf, CompilerTarget
      <3> QED BY <1>a, <2>1, <2>2, <3>1, <3>2 DEF Ending, Holds
    <2>4. Adding'
      <3> SUFFICES ASSUME todo' # <<>>, Head(todo') = "add"
                   PROVE  (names.object \in Temps("object-file") /\ Holds(names.object, index))'
        BY DEF Adding, Ahead
      <3>1. Head(todo) = "assemble"
        BY <2>1, <2>2, PlanAssembles
      <3>2. InArguments /\ Linking
        <4>1. InArguments
          BY <1>0, <2>1, <3>1, PlanHeads
        <4>2. todo \in AssemblePlans /\ Head(todo) = "assemble" => Tail(todo) = <<>>
          <5>1. todo \in AssemblePlans /\ Head(todo) = "assemble" => todo = <<"assemble">>
            BY DEF AssemblePlans
          <5>2. Tail(<<"assemble">>) = <<>>
            BY Tails
          <5> QED BY <5>1, <5>2
        <4>3. todo \in CompilePlans => Head(todo) # "assemble"
          BY DEF CompilePlans
        <4> QED BY <2>1, <2>2, <3>1, <4>1, <4>2, <4>3 DEF Plan
      <3>3. names.object \in Temps("object-file")
        BY <2>1, <3>1, <3>2 DEF FreshInv
      <3>4. names.object # NoPath /\ names.object # names.asm
        BY <3>3, PathKinds DEF TypeInv, AsmNames, Tracked, TempSteps
      <3>5. Holds(names.object, index)
        BY <1>a, <2>1, <2>2, <3>1, <3>4 DEF Ending, Holds, OutOf
      <3> QED BY <2>1, <3>1, <3>3, <3>4, <3>5 DEF Holds, Whole, Exists, Without, Restrict
    <2>5. Running'
      <3> SUFFICES ASSUME todo' # <<>>, Head(todo') = "program"
                   PROVE  Whole(output_file) /\ UNCHANGED <<disk, output_file>>
        BY DEF Running, Ahead, Whole, Exists
      <3>1. Head(todo) = "link"
        BY <2>1, <2>2, PlanAssembles
      <3>2. conf.stage = "RUN"
        BY <1>0, <2>1, <3>1, PlanHeads, Tails DEF Linking, Inv, PlanInv
      <3>3. child.job.out = output_file /\ output_file # NoPath
        BY <1>0, <2>1, <2>2, <3>1, <3>2 DEF PlanInv, OutOf, LinkerOutput
      <3> QED BY <1>a, <2>1, <3>1, <3>3 DEF Ending
    <2> QED BY <1>a, <1>b, <1>c, <2>1, <2>3, <2>4, <2>5
  <1>9. CASE ChildStep
    <2>1. UNCHANGED <<index, names, output_file, linker, pc, todo>> /\ child.state # "none"
      BY <1>9 DEF ChildStep, ChildStarts, ChildInterrupted, ChildRemoves, ChildOpens, ChildFails, ChildSucceeds
    <2>2. pc = "wait" /\ child.job.out = OutOf(Head(todo)) /\ child.job.kind = Head(todo)
      BY <1>0, <2>1 DEF WaitInv
    <2>3. child.job.dep \in DepNames
      BY <2>1 DEF ChildType
    <2>4. Assembling'
      <3> SUFFICES ASSUME Ahead("assemble"), names.asm # NoPath, Holds(names.asm, index)
                   PROVE  names.asm \in DOMAIN disk' /\ disk'[names.asm] = disk[names.asm]
        BY <1>a, <2>1 DEF Assembling, Ahead, Holds, Whole, Exists
      <3>1. child.job.out = names.object
        BY <2>2 DEF OutOf, Ahead
      <3>2. names.asm \in Temps("asm-file") /\ names.object \in ObjectNames
        BY DEF TypeInv, AsmNames
      <3>3. names.asm \notin {child.job.out, child.job.dep}
        BY <2>3, <3>1, <3>2, PathKinds DEF DepNames, ObjectNames, Tracked, TempSteps
      <3>4. names.asm # BaseDir /\ names.asm \in DOMAIN disk
        BY <3>2, PathKinds DEF Holds, Whole, Exists, TempSteps
      <3>5. ~WaitStage /\ ~\E step \in TempSteps : At(step)
        BY <1>9, <2>1, <2>2 DEF At, WaitStage, Done, Fail
      <3> QED BY <3>3, <3>4, <3>5, GoodFrame
    <2>5. Ending'
      <3>1. CASE ChildSucceeds
        <4>1. child'.job = child.job
          BY <3>1, ChildEffects DEF ChildSucceeds
        <4> QED BY <1>0, <2>1, <2>2, <3>1, <4>1, Finished DEF Ending, Whole, Exists
      <3>2. CASE ChildStarts \/ ChildOpens
        BY <3>2, ChildEffects DEF Ending
      <3>3. ~ChildInterrupted /\ ~ChildRemoves /\ ~ChildFails
        BY GoodChild
      <3> QED BY <1>9, <3>1, <3>2, <3>3 DEF ChildStep
    <2> QED BY <1>a, <1>b, <1>d, <2>1, <2>2, <2>4, <2>5
  <1> QED BY <1>1, <1>2, <1>3, <1>4, <1>5, <1>6, <1>7, <1>8, <1>9, GoodBefore

\* While nothing fails, everything made so far is there and whole.
LEMMA WholeKept ==
  ASSUME Inv, [Next]_vars
  PROVE  WholeInv'
  BY InputsKept, MadeKept DEF WholeInv

-----------------------------------------------------------------------------
(* Failures and the exit status *)

\* Every step keeps that a failure is on its way to the exit status.
LEMMA BrokenKept ==
  ASSUME Inv, [Next]_vars
  PROVE  BrokenInv'
  <1> TypeInv /\ WaitInv /\ DirInv /\ BrokenInv /\ ChildType
    BY DEF Inv, TypeInv
  <1>1. CASE UNCHANGED vars
    BY <1>1 DEF vars, driverVars, processVars, BrokenInv
  <1>2. CASE pc \in {"argument", "step"} /\ UNCHANGED <<signalled, broken>> /\ status' \in {status, ExitSuccess}
    <2>1. ~signalled /\ ~broken
      BY <1>2, Calm DEF BrokenInv
    <2> QED BY <1>2, <2>1 DEF BrokenInv
  <1>3. CASE BeginArgument \/ EndArgument \/ CreateTempFile \/ AddLinkerArgument \/ StartChild \/ AfterArguments \/ Return
    BY <1>2, <1>3 DEF BeginArgument, EndArgument, CreateTempFile, AddLinkerArgument, StartChild, AfterArguments, Return, At
  <1>4. CASE WaitStage
    <2>1. ~signalled /\ UNCHANGED <<signalled, broken, status>> /\ pc = "wait"
      BY <1>4 DEF WaitStage, DirInv
    <2>2. pc' = "failed" \/ child.end = ExitSuccess
      BY <1>4 DEF WaitStage, Fail, Succeeded
    <2> QED BY <2>1, <2>2 DEF BrokenInv, ExitSuccess, ExitFailure, Signalled
  <1>5. CASE WaitProgram
    <2>1. ~signalled /\ UNCHANGED <<signalled, broken>> /\ pc = "wait" /\ child.job.kind = "program"
      BY <1>5 DEF WaitProgram, DirInv, WaitInv
    <2>2. ~broken
      BY <2>1 DEF BrokenInv
    <2>3. child.end \in {ExitSuccess, ExitFailure, Signalled} \/ UNCHANGED status
      BY <1>5 DEF WaitProgram, Wait, Ended, ChildType
    <2>4. status' \in {status, ExitSuccess, ExitFailure}
      BY <1>5, <2>3 DEF WaitProgram
    <2> QED BY <2>1, <2>2, <2>4 DEF BrokenInv
  <1>6. CASE ReturnFailure
    BY <1>6 DEF ReturnFailure, BrokenInv
  <1>7. CASE RemoveTemps \/ AtExit
    BY <1>7 DEF RemoveTemps, AtExit, BrokenInv
  <1>8. CASE Signal
    BY <1>8 DEF Signal, BrokenInv
  <1>9. CASE ChildStep
    <2>1. /\ UNCHANGED <<signalled, pc, status>> /\ child.state \notin {"none", "ended"}
          /\ broken' = (broken \/ (child'.end \in {ExitFailure, Signalled} /\ child.job.kind # "program"))
      BY <1>9 DEF ChildStep, ChildStarts, ChildInterrupted, ChildRemoves, ChildOpens, ChildFails, ChildSucceeds
    <2>2. child'.job = child.job /\ (child.end = Uninitialized \/ child'.end = child.end)
      BY <1>9, <2>1, ChildEffects DEF ChildStep, ChildInterrupted, ChildFails, ChildSucceeds, ChildType, ChildStarts, ChildOpens
    <2>3. CASE signalled
      BY <2>1, <2>3 DEF BrokenInv
    <2>4. CASE ~signalled
      <3>1. pc = "wait" /\ (broken => child.end \in {ExitFailure, Signalled} /\ child.job.kind # "program")
        BY <2>1, <2>4 DEF BrokenInv, WaitInv
      <3>2. broken => child'.end = child.end
        BY <2>2, <3>1 DEF Uninitialized, ExitFailure, Signalled
      <3> QED BY <2>1, <2>2, <2>4, <3>1, <3>2 DEF BrokenInv
    <2> QED BY <2>3, <2>4
  <1> QED BY <1>1, <1>3, <1>4, <1>5, <1>6, <1>7, <1>8, <1>9 DEF Next, DriverStep

-----------------------------------------------------------------------------
(* What exit status 0 means *)

\* The names of the outputs depend on the command line only.
LEMMA SameOutputs ==
  ASSUME UNCHANGED <<conf, output_file>>
  PROVE  /\ \A b : (OutputOf(b))' = OutputOf(b)
         /\ \A i : (Compiled(i))' <=> Compiled(i)
  BY DEF Compiled, Steps, OutputOf, SavedName

\* Outputs that no step touches stay made.
LEMMA UpToStays ==
  ASSUME UNCHANGED <<conf, output_file>>, NEW n \in Nat, NEW g, MadeUpTo(n, g),
         \A i \in 1 .. n : LET f == OutputOf(conf.args[i].base)
                           IN  Compiled(i) /\ f # g /\ f \in DOMAIN disk =>
                                 f \in DOMAIN disk' /\ disk'[f] = disk[f]
  PROVE  (MadeUpTo(n, g))'
  <1> SUFFICES ASSUME NEW i \in 1 .. n, Compiled(i), OutputOf(conf.args[i].base) # g
               PROVE  \E j \in i .. n : (MadeOfLast(i, j, n))'
    BY SameOutputs DEF MadeUpTo
  <1>1. PICK j \in i .. n : MadeOfLast(i, j, n)
    BY DEF MadeUpTo
  <1>2. (MadeOfLast(i, j, n))'
    BY <1>1, SameOutputs DEF MadeOfLast, Whole, Exists
  <1> QED BY <1>2

\* Leaving out a file, or an argument that makes none, asks for less.
LEMMA UpToWeaker ==
  ASSUME NEW n \in Nat, NEW g, MadeUpTo(n, NoPath)
  PROVE  /\ MadeUpTo(n, g)
         /\ ~Compiled(n + 1) => MadeUpTo(n + 1, NoPath)
  <1>1. MadeUpTo(n, g)
    BY DEF MadeUpTo, Compiled
  <1>2. ASSUME ~Compiled(n + 1), NEW i \in 1 .. n + 1, Compiled(i)
        PROVE  \E j \in i .. n + 1 : MadeOfLast(i, j, n + 1)
    <2>1. i \in 1 .. n /\ OutputOf(conf.args[i].base) # NoPath
      BY <1>2 DEF Compiled
    <2>2. PICK j \in i .. n : MadeOfLast(i, j, n)
      BY <1>2, <2>1 DEF MadeUpTo
    <2>3. \A k \in j + 1 .. n + 1 : k \in j + 1 .. n \/ k = n + 1
      BY <2>1, <2>2
    <2>4. MadeOfLast(i, j, n + 1) /\ j \in i .. n + 1
      BY SMTT(20), <1>2, <2>1, <2>2, <2>3 DEF MadeOfLast
    <2> QED BY <2>4
  <1> QED BY <1>1, <1>2 DEF MadeUpTo

\* The argument that has just been made is the last to map to its name.
LEMMA UpToNext ==
  ASSUME UNCHANGED <<conf, output_file>>, NEW n \in Nat, n # 0,
         NEW g, g = OutputOf(conf.args[n].base), Steps(conf.args[n].type) # <<>>,
         (MadeUpTo(n - 1, g))', (Compiled(n) => Holds(g, n))'
  PROVE  (MadeUpTo(n, NoPath))'
  <1>0. /\ \A b : (OutputOf(b))' = OutputOf(b)
        /\ \A i : (Compiled(i))' <=> Compiled(i)
    BY SameOutputs
  <1> SUFFICES ASSUME NEW i \in 1 .. n, Compiled(i)
               PROVE  \E j \in i .. n : (MadeOfLast(i, j, n))'
    BY <1>0 DEF MadeUpTo
  <1>1. CASE OutputOf(conf.args[i].base) = g
    <2>1. Compiled(n)
      BY <1>1 DEF Compiled
    <2>2. (MadeOfLast(i, n, n))'
      BY SMTT(20), <1>0, <1>1, <2>1 DEF MadeOfLast, Holds
    <2> QED BY SMTT(20), <2>2
  <1>2. CASE OutputOf(conf.args[i].base) # g
    <2>1. i \in 1 .. n - 1
      BY <1>2
    <2>2. PICK j \in i .. n - 1 : (MadeOfLast(i, j, n - 1))'
      BY <1>0, <1>2, <2>1 DEF MadeUpTo
    <2>3. \A k \in j + 1 .. n : k \in j + 1 .. n - 1 \/ k = n
      BY <2>2
    <2>4. j \in i .. n
      BY <2>2
    <2>5. (OutputOf(conf.args[i].base))' # (OutputOf(conf.args[n].base))'
      BY <1>0, <1>2
    <2>6. (\A k \in j + 1 .. n : Compiled(k) => OutputOf(conf.args[k].base) # OutputOf(conf.args[i].base))'
      <3> SUFFICES ASSUME NEW k \in j + 1 .. n, (Compiled(k))'
                   PROVE  (OutputOf(conf.args[k].base))' # (OutputOf(conf.args[i].base))'
        OBVIOUS
      <3>1. CASE k \in j + 1 .. n - 1
        BY <2>2, <3>1 DEF MadeOfLast
      <3>2. CASE k = n
        BY <2>5, <3>2
      <3> QED BY <2>3, <3>1, <3>2
    <2>7. (MadeOfLast(i, j, n))'
      BY <2>2, <2>6 DEF MadeOfLast
    <2> QED BY <2>4, <2>7
  <1> QED BY <1>1, <1>2

\* While nothing fails, only the output of the argument in the making changes.
LEMMA OutputsUntouched ==
  ASSUME Inv, [Next]_vars, Good', ~Linking, NEW i \in DOMAIN conf.args, Compiled(i),
         OutputOf(conf.args[i].base) \in DOMAIN disk,
         pc = "wait" => OutputOf(conf.args[i].base) # names.object
  PROVE  LET f == OutputOf(conf.args[i].base)
         IN  f \in DOMAIN disk' /\ disk'[f] = disk[f]
  <1> DEFINE f == OutputOf(conf.args[i].base)
  <1> TypeInv /\ WaitInv /\ ChildType
    BY DEF Inv, TypeInv
  <1>1. f \in Products
    BY OutputNamed, ConfFacts DEF Inv, TypeInv, Compiled
  <1>2. f \notin Tracked \cup DepFiles \cup {NoPath, DefaultOutput}
    BY <1>1, PathKinds
  <1>3. f # BaseDir /\ f # names.asm /\ \A step \in TempSteps : f # TempPath(step, mgr.file_index)
    BY <1>2 DEF Tracked, Temps, TempSteps, TypeInv, MgrType, AsmNames
  <1>4. pc = "wait" => f \notin {child.job.out, child.job.dep}
    <2> SUFFICES ASSUME pc = "wait" PROVE f \notin {child.job.out, child.job.dep}
      OBVIOUS
    <2>1. ~signalled /\ todo # <<>> /\ Head(todo) \in ChildSteps /\ child.job.out = OutOf(Head(todo)) /\ child.job.dep \in DepNames
      BY GoodBefore DEF WaitInv, ChildType
    <2>2. Head(todo) # "link"
      BY <2>1, PlanHeads
    <2> QED BY <1>2, <1>3, <2>1, <2>2 DEF OutOf, CompilerTarget, DepNames
  <1> QED BY <1>3, <1>4, GoodFrame

\* The name of the output, and what is left after a step that makes a file.
LEMMA NotLinking ==
  ASSUME Inv, [Next]_vars, Good', ~Linking
  PROVE  /\ UNCHANGED output_file
         /\ CreateTempFile => UNCHANGED names.object /\ todo' # <<>> /\ todo # <<>>
  <1>1. CASE CreateTempFile
    <2>1. PICK step \in TempSteps :
            /\ At(step)
            /\ UNCHANGED <<pc, todo, names, output_file>> \/ (Named(step, mgr.pending) /\ Done)
      BY <1>1, CreateGood
    <2>2. step = "asm-file" /\ todo # <<>> /\ Head(todo) = step
      BY <2>1, GoodBefore, PlanHeads DEF At, TempSteps, Linking
    <2>3. Tail(todo) # <<>>
      <3>1. Plan /\ InArguments
        BY <2>1, <2>2, GoodBefore, PlanHeads DEF At, Inv, PlanInv
      <3>2. todo \in AssemblePlans \cup CompilePlans
        BY <2>2, <3>1 DEF Plan
      <3>3. todo \in {<<"asm-file", "compile", "assemble">>, <<"asm-file", "preprocess", "assemble">>}
        BY <2>2, <3>2 DEF AssemblePlans, CompilePlans
      <3>4. /\ Tail(<<"asm-file", "compile", "assemble">>) # <<>>
            /\ Tail(<<"asm-file", "preprocess", "assemble">>) # <<>>
        BY Tails
      <3> QED BY <3>3, <3>4
    <2> QED BY <2>1, <2>2, <2>3 DEF Named, Done
  <1>2. CASE ~CreateTempFile
    <2>1. \/ UNCHANGED vars \/ BeginArgument \/ EndArgument \/ AddLinkerArgument
          \/ StartChild \/ WaitStage \/ AfterArguments \/ ChildStep
      BY <1>2, GoodBefore
    <2> QED
      BY <1>2, <2>1 DEF vars, driverVars, BeginArgument, EndArgument, AddLinkerArgument, StartChild, WaitStage, AfterArguments, ChildStep
  <1> QED BY <1>1, <1>2

\* A step that does not fail leaves the outputs that were made alone, but for the
\* one the argument at hand is making.
LEMMA UpToKept ==
  ASSUME Inv, [Next]_vars, Good', ~Linking, UNCHANGED <<conf, output_file>>,
         NEW n \in Nat, n <= Len(conf.args), NEW g, g = names.object, MadeUpTo(n, g)
  PROVE  (MadeUpTo(n, g))'
  <1>1. Len(conf.args) \in Nat /\ DOMAIN conf.args = 1 .. Len(conf.args)
    BY ConfFacts DEF Inv, TypeInv
  <1>2. ASSUME NEW i \in 1 .. n, Compiled(i), OutputOf(conf.args[i].base) # g,
               OutputOf(conf.args[i].base) \in DOMAIN disk
        PROVE  LET f == OutputOf(conf.args[i].base)
               IN  f \in DOMAIN disk' /\ disk'[f] = disk[f]
    <2>1. i \in DOMAIN conf.args
      BY <1>1
    <2> QED BY <1>2, <2>1, OutputsUntouched
  <1> QED BY <1>2, UpToStays

\* How far the outputs are made.
Progress ==
  IF pc = "argument" \/ ~InArguments THEN MadeUpTo(index - 1, NoPath)
  ELSE IF todo = <<>> THEN MadeUpTo(index, NoPath)
  ELSE MadeUpTo(index - 1, names.object)

\* While nothing fails, every step keeps the outputs of the arguments handled.
LEMMA ProgressKept ==
  ASSUME Inv, [Next]_vars, Good'
  PROVE  Progress'
  <1> TypeInv /\ PlanInv /\ WaitInv
    BY DEF Inv
  <1>0. Good /\ ~signalled /\ conf' = conf /\ Progress
    BY GoodBefore DEF Inv, BuiltInv, Progress, Good
  <1>1. CASE Linking
    <2>1. \A n, f : (MadeUpTo(n, f))'
      BY <1>0, <1>1 DEF MadeUpTo, Compiled, OutputOf, Linking
    <2> QED BY <2>1 DEF Progress
  <1> SUFFICES ASSUME ~Linking PROVE Progress'
    BY <1>1
  <1>2. UNCHANGED <<conf, output_file>> /\ index \in Nat /\ index # 0 /\ index - 1 \in Nat /\ index - 1 <= Len(conf.args) /\ Len(conf.args) \in Nat
        /\ DOMAIN conf.args = 1 .. Len(conf.args)
    BY <1>0, NotLinking, ConfFacts DEF TypeInv
  <1>3. ASSUME UNCHANGED disk, NEW n \in Nat, NEW g, MadeUpTo(n, g)
        PROVE  (MadeUpTo(n, g))'
    BY <1>2, <1>3, UpToStays
  <1>4. ASSUME todo # <<>>, pc \in {"step", "wait"}, InArguments, todo' # <<>>, UNCHANGED index, names'.object = names.object,
               pc' \in {"step", "wait"}
        PROVE  Progress'
    <2>1. MadeUpTo(index - 1, names.object)
      BY <1>0, <1>4 DEF Progress
    <2>2. (MadeUpTo(index - 1, names.object))'
      <3>1. PICK n, g : n \in Nat /\ n = index - 1 /\ g = names.object
        BY <1>2
      <3>2. (MadeUpTo(n, g))'
        BY <1>2, <2>1, <3>1, UpToKept
      <3> QED BY <1>4, <3>1, <3>2
    <2> QED BY <1>2, <1>4, <2>2 DEF Progress, InArguments
  <1>5. CASE UNCHANGED vars
    <2>1. UNCHANGED <<disk, pc, todo, index, names>>
      BY <1>5 DEF vars, tempVars, driverVars
    <2> QED BY <1>0, <1>2, <1>3, <2>1 DEF Progress, InArguments
  <1>6. CASE BeginArgument
    <2>1. /\ UNCHANGED <<disk, index>> /\ pc = "argument" /\ pc' = "step" /\ InArguments
          /\ todo' = Steps(Argument.type) /\ names'.object = OutputOf(Argument.base)
      BY <1>6 DEF BeginArgument, InArguments, tempVars
    <2>2. MadeUpTo(index - 1, NoPath) /\ InArguments'
      BY <1>0, <2>1 DEF Progress, InArguments
    <2>3. CASE todo' = <<>>
      <3>1. ~Compiled(index) /\ (index - 1) + 1 = index
        BY <1>2, <2>1, <2>3 DEF Compiled, Argument
      <3>2. MadeUpTo(index, NoPath)
        BY <1>2, <2>2, <3>1, UpToWeaker
      <3>3. (MadeUpTo(index, NoPath))'
        BY <1>2, <1>3, <2>1, <3>2
      <3> QED BY <2>1, <2>2, <2>3, <3>3 DEF Progress
    <2>4. CASE todo' # <<>>
      <3>1. MadeUpTo(index - 1, names'.object)
        BY <1>2, <2>2, UpToWeaker
      <3>2. (MadeUpTo(index - 1, names.object))'
        BY <1>2, <1>3, <2>1, <3>1
      <3> QED BY <2>1, <2>2, <2>4, <3>2 DEF Progress
    <2> QED BY <2>3, <2>4
  <1>7. CASE EndArgument
    <2>1. UNCHANGED disk /\ index' = index + 1 /\ pc' = "argument" /\ pc = "step" /\ todo = <<>> /\ InArguments
      BY <1>7 DEF EndArgument, InArguments, tempVars
    <2>2. (MadeUpTo(index - 1, NoPath))'
      <3>1. MadeUpTo(index, NoPath) /\ index' - 1 = index
        BY <1>0, <1>2, <2>1 DEF Progress
      <3> QED BY <1>2, <1>3, <2>1, <3>1
    <2> QED BY <2>1, <2>2 DEF Progress
  <1>8. CASE AfterArguments
    <2>1. UNCHANGED <<disk, index>> /\ pc = "argument" /\ ~InArguments
      BY <1>8 DEF AfterArguments, InArguments, tempVars
    <2>2. (MadeUpTo(index - 1, NoPath))' /\ ~InArguments'
      BY <1>0, <1>2, <1>3, <2>1 DEF Progress, InArguments
    <2> QED BY <2>2 DEF Progress
  <1>9. CASE CreateTempFile
    <2>1. pc = "step" /\ pc' = "step" /\ UNCHANGED index
      BY <1>9, CreateGood DEF At, Done
    <2>2. todo # <<>> /\ todo' # <<>> /\ names'.object = names.object
      BY <1>9, NotLinking
    <2>3. InArguments
      BY <1>0, <2>1, <2>2, PlanHeads DEF PlanInv, Plan, Linking
    <2> QED BY <1>4, <2>1, <2>2, <2>3
  <1>10. CASE AddLinkerArgument
    BY <1>0, <1>10, PlanHeads DEF AddLinkerArgument, At
  <1>11. CASE StartChild
    <2>1. pc = "step" /\ pc' = "wait" /\ UNCHANGED <<index, names, todo>> /\ todo # <<>>
      BY <1>11 DEF StartChild, At, Fail, Good
    <2>2. InArguments
      BY <1>0, <2>1, PlanHeads DEF PlanInv, Plan, Linking
    <2> QED BY <1>4, <2>1, <2>2
  <1>12. CASE ChildStep
    <2>1. UNCHANGED <<index, names, todo, pc>> /\ child.state # "none"
      BY <1>12 DEF ChildStep, ChildStarts, ChildInterrupted, ChildRemoves, ChildOpens, ChildFails, ChildSucceeds
    <2>2. pc = "wait" /\ todo # <<>>
      BY <1>0, <2>1 DEF WaitInv
    <2>3. InArguments
      BY <1>0, <2>2, PlanHeads DEF PlanInv, Plan, Linking
    <2> QED BY <1>4, <2>1, <2>2, <2>3
  <1>13. CASE WaitStage
    <2>1. /\ pc = "wait" /\ pc' = "step" /\ child.state = "ended"
          /\ todo # <<>> /\ todo' = Tail(todo) /\ Head(todo) \in ChildSteps \ {"program"}
          /\ UNCHANGED <<index, names, linker>>
      BY <1>13, WaitGood
    <2>2. InArguments /\ Head(todo) \in {"compile", "preprocess", "assemble"}
      BY <1>0, <2>1, PlanHeads DEF PlanInv, Plan, Linking, ChildSteps
    <2>3. CASE todo' # <<>>
      BY <1>4, <2>1, <2>2, <2>3
    <2>4. CASE todo' = <<>>
      <3>1. MadeUpTo(index - 1, names.object) /\ names.object = OutputOf(Argument.base)
        BY <1>0, <2>1, <2>2 DEF Progress, PlanInv
      <3>2. (MadeUpTo(index - 1, names.object))'
        <4>1. PICK n, g : n \in Nat /\ n = index - 1 /\ g = names.object
          BY <1>2
        <4>2. (MadeUpTo(n, g))'
          BY <1>2, <3>1, <4>1, UpToKept
        <4> QED BY <2>1, <4>1, <4>2
      <3>3. child.job.out = names.object /\ child.job.kind = Head(todo)
        <4>1. conf.stage = "ASSEMBLE" => Head(todo) = "assemble"
          <5>1. conf.stage = "ASSEMBLE" => todo \in AssemblePlans
            BY <1>0, <2>1, <2>2 DEF PlanInv, Plan
          <5>2. todo \in AssemblePlans /\ Head(todo) \in {"compile", "preprocess"} =>
                  todo \in {<<"compile", "assemble">>, <<"preprocess", "assemble">>}
            BY DEF AssemblePlans
          <5>3. Tail(<<"compile", "assemble">>) # <<>> /\ Tail(<<"preprocess", "assemble">>) # <<>>
            BY Tails
          <5> QED BY <2>1, <2>2, <2>4, <5>1, <5>2, <5>3
        <4>2. conf.stage # "ASSEMBLE" => names.asm = NoPath
          BY <1>0, <2>1, <2>2 DEF PlanInv
        <4> QED BY <1>0, <2>1, <2>2, <4>1, <4>2 DEF WaitInv, OutOf, CompilerTarget
      <3>4. Compiled(index) => Holds(names.object, index)
        BY <1>0, <2>1, <2>2, <3>1, <3>3 DEF Inv, WholeInv, MadeInv, Holds, Compiled, Argument
      <3>5. names.object # NoPath => names.object # names.asm
        BY PathKinds DEF TypeInv, ObjectNames, AsmNames, Tracked, TempSteps
      <3>6. (Compiled(index) => Holds(names.object, index))'
        <4>1. disk' = IF Head(todo) = "assemble" THEN Without(disk, {names.asm}) ELSE disk
          BY <1>13, WaitGood
        <4>2. (Compiled(index))' => Compiled(index) /\ names.object # NoPath
          BY <1>2, <2>1, <3>1, SameOutputs DEF Compiled, Argument
        <4> QED BY <2>1, <3>4, <3>5, <4>1, <4>2 DEF Holds, Whole, Exists, Without, Restrict
      <3>7. (MadeUpTo(index, NoPath))'
        <4>1. Steps(conf.args[index].type) # <<>>
          BY <2>1, <2>2 DEF Inv, StepsInv, Argument
        <4>2. names.object = OutputOf(conf.args[index].base)
          BY <3>1 DEF Argument
        <4> QED BY <1>2, <2>1, <3>2, <3>6, <4>1, <4>2, UpToNext
      <3> QED BY <1>2, <2>1, <2>2, <2>4, <3>7 DEF Progress, InArguments
    <2> QED BY <2>3, <2>4
  <1> QED BY <1>5, <1>6, <1>7, <1>8, <1>9, <1>10, <1>11, <1>12, <1>13, GoodBefore

\* The linker's output is complete once the linker has succeeded.
LEMMA LinkDoneKept ==
  ASSUME Inv, [Next]_vars, Good', pc' = "step", todo' = <<>>, ~InArguments'
  PROVE  LinkDone'
  <1> TypeInv /\ PlanInv /\ WaitInv /\ CountInv
    BY DEF Inv
  <1>0. Good /\ ~signalled /\ conf' = conf
    BY GoodBefore
  <1> SUFFICES ASSUME conf.stage = "LINK" PROVE LinkDone'
    BY <1>0 DEF LinkDone
  <1>1. CASE UNCHANGED vars
    <2>1. UNCHANGED <<pc, todo, index, disk, output_file>>
      BY <1>1 DEF vars, tempVars, driverVars
    <2>2. LinkDone
      BY <1>0, <2>1 DEF Inv, BuiltInv, InArguments
    <2> QED BY <1>0, <2>1, <2>2 DEF LinkDone, LinkerOutput, Whole, Exists
  <1>2. CASE BeginArgument
    BY <1>0, <1>2 DEF BeginArgument, InArguments
  <1>3. ~EndArgument /\ ~StartChild /\ ~ChildStep
    <2>1. ~EndArgument /\ ~StartChild
      BY DEF EndArgument, StartChild, Fail
    <2>2. ~ChildStep
      BY <1>0 DEF ChildStep, ChildStarts, ChildInterrupted, ChildRemoves, ChildOpens, ChildFails, ChildSucceeds, WaitInv
    <2> QED BY <2>1, <2>2
  <1>4. CASE AfterArguments
    BY <1>4 DEF AfterArguments, Fail, FinalSteps
  <1>5. CASE CreateTempFile
    <2>1. PICK step \in TempSteps : At(step) /\ UNCHANGED index /\ (UNCHANGED todo \/ todo' = Tail(todo))
      BY <1>5, CreateGood DEF Done
    <2>2. ~InArguments /\ todo # <<>> /\ Head(todo) = step
      BY <1>0, <2>1 DEF InArguments, At
    <2> QED BY <1>0, <2>1, <2>2, PlanHeads DEF At, TempSteps
  <1>6. CASE AddLinkerArgument
    BY <1>0, <1>6, PlanHeads DEF AddLinkerArgument, At, InArguments
  <1>7. CASE WaitStage
    <2>1. /\ pc = "wait" /\ child.state = "ended" /\ todo # <<>> /\ Head(todo) \in ChildSteps \ {"program"}
          /\ disk' = IF Head(todo) = "assemble" THEN Without(disk, {names.asm}) ELSE disk
          /\ UNCHANGED <<index, names, output_file, linker>>
      BY <1>7, WaitGood
    <2>2. ~InArguments
      BY <1>0, <2>1 DEF InArguments
    <2>3. Head(todo) = "link" /\ child.job.kind = "link" /\ child.job.out = LinkerOutput
      BY <1>0, <2>1, <2>2, PlanHeads DEF ChildSteps, WaitInv, OutOf
    <2>4. LinkerOutput # NoPath
      BY PathKinds DEF LinkerOutput, DefaultOutput
    <2>5. Whole(LinkerOutput) /\ disk[LinkerOutput].args = [i \in DOMAIN linker |-> i]
      BY <1>0, <2>1, <2>3, <2>4 DEF Inv, WholeInv, MadeInv
    <2>6. DOMAIN linker = DOMAIN conf.args
      <3>1. Len(linker) = index - 1 /\ linker \in Seq(LinkNames) /\ DOMAIN linker = 1 .. Len(linker)
        BY <1>0, <2>2, SeqFacts DEF CountInv, Linking, TypeInv
      <3>2. index = Len(conf.args) + 1 /\ DOMAIN conf.args = 1 .. Len(conf.args) /\ Len(conf.args) \in Nat
        BY <2>2, ConfFacts DEF TypeInv, InArguments
      <3> QED BY <3>1, <3>2
    <2> QED BY <1>0, <2>1, <2>3, <2>5, <2>6 DEF LinkDone, LinkerOutput, Whole, Exists
  <1> QED BY <1>1, <1>2, <1>3, <1>4, <1>5, <1>6, <1>7, GoodBefore

\* Every step keeps that exit status 0 is set only after all outputs are made.
LEMMA BuiltKept ==
  ASSUME Inv, [Next]_vars
  PROVE  BuiltInv'
  <1> TypeInv /\ WaitInv /\ DirInv /\ BuiltInv /\ ChildType
    BY DEF Inv, TypeInv
  <1> DEFINE Success == status = ExitSuccess =>
                          ~signalled /\ pc \in {"atexit", "exited"} /\ LinkDone /\ MadeUpTo(Len(conf.args), NoPath)
  <1>1. Good' => Progress'
    BY ProgressKept
  <1>2. Good' /\ pc' = "step" /\ todo' = <<>> /\ ~InArguments' => LinkDone'
    BY LinkDoneKept
  <1>3. Success' => BuiltInv'
    BY <1>1, <1>2 DEF BuiltInv, Progress
  <1> SUFFICES ASSUME status' = ExitSuccess
               PROVE  (~signalled /\ pc \in {"atexit", "exited"} /\ LinkDone /\ MadeUpTo(Len(conf.args), NoPath))'
    BY <1>3
  <1>4. conf' = conf /\ conf \in Configurations
    BY DEF vars, driverVars, Next, DriverStep, ChildStep, BeginArgument, EndArgument, CreateTempFile, TypeInv,
       AddLinkerArgument, StartChild, WaitStage, WaitProgram, AfterArguments, Return, ReturnFailure, RemoveTemps, AtExit, Signal
  <1>5. Len(conf.args) \in Nat /\ DOMAIN conf.args = 1 .. Len(conf.args)
    BY <1>4, ConfFacts
  <1>6. CASE UNCHANGED <<status, signalled, pc, disk, output_file>>
    <2>1. ~signalled /\ pc \in {"atexit", "exited"} /\ LinkDone /\ MadeUpTo(Len(conf.args), NoPath)
      BY <1>6 DEF BuiltInv
    <2>2. LinkDone'
      BY <1>4, <1>6, <2>1 DEF LinkDone, LinkerOutput, Whole, Exists
    <2>3. (MadeUpTo(Len(conf.args), NoPath))'
      BY <1>4, <1>5, <1>6, <2>1, UpToStays
    <2> QED BY <1>6, <2>1, <2>2, <2>3
  <1>7. CASE Return
    <2>1. UNCHANGED <<disk, output_file, signalled>> /\ pc = "step" /\ todo = <<>> /\ ~InArguments /\ pc' = "atexit"
      BY <1>7 DEF Return, InArguments, tempVars
    <2>2. Good /\ ~signalled
      BY <2>1, Calm
    <2>3. index - 1 = Len(conf.args)
      BY <1>5, <2>1 DEF TypeInv, InArguments
    <2>4. LinkDone /\ MadeUpTo(Len(conf.args), NoPath)
      BY <2>1, <2>2, <2>3 DEF BuiltInv
    <2>5. LinkDone'
      BY <1>4, <2>1, <2>4 DEF LinkDone, LinkerOutput, Whole, Exists
    <2>6. (MadeUpTo(Len(conf.args), NoPath))'
      BY <1>4, <1>5, <2>1, <2>4, UpToStays
    <2> QED BY <2>1, <2>2, <2>5, <2>6
  <1>8. CASE WaitProgram
    <2>1. UNCHANGED signalled /\ ~signalled /\ pc = "wait" /\ Head(todo) = "program" /\ todo # <<>>
      BY <1>8 DEF WaitProgram, WaitInv, DirInv
    <2>2. conf.stage = "RUN"
      BY <2>1, PlanHeads
    <2>3. \A n, f : (MadeUpTo(n, f))'
      BY <1>4, <2>2 DEF MadeUpTo, Compiled, OutputOf
    <2>4. pc' = "atexit"
      BY <1>8 DEF WaitProgram, BuiltInv
    <2> QED BY <1>4, <2>1, <2>2, <2>3, <2>4 DEF LinkDone
  <1>9. CASE RemoveTemps \/ AtExit
    <2>1. /\ UNCHANGED <<status, signalled, output_file>> /\ (disk' = disk \/ Removal(mgr, mgr'))
          /\ pc' \in {"atexit", "exited"}
          /\ ~signalled /\ LinkDone /\ MadeUpTo(Len(conf.args), NoPath)
      BY <1>9 DEF RemoveTemps, AtExit, tempVars, BuiltInv
    <2>2. ASSUME NEW f \in DOMAIN disk, f \in Products \cup {DefaultOutput}
          PROVE  f \in DOMAIN disk' /\ disk'[f] = disk[f]
      <3>1. f \notin Tracked /\ ~InBaseDir(f)
        BY <2>2, PathKinds, PathPlaces
      <3>2. f \notin mgr.removing
        BY <3>1 DEF TypeInv, MgrType
      <3> QED BY <2>1, <3>1, <3>2, RemovalOnDisk
    <2>3. LinkDone'
      <3> SUFFICES ASSUME conf.stage = "LINK" PROVE LinkDone'
        BY <1>4 DEF LinkDone
      <3>1. LinkerOutput \in Products \cup {DefaultOutput}
        BY SMTT(20), <1>4, ConfFacts DEF Inv, OutputInv, OutputNames, LinkerOutput, DefaultOutput, Products, GivenOutputs
      <3> QED BY <1>4, <2>1, <2>2, <3>1 DEF LinkDone, LinkerOutput, Whole, Exists
    <2>4. (MadeUpTo(Len(conf.args), NoPath))'
      <3>1. \A i \in 1 .. Len(conf.args) : Compiled(i) => OutputOf(conf.args[i].base) \in Products
        BY <1>4, <1>5, OutputNamed, ConfFacts DEF Inv, Compiled
      <3> QED BY <1>4, <1>5, <2>1, <2>2, <3>1, UpToStays
    <2> QED BY <2>1, <2>3, <2>4
  <1>10. ~Signal /\ ~ReturnFailure
    BY DEF Signal, ReturnFailure, ExitSuccess, ExitFailure
  <1>11. CASE ChildStep
    <2>1. UNCHANGED <<status, signalled, pc>> /\ child.state # "none"
      BY <1>11 DEF ChildStep, ChildStarts, ChildInterrupted, ChildRemoves, ChildOpens, ChildFails, ChildSucceeds
    <2> QED BY <2>1 DEF BuiltInv, WaitInv
  <1>12. CASE BeginArgument \/ EndArgument \/ CreateTempFile \/ AddLinkerArgument \/ StartChild \/ WaitStage \/ AfterArguments
    <2>1. UNCHANGED status /\ pc \in {"argument", "step", "wait"}
      BY <1>12 DEF BeginArgument, EndArgument, CreateTempFile, AddLinkerArgument, StartChild, WaitStage, AfterArguments, At
    <2> QED BY <2>1 DEF BuiltInv
  <1>13. CASE UNCHANGED vars
    BY <1>6, <1>13 DEF vars, tempVars, driverVars
  <1> QED BY <1>7, <1>8, <1>9, <1>10, <1>11, <1>12, <1>13 DEF Next, DriverStep

-----------------------------------------------------------------------------
(* The theorems *)

\* The invariant is inductive.
LEMMA InvKept == Inv /\ [Next]_vars => Inv'
  <1> SUFFICES ASSUME Inv, [Next]_vars PROVE Inv'
    OBVIOUS
  <1> QED
    BY TypeKept, WaitKept, PlanKept, StepsKept, OutputKept, DirKept, RemovalKept, PartialKept, WholeKept, CountKept,
       FreshKept, BuiltKept, BrokenKept
    DEF Inv

\* The inductive invariant: what every variable of the driver holds, which step
\* comes next, and what is on disk.
THEOREM DriverInvariant == Spec => []Inv
  <1>1. Init => Inv
    BY InitHolds
  <1>2. Inv /\ [Next]_vars => Inv'
    BY InvKept
  <1> QED BY <1>1, <1>2, PTL DEF Spec

\* For every command line, every order in which the temporary files are removed and
\* every point at which a signal comes before that: when the driver is gone, the only
\* temporary files left are outputs of a child that outlived it, and the directory
\* is left only to such a child or because it was never recorded
\* (kefir_tempfile_manager_free, remove_entry).
THEOREM TemporaryFilesRemoved == Spec => []TempsGone
  <1>1. Inv => TempsGone
    <2> SUFFICES ASSUME Inv, pc = "exited", ~mgr.cut, ~child.swept
                 PROVE  /\ \A f \in FilesInBaseDir : child.state # "none" /\ f \in Written(child.job)
                        /\ Exists(BaseDir) => mgr.pending = BaseDir \/ child.state # "none"
      BY DEF TempsGone
    <2>1. mgr.removing = {} /\ mgr.tracked = {}
      BY DEF Inv, RemovalInv
    <2>2. \A f \in DOMAIN disk : InBaseDir(f) => OfChild(f)
      BY <2>1 DEF Inv, RemovalInv
    <2>3. BaseDir \in DOMAIN disk => mgr.pending = BaseDir \/ child.state # "none"
      BY <2>1 DEF Inv, RemovalInv
    <2> QED BY <2>2, <2>3 DEF FilesInBaseDir, OfChild, Exists
  <1> QED BY <1>1, DriverInvariant, PTL

\* For every command line: a driver that fails leaves no half-written output,
\* with the exception that NoPartialOutput states.
THEOREM NoHalfWrittenOutput == Spec => []NoPartialOutput
  <1>1. Inv => NoPartialOutput
    <2> SUFFICES ASSUME Inv, pc = "exited", ~signalled, ~(process.pid /\ output_file = NoPath /\ conf.stage = "LINK"),
                        NEW f \in DOMAIN disk, disk[f] = Partial
                 PROVE  IsDependencyFile(f)
      BY DEF NoPartialOutput
    <2>1. ~InBaseDir(f)
      <3>1. child.state = "none" /\ ~mgr.cut
        BY DEF Inv, WaitInv, DirInv
      <3>2. ~child.swept
        BY <3>1 DEF Inv, TypeInv, ChildType
      <3> QED BY <3>1, <3>2 DEF Inv, RemovalInv, OfChild
    <2>2. f \in DepFiles
      BY <2>1 DEF Inv, PartialInv
    <2> QED BY <2>2, PathPlaces
  <1> QED BY <1>1, DriverInvariant, PTL

\* For every command line: exit status 0 means that every requested output is
\* there, complete, and made from the right arguments.
THEOREM SuccessMeansBuilt == Spec => []Built
  <1>1. Inv => Built
    <2> SUFFICES ASSUME Inv, pc = "exited", status = ExitSuccess
                 PROVE  /\ conf.stage = "LINK" =>
                             /\ Whole(LinkerOutput)
                             /\ disk[LinkerOutput].args = [i \in DOMAIN conf.args |-> i]
                        /\ \A i \in DOMAIN conf.args :
                             Compiled(i) => \E j \in i .. Len(conf.args) : MadeOfLast(i, j, Len(conf.args))
      BY DEF Built
    <2>1. LinkDone /\ MadeUpTo(Len(conf.args), NoPath)
      BY DEF Inv, BuiltInv
    <2>2. DOMAIN conf.args = 1 .. Len(conf.args)
      BY ConfFacts DEF Inv, TypeInv
    <2> QED BY <2>1, <2>2 DEF LinkDone, MadeUpTo, Compiled
  <1> QED BY <1>1, DriverInvariant, PTL

\* For every command line: every child starts on inputs that are there and
\* complete, although earlier children inherited the handlers that remove them.
THEOREM StagesStartOnWholeInputs == Spec => StageInputsWhole
  <1>1. Inv /\ [Next]_vars =>
          [child.state = "none" /\ child'.state = "forked" =>
             \A i \in DOMAIN child'.job.inputs : Whole(child'.job.inputs[i])]_vars
    <2> SUFFICES ASSUME Inv, Next, child.state = "none", child'.state = "forked"
                 PROVE  \A i \in DOMAIN child'.job.inputs : Whole(child'.job.inputs[i])
      OBVIOUS
    <2> ChildType
      BY DEF Inv, TypeInv
    <2>1. StartChild
      <3>1. ~ChildStep
        BY DEF ChildStep, ChildStarts, ChildInterrupted, ChildRemoves, ChildOpens, ChildFails, ChildSucceeds
      <3>2. child' # child /\ child' # NoChild
        BY ChildEffects
      <3> QED
        BY <3>1, <3>2 DEF Next, DriverStep, BeginArgument, EndArgument, CreateTempFile, AddLinkerArgument, WaitStage,
           WaitProgram, Wait, WaitFails, AfterArguments, Return, ReturnFailure, RemoveTemps, AtExit, Signal, processVars
    <2>2. PICK step \in ChildSteps : At(step) /\ (Spawn(JobOf(step)) \/ UNCHANGED child)
      BY <2>1 DEF StartChild, InitFails, ForkFails
    <2>3. child'.job = JobOf(step)
      BY <2>2, ChildEffects
    <2>4. child'.job.inputs = InputsOf(step)
      BY <2>2, <2>3, JobFacts
    <2>5. Good /\ MadeInv /\ WholeInv /\ ~signalled
      BY <2>2, Calm DEF At, Inv, WholeInv
    <2>6. todo # <<>> /\ Head(todo) = step /\ pc = "step"
      BY <2>2 DEF At
    <2>7. CASE step \in {"compile", "preprocess", "assemble"}
      <3>1. Whole(Input(index))
        BY <2>5, <2>6, <2>7, PlanHeads DEF WholeInv, Holds, InArguments
      <3>2. step = "assemble" /\ names.asm # NoPath => Whole(names.asm)
        BY <2>5, <2>6 DEF MadeInv, Ahead, Holds
      <3> QED BY SMTT(20), <2>4, <2>7, <3>1, <3>2 DEF InputsOf
    <2>8. CASE step = "link"
      BY <2>4, <2>5, <2>8 DEF InputsOf, MadeInv, Holds
    <2>9. CASE step = "program"
      <3>1. Whole(output_file)
        BY <2>5, <2>6, <2>9 DEF MadeInv, Ahead
      <3>2. child'.job.inputs = <<output_file>>
        BY <2>4, <2>9 DEF InputsOf
      <3> QED BY <3>1, <3>2
    <2> QED BY <2>7, <2>8, <2>9 DEF ChildSteps
  <1> QED BY <1>1, DriverInvariant, PTL DEF Spec, StageInputsWhole

\* For every command line: after the failure of a stage no further child starts
\* and the exit status is not 0.
THEOREM ErrorsAbort == Spec => AbortsOnError
  <1>1. Inv /\ Inv' /\ [Next]_vars =>
          [/\ broken => child'.state # "forked" \/ child.state = "forked"
           /\ broken /\ pc' = "exited" => status' # ExitSuccess]_vars
    <2> SUFFICES ASSUME Inv, Inv', Next, broken
                 PROVE  /\ child'.state # "forked" \/ child.state = "forked"
                        /\ pc' = "exited" => status' # ExitSuccess
      OBVIOUS
    <2> ChildType
      BY DEF Inv, TypeInv
    <2>1. pc \notin {"argument", "step"}
      BY Calm DEF Inv, BrokenInv
    <2>2. child'.state # "forked" \/ child.state = "forked"
      <3>1. ~StartChild
        BY <2>1 DEF StartChild, At
      <3>2. CASE ChildStep
        BY <3>2, ChildEffects DEF ChildStep, ChildInterrupted, ChildFails, ChildSucceeds
      <3>3. child' \in {child, NoChild} \/ ChildStep
        BY <3>1 DEF Next, DriverStep, BeginArgument, EndArgument, CreateTempFile, AddLinkerArgument, WaitStage,
           WaitProgram, Wait, WaitFails, AfterArguments, Return, ReturnFailure, RemoveTemps, AtExit, Signal, processVars
      <3> QED BY <3>2, <3>3, ChildEffects
    <2>3. broken'
      BY DEF Next, DriverStep, ChildStep, BeginArgument, EndArgument, CreateTempFile, AddLinkerArgument, StartChild,
         WaitStage, WaitProgram, AfterArguments, Return, ReturnFailure, RemoveTemps, AtExit, Signal
    <2>4. pc' = "exited" => status' # ExitSuccess
      <3>1. BrokenInv'
        BY DEF Inv
      <3>2. pc' = "exited" => status' = ExitFailure
        BY <2>3, <3>1 DEF BrokenInv
      <3> QED BY <3>2 DEF ExitSuccess, ExitFailure
    <2> QED BY <2>2, <2>4
  <1> QED BY <1>1, DriverInvariant, PTL DEF Spec, AbortsOnError
=============================================================================
