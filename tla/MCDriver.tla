------------------------------ MODULE MCDriver ------------------------------
(* Command lines of up to two arguments for the driver. *)
EXTENDS Driver

\* Files are removed in the order of their making, the directory at any point.
MCBefore(f, g) == InBaseDir(f) /\ InBaseDir(g) /\ f[3] < g[3]

Arg(t, b) == [type |-> t, base |-> b]

\* The second argument may have the base name of the first.
OneArg == {<<>>} \cup {<<Arg(t, "a")>> : t \in ArgumentTypes}
TwoArgs(second, bases) == {<<Arg(t, "a"), Arg(u, b)>> : t \in ArgumentTypes, u \in second, b \in bases}

OutputsFor(stage) ==
  IF stage \in {"COMPILE"} \cup PreprocessStages THEN {"none", "file", "stdout"} ELSE {"none", "file"}

Conf(stage, output, deps, target, args) ==
  [stage |-> stage, output |-> output, deps |-> deps, target |-> target, args |-> args]

Lines(stages, dts, lists) ==
  UNION {{Conf(s, o, dt[1], dt[2], l) : o \in OutputsFor(s), dt \in dts, l \in lists} :
           s \in stages}

NoDeps == {<<FALSE, FALSE>>}
AnyDeps == {<<FALSE, FALSE>>, <<TRUE, FALSE>>, <<TRUE, TRUE>>}
Linking == {"LINK", "RUN"}

\* Dependency files are made by the same code whatever comes after the compiler:
\* two arguments have them where nothing does.  Lines that link name no file after
\* an argument, so that the base names do not matter.
AllConfigurations ==
  Lines(Stages, AnyDeps, OneArg)
  \cup Lines({"COMPILE"} \cup PreprocessStages, AnyDeps, TwoArgs(ArgumentTypes, {"a", "b"}))
  \cup Lines({"ASSEMBLE"}, NoDeps, TwoArgs(ArgumentTypes, {"a", "b"}))
  \cup Lines(Linking, NoDeps, TwoArgs({"CODE", "OBJECT"}, {"b"}))

\* Three arguments: to be linked in order, and with ones that the stage skips.
LongConfigurations ==
  {Conf("ASSEMBLE", "none", FALSE, FALSE, <<Arg("CODE", "a"), Arg(t, "b"), Arg(u, "c")>>) :
     t, u \in ArgumentTypes}
  \cup
  {Conf(s, o, FALSE, FALSE, <<Arg(t, "a"), Arg("OBJECT", "b"), Arg("CODE", "c")>>) :
     s \in Linking, o \in {"none", "file"}, t \in {"ASSEMBLY"}}

MCConfigurations == AllConfigurations \cup LongConfigurations
=============================================================================
