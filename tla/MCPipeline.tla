---------------------------- MODULE MCPipeline ----------------------------
(* Pipeline for TLC. Three modules are loaded: the application, a library   *)
(* with operator new, and one of two plugins at the same place, the second *)
(* too short for a call in the first. One call is the last instruction of  *)
(* its module.                                                             *)
EXTENDS Pipeline

ModuleAt(name, start, stop) == [name |-> <<name>>, start |-> start, stop |-> stop]

MCLayouts ==
    {<<ModuleAt("lib", 100, 200), ModuleAt("app", 0, 100), ModuleAt("plugin", 200, 300)>>,
     <<ModuleAt("app", 0, 100), ModuleAt("other", 200, 240), ModuleAt("lib", 100, 200)>>}

DieOf(tag, scope, name, ranges) ==
    [tag |-> tag, parent |-> scope, name |-> name, ranges |-> ranges,
     linkage |-> <<>>, specification |-> 0]

\* A function of a class has another one inlined in a block, and in that a third
\* one; another function of the class calls that one, too. Only the first function
\* has a linkage name, and was declared in the class.
AppDies ==
    <<DieOf("compile unit", 0, <<>>, {<<0, 100>>}),
      DieOf("namespace", 1, <<"ns">>, {}),
      DieOf("class", 2, <<"Class">>, {}),
      DieOf("subprogram", 3, <<"run">>, {}),
      DieOf("subprogram", 3, <<"go">>, {<<0, 50>>}),
      DieOf("inlined", 5, <<"step">>, {<<20, 40>>}),
      [DieOf("subprogram", 1, <<"run">>, {<<50, 60>>, <<80, 100>>}) EXCEPT
            !.linkage = <<"ns", "Class", "run">>, !.specification = 4],
      DieOf("block", 7, <<>>, {<<80, 100>>}),
      DieOf("inlined", 8, <<"work">>, {<<90, 100>>}),
      DieOf("inlined", 9, <<"step">>, {<<95, 100>>}),
      DieOf("other", 7, <<"here">>, {}),
      DieOf("inlined", 7, <<"work">>, {<<55, 60>>})>>

\* A class that is defined outside of its namespace.
PluginDies ==
    <<DieOf("compile unit", 0, <<>>, {<<0, 100>>}),
      DieOf("namespace", 1, <<"ns">>, {}),
      DieOf("class", 2, <<"Plugin">>, {}),
      [DieOf("class", 1, <<"Plugin">>, {}) EXCEPT !.specification = 3],
      DieOf("subprogram", 4, <<"plug">>, {<<0, 100>>}),
      DieOf("inlined", 5, <<"play">>, {<<40, 60>>})>>

Symbol(offset, size, name) == [offset |-> offset, size |-> size, name |-> name]

LibSymbols ==
    <<Symbol(60, 10, <<"free">>), Symbol(20, 40, <<"operator new">>),
      Symbol(20, 40, <<"_Znwm">>), Symbol(0, 20, <<"malloc">>)>>

MCBinaries ==
    (<<"app">>    :> [symbols |-> <<Symbol(50, 50, <<"run">>)>>, dies |-> AppDies, hasSources |-> TRUE]) @@
    (<<"plugin">> :> [symbols |-> <<>>, dies |-> PluginDies, hasSources |-> FALSE]) @@
    (<<"other">>  :> [symbols |-> <<Symbol(0, 0, <<"function">>)>>, dies |-> <<>>, hasSources |-> FALSE]) @@
    (<<"lib">>    :> [symbols |-> LibSymbols, dies |-> <<>>, hasSources |-> FALSE])

\* Stacks under two frames of heaptrack: a plugin and the application that call each
\* other, deeper than a Trace; and operator new called at the end of the application,
\* with a null pointer in between, on a stack that belongs to no thread.
Stack(ips, top) == [ips |-> <<111, 112>> \o ips, frames |-> [i \in 1 .. Len(ips) + 2 |-> 2 * i],
                    top |-> top]
MCStacks == {Stack(<<250, 30, 250, 30>>, 20), Stack(<<150, 0, 100>>, 0)}

MCUnwinders == {"libunwind", "unwind tables", "macOS x86_64", "macOS arm64"}

MCOpNew == {<<"operator new">>}
=============================================================================
