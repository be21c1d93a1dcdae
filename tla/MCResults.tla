----------------------------- MODULE MCResults -----------------------------
(* Results for TLC: nine backtraces of a program whose main is started by   *)
(* other code, with recursion, an inlined function, one function called at  *)
(* two addresses, a thread without main, an unresolved backtrace and none.  *)
EXTENDS Results

Ip(addr, symbol, line, inlined) ==
    [addr |-> addr, frame |-> <<symbol, line>>, inlined |-> inlined]

Main == 1
startIp == Ip(1, 5, 0, <<>>)
mainIp  == Ip(2, Main, 10, <<>>)
runIp   == Ip(3, 2, 20, <<>>)
sameIp  == Ip(4, 2, 20, <<>>)
againIp == Ip(5, 2, 22, <<>>)
workIp  == Ip(6, 3, 30, <<>>)
inIp    == Ip(7, 3, 30, <<<<2, 21>>>>)
inMain  == Ip(8, 3, 31, <<<<Main, 11>>>>)
nameless == Ip(9, Unresolved, 0, <<>>)

Compared ==
    {<<workIp, runIp, mainIp, startIp>>, <<inIp, mainIp, startIp>>,
     <<sameIp, mainIp, startIp>>, <<againIp, runIp, mainIp, startIp>>,
     <<runIp, mainIp, startIp>>, <<workIp, againIp>>}
Traces == Compared \cup {<<inMain, startIp>>, <<nameless>>, <<>>}

\* Files with up to n backtraces in any order.
Files(traces, costs, n) ==
    {f \in BoundedSeq([trace : traces, cost : costs], n) :
        \A i, j \in DOMAIN f : i # j => f[i].trace # f[j].trace}

Opened == [data : Files(Traces, {1, 2}, 2) \cup Files(Traces, {1}, 3), base : {<<>>}, diffMode : {FALSE}]
Comparisons ==
    [data : Files(Compared, {1, 2}, 2), base : Files(Compared, {1}, 2), diffMode : {TRUE}]
\* One place with one backtrace, and the defaults.
MCPrintLimits == {<<1, 1>>, <<10, 5>>}

MCInputs == Opened \cup Comparisons
=============================================================================
