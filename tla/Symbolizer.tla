----------------------------- MODULE Symbolizer -----------------------------
(***************************************************************************)
(* How heaptrack_interpret finds the functions at an address of a module:  *)
(* SymbolCache with the symbol table, and DwarfDieCache with the tree of   *)
(* debugging information entries (DIEs), for inlined functions and for     *)
(* qualified names, which are cached while they are put together.          *)
(*                                                                         *)
(* A binary has its symbols in the order of the table, and its DIEs in the *)
(* order of the file, each after its parent.  The name, the linkage name   *)
(* and the specification of a DIE are those that libdw integrates.  A name *)
(* is the sequence of its parts between "::", and demangled.               *)
(***************************************************************************)
EXTENDS Integers, SequencesExt, FiniteSetsExt, TLC, Subsequences

CONSTANT Binaries   \* by the name of the module: [symbols, dies, hasSources]

Unknown == <<>>     \* the empty string

Tags == {"compile unit", "block", "inlined", "subprogram", "namespace", "class", "other"}

DieRecord == [tag : Tags, parent : Nat, name : Seq(STRING), ranges : SUBSET (Nat \X Nat),
              linkage : Seq(STRING), specification : Nat]

ASSUME SymbolizerAssumption ==
    \A b \in DOMAIN Binaries :
        /\ Binaries[b].symbols \in Seq([offset : Nat, size : Nat, name : Seq(STRING)])
        /\ Binaries[b].dies \in Seq(DieRecord)
        /\ \A d \in DOMAIN Binaries[b].dies : Binaries[b].dies[d].parent < d

-----------------------------------------------------------------------------
(* SymbolCache                                                             *)

\* setSymbols: sorted by their offset, and only the first of those that are at
\* the same place.
SortedSymbols(symbols) ==
    LET order == SetToSortSeq(DOMAIN symbols,
                    LAMBDA i, j : \/ symbols[i].offset < symbols[j].offset
                                  \/ symbols[i].offset = symbols[j].offset /\ i < j)
        isSame(i, j) == symbols[i].offset = symbols[j].offset /\ symbols[i].size = symbols[j].size
        kept == SelectSeq([k \in DOMAIN order |-> <<k, order[k]>>],
                    LAMBDA e : e[1] = 1 \/ ~ isSame(order[e[1] - 1], e[2]))
    IN  [k \in DOMAIN kept |-> symbols[kept[k][2]]]

\* findSymbol: the symbol that starts here, or the last one before.
FindSymbol(b, offset) ==
    LET symbols == SortedSymbols(Binaries[b].symbols)
        first == SelectInSeq(symbols, LAMBDA s : s.offset >= offset)
        at == IF first # 0 /\ symbols[first].offset = offset THEN first
              ELSE IF first = 0 THEN Len(symbols) ELSE first - 1
        covers == symbols[at].offset = offset \/ symbols[at].size = 0
                    \/ symbols[at].offset + symbols[at].size > offset
    IN  IF at # 0 /\ covers THEN symbols[at].name ELSE Unknown

-----------------------------------------------------------------------------
(* DwarfDieCache                                                           *)

Dies(b) == DOMAIN Binaries[b].dies
Die(b, d) == Binaries[b].dies[d]

ContainsAddress(b, d, offset) == \E range \in Die(b, d).ranges : range[1] <= offset /\ offset < range[2]

\* The DIEs around each, the nearest first.
Around ==
    [b \in DOMAIN Binaries |->
        LET up[d \in {0} \cup Dies(b)] == IF d = 0 THEN <<>> ELSE <<d>> \o up[Die(b, d).parent]
        IN  [d \in Dies(b) |-> Tail(up[d])]]

Foremost(dies) == IF dies = {} THEN 0 ELSE Min(dies)

FindCuDie(b, offset) ==
    Foremost({d \in Dies(b) : Die(b, d).tag = "compile unit" /\ ContainsAddress(b, d, offset)})

\* addSubprograms does not look into a subprogram, nor where no scopes may be.
Subprograms ==
    [b \in DOMAIN Binaries |-> {d \in Dies(b) :
        /\ Die(b, d).tag = "subprogram"
        /\ \A s \in Range(Around[b][d]) : Die(b, s).tag \notin {"subprogram", "other"}}]

FindSubprogramDie(b, cu, offset) ==
    Foremost({d \in Subprograms[b] : ContainsAddress(b, d, offset) /\ cu \in Range(Around[b][d])})

\* A mutation of FindInlineScopes: the functions around an inlined one are not
\* looked at.
FindInlineScopesDirect(b, subprogram, offset) ==
    InOrder(Len(Binaries[b].dies), {d \in Dies(b) :
        Die(b, d).tag = "inlined" /\ Die(b, d).parent = subprogram /\ ContainsAddress(b, d, offset)})

\* From the outermost function that was inlined to the innermost: the walk goes
\* on below what contains the address, and below other scopes.
FindInlineScopes(b, subprogram, offset) ==
    LET isOpen(d) == Die(b, d).tag = "inlined" => ContainsAddress(b, d, offset)
    IN  InOrder(Len(Binaries[b].dies), {d \in Dies(b) :
            /\ Die(b, d).tag = "inlined" /\ ContainsAddress(b, d, offset)
            /\ subprogram \in Range(Around[b][d])
            /\ \A s \in Range(Around[b][d]) : s > subprogram => isOpen(s)})

-----------------------------------------------------------------------------
(* Names of DIEs                                                           *)

\* Without the compile unit.
ScopesOf(b, d) == IF Around[b][d] = <<>> THEN <<>> ELSE Front(Around[b][d])

\* A name without its last parts: the cached name of a scope.
Cut(name, parts) == SubSeq(name, 1, Len(name) - parts)

\* A mutation of CutAtScope: the name of the function stays in that of its scope.
CutAfterScope(name, parts) == Cut(name, parts - 1)

CutAtScope(name, parts) == Cut(name, parts)

\* The first scope whose name need not be put together.
FirstKnown(b, scopes, cache) ==
    SelectInSeq(scopes, LAMBDA s : \/ <<b, s>> \in DOMAIN cache
                                   \/ Die(b, s).linkage # Unknown
                                   \/ Die(b, s).specification # 0)

Named(b, scopes) == SelectSeq(scopes, LAMBDA s : Die(b, s).name # Unknown)

InScopes(b, scopes, name) ==
    FlattenSeq(Reverse([i \in DOMAIN scopes |-> Die(b, scopes[i]).name])) \o name

\* The walk has passed the named scopes and ends at scope s, 0 if there is none; inner
\* is the name that far and outer what came of the walk from s on.  Where it went on
\* at a specification, the name that is cached for s lacks its own part, and ends
\* with "::".
CacheNames(b, name, named, inner, s, cache, outer) ==
    LET full == outer.name
        names == [key \in {<<b, named[i]>> : i \in DOMAIN named} |->
                    CutAtScope(full, Len(name) + SelectInSeq(named, LAMBDA i : i = key[2]) - 1)]
        atStop == IF s = 0 \/ <<b, s>> \in DOMAIN cache THEN <<>>
                  ELSE IF Die(b, s).linkage # Unknown THEN <<b, s>> :> CutAtScope(full, Len(inner))
                  ELSE [key \in {<<b, s>>, <<b, Die(b, s).specification>>} |->
                            Append(Cut(full, Len(Die(b, s).name \o inner)), "")]
    IN  [name |-> full, cache |-> names @@ atStop @@ outer.cache]

\* prependScopeNames: the scopes up to one that is cached, has a linkage name or
\* a specification, whose scopes are taken instead.
PrependScopeNames(b, name, d, cache) ==
    LET prepend[from \in Seq(STRING), at \in Dies(b)] ==
            LET outer(s, inner) ==
                    IF s = 0 THEN [name |-> inner, cache |-> cache]
                    ELSE IF <<b, s>> \in DOMAIN cache
                    THEN [name |-> cache[<<b, s>>] \o inner, cache |-> cache]
                    ELSE IF Die(b, s).linkage # Unknown
                    THEN [name |-> Die(b, s).linkage \o inner, cache |-> cache]
                    ELSE prepend[Die(b, s).name \o inner, Die(b, s).specification]
                passed(named, inner, s) == CacheNames(b, from, named, inner, s, cache, outer(s, inner))
                walk(named, s) == passed(named, InScopes(b, named, from), s)
                walkTo(scopes, stop) ==
                    IF stop = 0 THEN walk(Named(b, scopes), 0)
                    ELSE walk(Named(b, SubSeq(scopes, 1, stop - 1)), scopes[stop])
                walkUp(scopes) == walkTo(scopes, FirstKnown(b, scopes, cache))
            IN  walkUp(ScopesOf(b, at))
    IN  prepend[name, d]

\* qualifiedDieName and dieName.
Remembered(b, d, new) == [name |-> new.name, cache |-> <<b, d>> :> new.name @@ new.cache]

DieName(b, d, cache) ==
    IF <<b, d>> \in DOMAIN cache THEN [name |-> cache[<<b, d>>], cache |-> cache]
    ELSE Remembered(b, d,
            IF Die(b, d).linkage # Unknown THEN [name |-> Die(b, d).linkage, cache |-> cache]
            ELSE PrependScopeNames(b, Die(b, d).name,
                    IF Die(b, d).specification # 0 THEN Die(b, d).specification ELSE d, cache))

WithName(done, new) == [names |-> Append(done.names, new.name), cache |-> new.cache]

\* The names of DIEs, one after the other.
DieNames(b, dies, cache) ==
    LET named[n \in 0 .. Len(dies)] ==
            IF n = 0 THEN [names |-> <<>>, cache |-> cache]
            ELSE WithName(named[n - 1], DieName(b, dies[n], named[n - 1].cache))
    IN  named[Len(dies)]

\* resolveAddress: the innermost function first, and the subprogram last.  Without
\* debugging information it is the symbol.
ResolveAddress(b, offset, cache) ==
    LET cu == FindCuDie(b, offset)
        subprogram == IF cu = 0 THEN 0 ELSE FindSubprogramDie(b, cu, offset)
    IN  IF subprogram = 0 THEN [names |-> <<FindSymbol(b, offset)>>, cache |-> cache]
        ELSE DieNames(b, Reverse(<<subprogram>> \o FindInlineScopes(b, subprogram, offset)), cache)

-----------------------------------------------------------------------------
(* What a debugger would say                                               *)

\* Scopes that were declared elsewhere, without a linkage name.
IsRespecified(b, d) ==
    \E s \in {d} \cup Range(Around[b][d]) : Die(b, s).specification # 0 /\ Die(b, s).linkage = Unknown

QualifiedName ==
    [b \in DOMAIN Binaries |->
        LET name[d \in Dies(b)] ==
                LET scopes == ScopesOf(b, IF Die(b, d).specification # 0 THEN Die(b, d).specification ELSE d)
                IN  IF Die(b, d).linkage # Unknown THEN Die(b, d).linkage
                    ELSE (IF scopes = <<>> THEN <<>> ELSE name[Head(scopes)]) \o Die(b, d).name
        IN  name]

\* The functions an address is in: all DIEs of functions that contain it.
FunctionsAt(b, offset) ==
    Reverse(InOrder(Len(Binaries[b].dies), {d \in Dies(b) :
        Die(b, d).tag \in {"subprogram", "inlined"} /\ ContainsAddress(b, d, offset)}))

\* The first symbol of those that start nearest before the address, if the address
\* is in it.
SymbolAt(b, offset) ==
    LET symbols == Binaries[b].symbols
        before  == {i \in DOMAIN symbols : symbols[i].offset <= offset}
        nearest == {i \in before : \A j \in before : symbols[j].offset <= symbols[i].offset}
        first   == symbols[Min(nearest)]
    IN  IF before # {} /\ (first.size = 0 \/ offset < first.offset + first.size)
        THEN first.name ELSE Unknown

\* The names of the functions at an address, innermost first.
NamesAt(b, offset) ==
    LET dies == FunctionsAt(b, offset)
    IN  IF dies = <<>> THEN <<SymbolAt(b, offset)>>
        ELSE [i \in DOMAIN dies |-> QualifiedName[b][dies[i]]]
=============================================================================
