----------------------------- MODULE PointerMap -----------------------------
(***************************************************************************)
(* PointerMap of util/pointermap.h, the map from addresses to allocation   *)
(* infos of heaptrack_interpret. An address is split into the number of    *)
(* its page and its place in the page. A page holds two vectors side by    *)
(* side: the places, sorted, and the infos; it goes away with its last     *)
(* place.                                                                  *)
(***************************************************************************)
EXTENDS Integers, SequencesExt

CONSTANT PageSize   \* SplitPointer::PageSize

ASSUME PointerMapAssumption == PageSize \in Nat \ {0}

Big(ptr)   == ptr \div PageSize
Small(ptr) == ptr % PageSize

NoPage == [smallPtrParts |-> <<>>, allocationIndices |-> <<>>]

Page(map, ptr) == IF Big(ptr) \in DOMAIN map THEN map[Big(ptr)] ELSE NoPage

\* std::lower_bound: where an element is, or belongs, in a sorted vector.
LowerBound(parts, small) == Cardinality({n \in DOMAIN parts : parts[n] < small}) + 1

Slot(map, ptr) == LowerBound(Page(map, ptr).smallPtrParts, Small(ptr))

HasPointer(map, ptr) ==
    /\ Slot(map, ptr) \in DOMAIN Page(map, ptr).smallPtrParts
    /\ Page(map, ptr).smallPtrParts[Slot(map, ptr)] = Small(ptr)

PointerAt(map, ptr) == Page(map, ptr).allocationIndices[Slot(map, ptr)]

SetPage(map, big, page) == [b \in DOMAIN map \cup {big} |-> IF b = big THEN page ELSE map[b]]

\* A mutation of AddPointer: the infos are appended whatever the place.
AddPointerLast(map, ptr, info) ==
    LET page == Page(map, ptr)
        at   == Slot(map, ptr)
    IN  SetPage(map, Big(ptr),
            IF HasPointer(map, ptr)
            THEN [page EXCEPT !.allocationIndices[at] = info]
            ELSE [smallPtrParts |-> InsertAt(page.smallPtrParts, at, Small(ptr)),
                  allocationIndices |-> Append(page.allocationIndices, info)])

AddPointer(map, ptr, info) ==
    LET page == Page(map, ptr)
        at   == Slot(map, ptr)
    IN  SetPage(map, Big(ptr),
            IF HasPointer(map, ptr)
            THEN [page EXCEPT !.allocationIndices[at] = info]
            ELSE [smallPtrParts |-> InsertAt(page.smallPtrParts, at, Small(ptr)),
                  allocationIndices |-> InsertAt(page.allocationIndices, at, info)])

\* A mutation of TakePointer: an empty page is kept.
TakePointerKeepPage(map, ptr) ==
    LET page == Page(map, ptr)
        at   == Slot(map, ptr)
    IN  SetPage(map, Big(ptr),
            [smallPtrParts |-> RemoveAt(page.smallPtrParts, at),
             allocationIndices |-> RemoveAt(page.allocationIndices, at)])

\* The map after takePointer of an address it has.
TakePointer(map, ptr) ==
    LET page == Page(map, ptr)
        at   == Slot(map, ptr)
        rest == [smallPtrParts |-> RemoveAt(page.smallPtrParts, at),
                 allocationIndices |-> RemoveAt(page.allocationIndices, at)]
    IN  IF rest.allocationIndices = <<>>
        THEN [b \in DOMAIN map \ {Big(ptr)} |-> map[b]]
        ELSE SetPage(map, Big(ptr), rest)
=============================================================================
