--------------------------- MODULE MachModuleCache ---------------------------
(***************************************************************************)
(* The list of loaded images on macOS: dyld calls the recorder back when   *)
(* it adds or removes an image, the callbacks keep a table of fixed size   *)
(* under a mutex of its own and then mark the list as changed, and the     *)
(* next record writes the whole table, under the recorder's lock.          *)
(*                                                                         *)
(* An image is the address of its header together with what is loaded      *)
(* there; an address is used again for other images.                       *)
(***************************************************************************)
EXTENDS Recorder, Integers, Functions

CONSTANTS
    Headers,        \* addresses of images
    Contents,       \* what can be loaded there; Malformed among them
    Malformed,      \* an image whose load commands cannot be read
    Capacity        \* entries of the table

ASSUME CapacityAssumption == Capacity \in Nat /\ "none" \notin Headers

VARIABLES
    loaded,             \* header -> content, for the images dyld has added
    m_entries,          \* the table: header, module and active
    m_mutex,            \* the thread that holds the table's mutex, or "free"
    s_moduleCacheDirty,
    listed,             \* the modules of the last list in the stream
    changing,           \* the header whose callback a thread runs
    ignored             \* (history) headers addImage did not enter

table == <<m_entries, m_mutex>>
machVars == <<loaded, table, s_moduleCacheDirty, listed, changing, ignored>>

Slots == 1..Capacity
Image(h, content) == [header |-> h, module |-> content]
NoEntry == [header |-> "none", module |-> "none", active |-> FALSE]

\* Images that are there already are reported as soon as heaptrack asks for it.
MachInit ==
    /\ \E headers \in SUBSET Headers : loaded \in [headers -> Contents]
    /\ m_entries = [i \in Slots |-> NoEntry] /\ m_mutex = "free"
    /\ s_moduleCacheDirty = TRUE /\ listed = {} /\ ignored = {}
    /\ changing = [t \in Threads |-> "none"]

-----------------------------------------------------------------------------
(* The table. *)

Active(entries) == {i \in Slots : entries[i].active}

\* Where an image goes: its own entry, or else one that is not in use.
Available(entries, h) ==
    LET own == {i \in Active(entries) : entries[i].header = h} IN
    IF own # {} THEN own ELSE Slots \ Active(entries)
FirstOf(slots) == CHOOSE i \in slots : \A j \in slots : i <= j

\* addImage, which reads the image before it takes the mutex. What cannot be read,
\* or finds the table full, is ignored.
AddImage(h) ==
    LET slots == Available(m_entries, h)
        entry == [header |-> h, module |-> loaded[h], active |-> TRUE] IN
    /\ loaded[h] = Malformed \/ m_mutex = "free"
    /\ IF loaded[h] = Malformed \/ slots = {}
       THEN ignored' = ignored \cup {h} /\ UNCHANGED m_entries
       ELSE m_entries' = [m_entries EXCEPT ![FirstOf(slots)] = entry] /\ ignored' = ignored \ {h}
    /\ UNCHANGED m_mutex

\* The images that are there, added to the empty table in some order.
AddLoaded ==
    LET readable == {h \in DOMAIN loaded : loaded[h] # Malformed} IN
    \E n \in 0..Capacity : \E order \in [1..n -> readable] :
        /\ IsInjective(order) /\ (n = Capacity \/ Range(order) = readable)
        /\ m_entries' = [i \in Slots |->
               IF i <= n THEN [header |-> order[i], module |-> loaded[order[i]], active |-> TRUE] ELSE m_entries[i]]
        /\ ignored' = DOMAIN loaded \ Range(order)

\* removeImage
RemoveImage(h) ==
    /\ m_mutex = "free"
    /\ m_entries' = [i \in Slots |->
           IF m_entries[i].active /\ m_entries[i].header = h THEN [m_entries[i] EXCEPT !.active = FALSE] ELSE m_entries[i]]
    /\ UNCHANGED <<m_mutex, ignored>>

-----------------------------------------------------------------------------
(* dyld, which calls back in the thread that loads or unloads an image. No *)
(* two threads deal with the same address at the same time.                *)

DyldAdds(t, h) ==
    /\ At(t, "idle") /\ h \notin DOMAIN loaded /\ \A u \in Threads : changing[u] # h
    /\ \E content \in Contents :
           loaded' = [g \in DOMAIN loaded \cup {h} |-> IF g = h THEN content ELSE loaded[g]]
    /\ changing' = [changing EXCEPT ![t] = h] /\ Goto(t, "add_image")
    /\ UNCHANGED <<recorder, table, s_moduleCacheDirty, listed, ignored>>

DyldRemoves(t, h) ==
    /\ At(t, "idle") /\ h \in DOMAIN loaded /\ \A u \in Threads : changing[u] # h
    /\ changing' = [changing EXCEPT ![t] = h] /\ Goto(t, "remove_image")
    /\ UNCHANGED <<recorder, loaded, table, s_moduleCacheDirty, listed, ignored>>

\* dyldImageAdded and dyldImageRemoved: the table first,
ChangeTable(t) ==
    /\ \/ At(t, "add_image") /\ AddImage(changing[t]) /\ UNCHANGED loaded
       \/ /\ At(t, "remove_image") /\ RemoveImage(changing[t])
          /\ loaded' = [g \in DOMAIN loaded \ {changing[t]} |-> loaded[g]]
    /\ Goto(t, "mark_dirty")
    /\ UNCHANGED <<recorder, s_moduleCacheDirty, listed, changing>>

\* then the flag.
MarkDirty(t) ==
    /\ At(t, "mark_dirty") /\ s_moduleCacheDirty' = TRUE
    /\ changing' = [changing EXCEPT ![t] = "none"] /\ Goto(t, "idle")
    /\ UNCHANGED <<recorder, loaded, table, listed, ignored>>

-----------------------------------------------------------------------------
(* updateModuleCache, as a record is written.                              *)

\* An operation that records something takes the flag back before the list is
\* written.
Record(t) ==
    /\ At(t, "record") /\ lock = "free"
    /\ IF s_data /\ s_moduleCacheDirty
       THEN lock' = t /\ s_moduleCacheDirty' = FALSE /\ Goto(t, "write_modules")
       ELSE Goto(t, "idle") /\ UNCHANGED <<lock, s_moduleCacheDirty>>
    /\ UNCHANGED <<s_data, s_forceCleanup, loaded, table, listed, changing, ignored>>

\* writeMachModules: forEach has the mutex until the list is complete,
ForEach(t) ==
    /\ At(t, "write_modules") /\ m_mutex = "free" /\ m_mutex' = t
    /\ listed' = {} /\ Goto(t, "for_each")
    /\ UNCHANGED <<recorder, loaded, m_entries, s_moduleCacheDirty, changing, ignored>>

WriteMachModule(t) ==
    /\ At(t, "for_each") /\ \E i \in Active(m_entries) :
        LET e == m_entries[i] IN
        /\ Image(e.header, e.module) \notin listed
        /\ listed' = listed \cup {Image(e.header, e.module)}
    /\ UNCHANGED <<recorder, pc, loaded, table, s_moduleCacheDirty, changing, ignored>>

\* or until a line cannot be written.
ForEachReturns(t) ==
    /\ At(t, "for_each") /\ m_mutex' = "free"
    /\ \/ /\ \A i \in Active(m_entries) :
                 Image(m_entries[i].header, m_entries[i].module) \in listed
          /\ Goto(t, "listed")
       \/ Goto(t, "list_failed")
    /\ UNCHANGED <<recorder, loaded, m_entries, s_moduleCacheDirty, listed, changing, ignored>>

\* Mutation of ListDone: the flag is reset once the list is complete.
ListDoneClean(t) ==
    /\ pc[t] \in {"listed", "list_failed"} /\ ReleaseLock /\ Goto(t, "idle")
    /\ s_moduleCacheDirty' = At(t, "list_failed")
    /\ UNCHANGED <<s_data, s_forceCleanup, loaded, table, listed, changing, ignored>>

\* Without a complete list the flag is set again.
ListDone(t) ==
    /\ pc[t] \in {"listed", "list_failed"} /\ ReleaseLock /\ Goto(t, "idle")
    /\ s_moduleCacheDirty' = (s_moduleCacheDirty \/ At(t, "list_failed"))
    /\ UNCHANGED <<s_data, s_forceCleanup, loaded, table, listed, changing, ignored>>

MachNext ==
    \E t \in Threads :
        \/ \E h \in Headers : DyldAdds(t, h) \/ DyldRemoves(t, h)
        \/ ChangeTable(t) \/ MarkDirty(t)
        \/ Record(t) \/ ForEach(t) \/ WriteMachModule(t) \/ ForEachReturns(t)
        \/ ListDone(t)

-----------------------------------------------------------------------------
(* Properties. *)

\* A list that counts as current is the list of the loaded images, whatever was
\* loaded, unloaded or replaced at the same address while it was written. Only
\* images that could not be read or found the table full are missing.
ModulesListed ==
    s_data /\ ~ s_moduleCacheDirty /\ lock = "free" /\ (\A t \in Threads : changing[t] = "none") =>
        listed = {Image(h, loaded[h]) : h \in DOMAIN loaded \ ignored}
=============================================================================
