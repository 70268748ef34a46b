--------------------------------- MODULE Path ---------------------------------
(***************************************************************************)
(* IDMEF paths and their cache (src/idmef-path.c, src/prelude-hash.c).     *)
(*                                                                         *)
(* Paths are reference counted and shared: a path that is asked for by     *)
(* name is looked up in a hash table, which holds a reference of its own.  *)
(* A path may be modified only by a caller that nobody shares it with, and *)
(* is taken out of the table first.  Every section that holds a lock is a  *)
(* step; the lookup and the reference it needs are two sections.           *)
(*                                                                         *)
(* A name is the sequence of the indexes of its elements, each element     *)
(* being a listed child.                                                   *)
(***************************************************************************)
EXTENDS Naturals, Sequences, FiniteSets

CONSTANTS
    Programs,    \* [threads : SUBSET Threads, modifies, clones, refs : BOOLEAN]
    Threads,
    Indexes,     \* indexes an element may have
    MAX_DEPTH,
    Hash(_),     \* path_hash_func, modulo the number of lists
    MaxPaths,    \* bound on the number of paths ever allocated
    MaxHandles   \* bound on the pointers one thread holds

Paths == 1 .. MaxPaths
Names == UNION {[1 .. k -> Indexes] : k \in 0 .. MAX_DEPTH}
None == 0        \* no path

ASSUME BoundsAssumption == MaxPaths \in Nat /\ MaxHandles \in Nat /\ MAX_DEPTH \in Nat
ASSUME ThreadsAssumption == IsFiniteSet(Threads)
ASSUME ProgramsAssumption == \A p \in Programs : p.threads \subseteq Threads

VARIABLES
    program,
    state,       \* of each path: "none", "allocated", "freed"
    name,        \* its name
    refcount,
    table,       \* cached_path: entries [path, list], the last added first
    destroyed,   \* _idmef_path_cache_destroy was called
    handles,     \* pointers each thread holds, and how often
    pc, arg, obj \* per thread: position, the name asked for, the path in hand

vars == <<program, state, name, refcount, table, destroyed, handles, pc, arg, obj>>
thread == <<pc, arg, obj>>

Cached(p) == {i \in 1 .. Len(table) : table[i].path = p}

\* hash_elem_get: the first entry of its list with that name.
Entries(n) == {i \in 1 .. Len(table) : table[i].list = Hash(n) /\ name[table[i].path] = n}
First(S) == CHOOSE i \in S : \A j \in S : i <= j
prelude_hash_get(n) == IF Entries(n) = {} THEN None ELSE table[First(Entries(n))].path

Unlinked(n) == SubSeq(table, 1, First(Entries(n)) - 1) \o SubSeq(table, First(Entries(n)) + 1, Len(table))

Fresh(p) == state[p] = "none" /\ \A q \in 1 .. p - 1 : state[q] # "none"

HandleCount(t) == Cardinality({h \in Paths \X (1 .. MaxHandles) : h[2] <= handles[t][h[1]]})
Room(t) == HandleCount(t) < MaxHandles
Idle(t) == t \in program.threads /\ pc[t] = "idle"
Holds(t, p) == handles[t][p] > 0

Goto(t, l) == pc' = [pc EXCEPT ![t] = l]

Init ==
    /\ program \in Programs
    /\ state = [p \in Paths |-> "none"] /\ name = [p \in Paths |-> <<>>] /\ refcount = [p \in Paths |-> 0]
    /\ table = <<>> /\ destroyed = FALSE
    /\ handles = [t \in Threads |-> [p \in Paths |-> 0]]
    /\ pc = [t \in Threads |-> "idle"] /\ arg = [t \in Threads |-> <<>>] /\ obj = [t \in Threads |-> None]

-----------------------------------------------------------------------------
(* idmef_path_new_from_root_fast                                           *)

\* The name is looked up; a path that is not found is allocated and parsed.
\* idmef_path_parse_new refuses a name that is as deep as a path can be.
idmef_path_create(t, n) ==
    /\ Idle(t) /\ ~ destroyed /\ Room(t)
    /\ arg' = [arg EXCEPT ![t] = n]
    /\ IF prelude_hash_get(n) # None
       THEN /\ obj' = [obj EXCEPT ![t] = prelude_hash_get(n)] /\ Goto(t, "ref")
            /\ UNCHANGED <<state, name, refcount>>
       ELSE \E p \in Paths :
            /\ Fresh(p) /\ Len(n) < MAX_DEPTH
            /\ state' = [state EXCEPT ![p] = "allocated"] /\ name' = [name EXCEPT ![p] = n]
            /\ refcount' = [refcount EXCEPT ![p] = 1]
            /\ obj' = [obj EXCEPT ![t] = p] /\ Goto(t, "add")
    /\ UNCHANGED <<program, table, destroyed, handles>>

\* prelude_hash_add: nobody looks whether the name was added meanwhile.
prelude_hash_add(t) ==
    /\ pc[t] = "add"
    /\ table' = <<[path |-> obj[t], list |-> Hash(name[obj[t]])]>> \o table
    /\ Goto(t, "ref")
    /\ UNCHANGED <<program, state, name, refcount, destroyed, handles, arg, obj>>

\* Mutant: the caller gets the reference of the cache.
RefForgotten(t) ==
    /\ pc[t] = "ref"
    /\ handles' = [handles EXCEPT ![t][obj[t]] = @ + 1]
    /\ obj' = [obj EXCEPT ![t] = None] /\ arg' = [arg EXCEPT ![t] = <<>>]
    /\ Goto(t, "idle")
    /\ UNCHANGED <<program, state, name, refcount, table, destroyed>>

\* The reference of the caller, in both cases.
idmef_path_new_returns(t) ==
    /\ pc[t] = "ref"
    /\ refcount' = [refcount EXCEPT ![obj[t]] = @ + 1]
    /\ handles' = [handles EXCEPT ![t][obj[t]] = @ + 1]
    /\ obj' = [obj EXCEPT ![t] = None] /\ arg' = [arg EXCEPT ![t] = <<>>]
    /\ Goto(t, "idle")
    /\ UNCHANGED <<program, state, name, table, destroyed>>

-----------------------------------------------------------------------------
(* Modifications: idmef_path_set_index, idmef_path_undefine_index,         *)
(* idmef_path_make_child and idmef_path_make_parent.                       *)

\* What each makes of a name; the depth is checked before anything is done.
set_index(n, depth, i) == [n EXCEPT ![depth] = i]
make_child(n, i) == Append(n, i)
make_parent(n) == SubSeq(n, 1, Len(n) - 1)

Modified(n) ==
    {set_index(n, d, i) : d \in 1 .. Len(n), i \in Indexes}
    \cup (IF Len(n) < MAX_DEPTH THEN {make_child(n, i) : i \in Indexes} ELSE {})
    \cup (IF Len(n) > 0 THEN {make_parent(n)} ELSE {})

\* Mutant: the reference of the table is given back, its entry stays.
InvalidateKeepsEntry(t, p, n) ==
    /\ Idle(t) /\ program.modifies /\ Holds(t, p) /\ n \in Modified(name[p])
    /\ \/ refcount[p] = 1 /\ UNCHANGED refcount
       \/ /\ refcount[p] = 2 /\ Entries(name[p]) # {} /\ ~ destroyed
          /\ refcount' = [refcount EXCEPT ![p] = @ - 1]
    /\ obj' = [obj EXCEPT ![t] = p] /\ arg' = [arg EXCEPT ![t] = n]
    /\ Goto(t, "modify")
    /\ UNCHANGED <<program, state, name, table, destroyed, handles>>

\* With two references, the other one must be that of the table; the entry
\* that is removed is found by the name of the path.  Otherwise the path is
\* not modified.
invalidate(t, p, n) ==
    /\ Idle(t) /\ program.modifies /\ Holds(t, p) /\ n \in Modified(name[p])
    /\ \/ refcount[p] = 1 /\ UNCHANGED <<table, refcount>>
       \/ /\ refcount[p] = 2 /\ Entries(name[p]) # {} /\ ~ destroyed
          /\ table' = Unlinked(name[p]) /\ refcount' = [refcount EXCEPT ![p] = @ - 1]
    /\ obj' = [obj EXCEPT ![t] = p] /\ arg' = [arg EXCEPT ![t] = n]
    /\ Goto(t, "modify")
    /\ UNCHANGED <<program, state, name, destroyed, handles>>

build_name(t) ==
    /\ pc[t] = "modify"
    /\ name' = [name EXCEPT ![obj[t]] = arg[t]]
    /\ obj' = [obj EXCEPT ![t] = None] /\ arg' = [arg EXCEPT ![t] = <<>>]
    /\ Goto(t, "idle")
    /\ UNCHANGED <<program, state, refcount, table, destroyed, handles>>

-----------------------------------------------------------------------------
idmef_path_ref(t, p) ==
    /\ Idle(t) /\ program.refs /\ Holds(t, p) /\ Room(t)
    /\ refcount' = [refcount EXCEPT ![p] = @ + 1]
    /\ handles' = [handles EXCEPT ![t][p] = @ + 1]
    /\ UNCHANGED <<program, state, name, table, destroyed, thread>>

\* A copy is not cached.
idmef_path_clone(t, p) ==
    /\ Idle(t) /\ program.clones /\ Holds(t, p) /\ Room(t)
    /\ \E q \in Paths :
        /\ Fresh(q)
        /\ state' = [state EXCEPT ![q] = "allocated"] /\ name' = [name EXCEPT ![q] = name[p]]
        /\ refcount' = [refcount EXCEPT ![q] = 1]
        /\ handles' = [handles EXCEPT ![t][q] = @ + 1]
    /\ UNCHANGED <<program, table, destroyed, thread>>

idmef_path_destroy(t, p) ==
    /\ Idle(t) /\ Holds(t, p)
    /\ refcount' = [refcount EXCEPT ![p] = @ - 1]
    /\ state' = [state EXCEPT ![p] = IF refcount[p] = 1 THEN "freed" ELSE @]
    /\ handles' = [handles EXCEPT ![t][p] = @ - 1]
    /\ UNCHANGED <<program, name, table, destroyed, thread>>

\* Every entry gives its reference back (prelude_deinit).
_idmef_path_cache_destroy ==
    /\ ~ destroyed /\ table # <<>> /\ \A t \in Threads : pc[t] = "idle"
    /\ destroyed' = TRUE /\ table' = <<>>
    /\ refcount' = [p \in Paths |-> refcount[p] - Cardinality(Cached(p))]
    /\ state' = [p \in Paths |-> IF Cached(p) # {} /\ refcount'[p] = 0 THEN "freed" ELSE state[p]]
    /\ UNCHANGED <<program, name, handles, thread>>

ThreadStep(t) == prelude_hash_add(t) \/ idmef_path_new_returns(t) \/ build_name(t)

Next ==
    \/ \E t \in Threads : ThreadStep(t)
    \/ \E t \in Threads, n \in Names : idmef_path_create(t, n)
    \/ \E t \in Threads, p \in Paths :
        \/ idmef_path_ref(t, p) \/ idmef_path_clone(t, p) \/ idmef_path_destroy(t, p)
        \/ \E n \in Modified(name[p]) : invalidate(t, p, n)
    \/ _idmef_path_cache_destroy

Spec == Init /\ [][Next]_vars

-----------------------------------------------------------------------------
\* Pointers to a path: those that threads hold, those of the table, and those
\* in the hands of calls that have not returned yet.
Pointers(p) ==
    Cardinality(Cached(p)) + Cardinality({h \in Threads \X (1 .. MaxHandles) : h[2] <= handles[h[1]][p]})

\* A path to which there is a pointer is not freed, and its reference count is
\* the number of pointers, so that it is freed with the last of them: through
\* lookups that find a path in one step and take a reference in another, two
\* threads that add one name twice, and modifications that remove an entry.
RefcountExact ==
    \A p \in Paths :
        LET inside == Cardinality({t \in Threads : pc[t] = "add" /\ obj[t] = p})
        IN  IF state[p] = "allocated" THEN refcount[p] = Pointers(p) + inside
            ELSE Pointers(p) = 0 /\ \A t \in Threads : obj[t] # p

\* The comment of invalidate: a path is modified only if the caller is the only
\* entity that has a pointer to it.  It is not in the table, no other call has
\* it in hand, nobody else holds it.
ModifiesOwn ==
    [][\A p \in Paths :
        state[p] = "allocated" /\ name'[p] # name[p] =>
            /\ Pointers(p) = 1 /\ Cached(p) = {}
            /\ Cardinality({t \in Threads : obj[t] = p}) = 1]_vars

\* A modified path is not found under the name it had: every entry of the table
\* is in the list of the present name of its path, where a lookup of that name
\* meets it, or an entry of the same name before it; and a caller gets a path
\* with the name it asked for.
FoundByName ==
    /\ \A i \in 1 .. Len(table) : table[i].list = Hash(name[table[i].path])
    /\ \A t \in Threads : pc[t] \in {"add", "ref"} => name[obj[t]] = arg[t]

=============================================================================
