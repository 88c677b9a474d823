-------------------------------- MODULE Talloc --------------------------------
(***************************************************************************)
(* talloc.c: the tree of memory PRoot keeps everything in.  A chunk has    *)
(* one parent; it is shared by references, which are chunks themselves,    *)
(* children of the sharing owner.  Pools, memory limits, references of the *)
(* null context and destructors that refuse are left out: PRoot has none.  *)
(***************************************************************************)
EXTENDS Integers, SequencesExt

CONSTANTS Memory,       \* the addresses a chunk can have
          Top,          \* what a chunk without parent belongs to
          MaxAllocs     \* bound: chunks allocated in a behaviour

VARIABLES mem,          \* the chunks, by address
          allocs,       \* number of chunks allocated so far
          owned         \* what mem says of who owns what, see Owned

memVars == <<mem, allocs, owned>>

\* A null_context, or none, is the parent of what has no other: Top.
Null == Top
Chunk(parent, ptr) ==
    [live |-> TRUE, parent |-> parent, child |-> <<>>, refs |-> <<>>, ptr |-> ptr, name |-> Null]
NoChunk == [Chunk(Null, Null) EXCEPT !.live = FALSE]

Live(m) == {c \in Memory : m[c].live}
IsHandle(m, c) == m[c].ptr # Null
Objects(m) == {c \in Live(m) : ~IsHandle(m, c)}
NamesIn(m) == {m[c].name : c \in Live(m)}

\* talloc_parent_chunk(): the list is walked to its head, which knows the parent.
ParentChunk(m, c) == m[c].parent

\* _TLIST_ADD and _TLIST_REMOVE on a list of children.
Hung(m, c, ctx) ==
    LET m1 == [m EXCEPT ![c].parent = ctx]
    IN IF ctx = Null THEN m1 ELSE [m1 EXCEPT ![ctx].child = <<c>> \o @]
Unhung(m, c) ==
    LET p == m[c].parent
    IN IF p = Null THEN m ELSE [m EXCEPT ![p].child = SelectSeq(@, LAMBDA x : x # c)]

NewChunk(m, c, ctx, ptr) == Hung([m EXCEPT ![c] = Chunk(Null, ptr)], c, ctx)

\* _talloc_steal_internal().
StealInternal(m, new, c) ==
    IF c = new \/ (new # Null /\ m[c].parent = new) THEN m ELSE Hung(Unhung(m, c), c, new)

\* talloc_reference_destructor().
DestructorRun(m, c) ==
    IF IsHandle(m, c) THEN [m EXCEPT ![m[c].ptr].refs = SelectSeq(@, LAMBDA x : x # c)] ELSE m

RECURSIVE IsParent(_, _, _)
IsParent(m, c, p) == c # Null /\ (c = p \/ IsParent(m, ParentChunk(m, c), p))

\* _tc_free_internal() and _tc_free_children_internal(): the memory after it, and whether the
\* chunk was freed.  A child that is not is shared and goes to the owner of its latest
\* reference; parents and the null context get what a destructor refuses to give up.
AbandonedTo_Null(m, child) == Null
AbandonedTo(m, child) == ParentChunk(m, Head(m[child].refs))
Adopted(m, c, child, new) == IF ParentChunk(m, child) = c THEN StealInternal(m, new, child) ELSE m

RECURSIVE FreeInternal(_, _), FreeChildren(_, _)
FreeChildren(m, c) ==
    IF m[c].child = <<>> THEN m
    ELSE LET child == Head(m[c].child)
             freed == FreeInternal(m, child)
         IN FreeChildren(IF freed.ok THEN freed.mem
                         ELSE Adopted(freed.mem, c, child, AbandonedTo(m, child)), c)

FreeInternal(m, c) ==
    IF m[c].refs # <<>>
      THEN LET back  == IsParent(m, Head(m[c].refs), c)
               unref == FreeInternal(m, Head(m[c].refs)).mem
           IN IF back THEN FreeInternal(unref, c) ELSE [mem |-> unref, ok |-> FALSE]
      ELSE [mem |-> [FreeChildren(Unhung(DestructorRun(m, c), c), c) EXCEPT ![c] = NoChunk], ok |-> TRUE]

\* talloc_unreference(): the latest reference that hangs off the context.
RefsOf(m, ctx, c) == SelectSeq(m[c].refs, LAMBDA h : ParentChunk(m, h) = ctx)

\* talloc_unlink(): a reference first, then the parent, whose place a reference takes.
Unlinked(m, ctx, c) ==
    IF RefsOf(m, ctx, c) # <<>> THEN FreeInternal(m, Head(RefsOf(m, ctx, c))).mem
    ELSE IF ctx # ParentChunk(m, c) THEN m
    ELSE IF m[c].refs = <<>> THEN FreeInternal(m, c).mem
    ELSE LET new == ParentChunk(m, Head(m[c].refs))
         IN StealInternal(FreeInternal(m, Head(RefsOf(m, new, c))).mem, new, c)

-------------------------------------------------------------------------------
\* PRoot never makes a piece of memory its own owner, by whatever chain.
RECURSIVE OwnersOf(_, _)
OwnersOf(m, ctxs) ==
    LET more == ctxs \cup {m[c].parent : c \in ctxs \ {Null}}
                     \cup {m[h].parent : h \in UNION {ToSet(m[c].refs) : c \in ctxs \ {Null}}}
    IN IF more = ctxs THEN ctxs ELSE OwnersOf(m, more)
MayOwn(ctx, c) == c \notin OwnersOf(mem, {ctx})

Pointers == Objects(mem) \ NamesIn(mem)
Contexts == Pointers \cup {Null}
Fresh == CHOOSE c \in Memory : ~mem[c].live

CanAlloc == allocs < MaxAllocs /\ \E c \in Memory : ~mem[c].live
Allocate(ctx, ptr) ==
    /\ CanAlloc
    /\ allocs' = allocs + 1
    /\ mem' = NewChunk(mem, Fresh, ctx, ptr)

\* talloc_size(), talloc_strdup(), talloc_zero()... all end in __talloc().
Talloc(ctx) == Allocate(ctx, Null)

\* _talloc_reference_loc().
TallocReference(ctx, c) ==
    /\ MayOwn(ctx, c)
    /\ CanAlloc
    /\ allocs' = allocs + 1
    /\ mem' = [NewChunk(mem, Fresh, ctx, c) EXCEPT ![c].refs = <<Fresh>> \o @]

\* _talloc_free() and TALLOC_FREE(): refused if it is not clear who gets a shared chunk.
TallocFree(c) ==
    /\ UNCHANGED allocs
    /\ mem' = IF mem[c].refs = <<>> THEN FreeInternal(mem, c).mem
              ELSE IF mem[c].parent = Null /\ Len(mem[c].refs) = 1 THEN Unlinked(mem, Null, c)
              ELSE mem

\* talloc_unlink(), and talloc_realloc() to size zero.
TallocUnlink(ctx, c) ==
    /\ UNCHANGED allocs
    /\ mem' = Unlinked(mem, ctx, c)

\* talloc_reparent(), talloc_steal(), talloc_move(): the parent or a reference moves.
TallocReparent(old, new, c) ==
    /\ MayOwn(new, c)
    /\ UNCHANGED allocs
    /\ mem' = IF old = ParentChunk(mem, c) THEN StealInternal(mem, new, c)
              ELSE IF RefsOf(mem, old, c) = <<>> THEN mem
              ELSE StealInternal(mem, new, Head(RefsOf(mem, old, c)))

\* talloc_set_name(): the name is a child of what it names.
TallocSetName(c) ==
    /\ mem[c].name = Null
    /\ CanAlloc
    /\ allocs' = allocs + 1
    /\ mem' = [NewChunk(mem, Fresh, c, Null) EXCEPT ![c].name = Fresh]

\* talloc_free_children(): all but the name, which is taken out and put back.
TallocFreeChildren(c) ==
    /\ UNCHANGED allocs
    /\ LET named == mem[c].name \in ToSet(mem[c].child)
           alone == IF named THEN Unhung(mem, mem[c].name) ELSE mem
           freed == FreeChildren(alone, c)
       IN mem' = IF named THEN Hung(freed, mem[c].name, c) ELSE freed

\* How often each owner holds each piece of memory: as a parent, and by references.
Owned(m) ==
    [c \in Objects(m) |->
       [o \in Memory \cup {Top} |-> (IF m[c].parent = o THEN 1 ELSE 0)
                                   + Cardinality({h \in ToSet(m[c].refs) : m[h].parent = o})]]

MemInit == mem = [c \in Memory |-> NoChunk] /\ allocs = 0 /\ owned = Owned(mem)

MemCall ==
    \/ \E ctx \in Contexts : Talloc(ctx)
    \/ \E c \in Pointers :
         \/ TallocFree(c) \/ TallocSetName(c) \/ TallocFreeChildren(c)
         \/ \E ctx \in Pointers : TallocReference(ctx, c)
         \/ \E ctx \in Contexts : TallocUnlink(ctx, c)
         \/ \E old \in Contexts, new \in Pointers : TallocReparent(old, new, c)

MemNext == MemCall /\ owned' = Owned(mem')

MemSpec == MemInit /\ [][MemNext]_memVars
-------------------------------------------------------------------------------
\* A chunk is in the list of its parent, a reference in the list of what it refers
\* to, and neither leads to freed memory.
TreeSound ==
    \A c \in Live(mem) :
      /\ mem[c].parent # Null => mem[mem[c].parent].live /\ c \in ToSet(mem[mem[c].parent].child)
      /\ \A x \in ToSet(mem[c].child) : mem[x].live /\ mem[x].parent = c
      /\ IsHandle(mem, c) => mem[mem[c].ptr].live /\ c \in ToSet(mem[mem[c].ptr].refs)
      /\ \A h \in ToSet(mem[c].refs) : mem[h].live /\ mem[h].ptr = c

\* "the pointer remains valid until both the original caller and this given context
\* are freed": whatever is shared, moved, unlinked and freed, exactly what has an
\* owner lives, and has the owners it was given.
Promises == INSTANCE OwnerGraph WITH owners <- owned
OwnersDecide == Promises!OwnerSpec
===============================================================================
