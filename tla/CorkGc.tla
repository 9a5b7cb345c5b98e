------------------------------- MODULE CorkGc -------------------------------
(***************************************************************************)
(* libcork's reference counts with collection of cycles (core/gc.c).  An   *)
(* object has some fields, in the order in which its recurse callback      *)
(* visits them; 0 is NULL.  gcHeld is the number of references to each    *)
(* object that the program holds outside of objects.                       *)
(***************************************************************************)
EXTENDS Integers, Sequences
LOCAL INSTANCE SequencesExt
LOCAL INSTANCE FiniteSets
LOCAL INSTANCE Functions

CONSTANTS
    GcObjects,     \* 1..n: the objects, each allocated at most once
    GcFields,      \* how many fields each has
    RootsSize,     \* ROOTS_SIZE
    MaxHeld        \* references the program holds to one object

ASSUME CorkGcAssumption ==
    GcObjects \subseteq Nat \ {0} /\ GcFields \in [GcObjects -> Nat] /\ RootsSize \in Nat \ {0} /\ MaxHeld \in Nat

VARIABLES gcHeap, gcHeld
gcVars == <<gcHeap, gcHeld>>

Header(o, st) == [state |-> st, count |-> 0, color |-> "black", buffered |-> FALSE,
                  fields |-> [k \in 1..GcFields[o] |-> 0]]

GcInit ==
    /\ gcHeap = [obj |-> [o \in GcObjects |-> Header(o, "none")], roots |-> <<>>, bad |-> FALSE]
    /\ gcHeld = [o \in GcObjects |-> 0]

\* Every write to a header; to a freed one it is an error.  A freed header
\* reads black ("In use or free" says GC_BLACK), as cork_gc_free leaves it
\* until the memory is used again: cork_gc_collect_white reads such headers.
Wrote(h, o) == [h EXCEPT !.bad = @ \/ h.obj[o].state # "live"]
SetColor(h, o, c) == [Wrote(h, o) EXCEPT !.obj[o].color = c]
SetBuffered(h, o, x) == [Wrote(h, o) EXCEPT !.obj[o].buffered = x]
AddCount(h, o, n) == [Wrote(h, o) EXCEPT !.obj[o].count = @ + n]

cork_gc_free(h, o) == [Wrote(h, o) EXCEPT !.obj[o] = Header(o, "freed")]

\* cork_gc_recurse: the callback on each field that is not NULL.
Children(h, o) == SelectSeq(h.obj[o].fields, LAMBDA c : c # 0)

cork_gc_incref(h, o) == SetColor(AddCount(h, o, 1), o, "black")

-----------------------------------------------------------------------------
RECURSIVE cork_gc_mark_gray(_, _), cork_gc_scan_black(_, _), cork_gc_scan(_, _),
          cork_gc_collect_white(_, _)

cork_gc_mark_gray(h, o) ==
    IF h.obj[o].color = "gray" THEN h
    ELSE FoldLeft(LAMBDA g, c : cork_gc_mark_gray(AddCount(g, c, -1), c),
                  SetColor(h, o, "gray"), Children(h, o))

ScanBlackForgets(h, o) ==   \* mutant: the counts below are not restored
    SetColor(h, o, "black")

cork_gc_scan_black(h, o) ==
    FoldLeft(LAMBDA g, c : LET a == AddCount(g, c, 1) IN
                           IF a.obj[c].color # "black" THEN cork_gc_scan_black(a, c) ELSE a,
             SetColor(h, o, "black"), Children(h, o))

cork_gc_scan(h, o) ==
    CASE h.obj[o].color # "gray" -> h
      [] h.obj[o].color = "gray" /\ h.obj[o].count > 0 -> cork_gc_scan_black(h, o)
      [] OTHER -> FoldLeft(cork_gc_scan, SetColor(h, o, "white"), Children(h, o))

cork_gc_collect_white(h, o) ==
    IF h.obj[o].color = "white" /\ ~h.obj[o].buffered
    THEN cork_gc_free(FoldLeft(cork_gc_collect_white, SetColor(h, o, "black"),
                               Children(h, o)), o)
    ELSE h

\* A root that is not purple any more leaves the buffer, and is freed when
\* cork_gc_release has left it there.
MarkRoot(h, i) ==
    LET o == h.roots[i]
        out == [SetBuffered(h, o, FALSE) EXCEPT !.roots[i] = 0]
    IN  IF h.obj[o].color = "purple" THEN cork_gc_mark_gray(h, o)
        ELSE IF h.obj[o].color = "black" /\ h.obj[o].count = 0 THEN cork_gc_free(out, o)
        ELSE out

ScanRoot(h, i) == IF h.roots[i] = 0 THEN h ELSE cork_gc_scan(h, h.roots[i])

CollectRoot(h, i) ==
    IF h.roots[i] = 0 THEN h
    ELSE cork_gc_collect_white(SetBuffered(h, h.roots[i], FALSE), h.roots[i])

cork_gc_collect_cycles(h) ==
    LET each == [i \in DOMAIN h.roots |-> i]
        marked == FoldLeft(MarkRoot, h, each)
        scanned == FoldLeft(ScanRoot, marked, each)
    IN  [FoldLeft(CollectRoot, scanned, each) EXCEPT !.roots = <<>>]

cork_gc_possible_root(h, o) ==
    LET p == SetColor(h, o, "purple")
        b == SetBuffered(p, o, TRUE)
        c == IF Len(b.roots) >= RootsSize THEN cork_gc_collect_cycles(b) ELSE b
    IN  IF h.obj[o].color = "purple" THEN h
        ELSE IF h.obj[o].buffered THEN p
        ELSE [c EXCEPT !.roots = Append(@, o)]

RECURSIVE cork_gc_decref(_, _)
cork_gc_release(h, o) ==
    LET r == SetColor(FoldLeft(cork_gc_decref, h, Children(h, o)), o, "black")
    IN  IF r.obj[o].buffered THEN r ELSE cork_gc_free(r, o)

cork_gc_decref(h, o) ==
    LET d == AddCount(h, o, -1) IN
    IF d.obj[o].count = 0 THEN cork_gc_release(d, o) ELSE cork_gc_possible_root(d, o)

-----------------------------------------------------------------------------
\* The program: it allocates, copies and drops references it holds, and
\* moves them into and out of the fields of objects it holds.
cork_gc_alloc(o) ==
    /\ gcHeap.obj[o].state = "none"
    /\ \A p \in GcObjects : p < o => gcHeap.obj[p].state # "none"
    /\ gcHeap' = [gcHeap EXCEPT !.obj[o] = [Header(o, "live") EXCEPT !.count = 1]]
    /\ gcHeld' = [gcHeld EXCEPT ![o] = 1]

GcCopy(o) ==
    /\ gcHeld[o] \in 1..(MaxHeld - 1)
    /\ gcHeap' = cork_gc_incref(gcHeap, o)
    /\ gcHeld' = [gcHeld EXCEPT ![o] = @ + 1]

GcDrop(o) ==
    /\ gcHeld[o] > 0
    /\ gcHeap' = cork_gc_decref(gcHeap, o)
    /\ gcHeld' = [gcHeld EXCEPT ![o] = @ - 1]

GcStore(o, k, c) ==
    /\ gcHeld[o] > 0 /\ gcHeld[c] > 0 /\ gcHeap.obj[o].fields[k] = 0
    /\ gcHeap' = [cork_gc_incref(gcHeap, c) EXCEPT !.obj[o].fields[k] = c]
    /\ UNCHANGED gcHeld

GcClear(o, k) ==
    /\ gcHeld[o] > 0 /\ gcHeap.obj[o].fields[k] # 0
    /\ gcHeap' = cork_gc_decref([gcHeap EXCEPT !.obj[o].fields[k] = 0],
                                gcHeap.obj[o].fields[k])
    /\ UNCHANGED gcHeld

cork_gc_done ==
    /\ gcHeap.roots # <<>>
    /\ gcHeap' = cork_gc_collect_cycles(gcHeap)
    /\ UNCHANGED gcHeld

GcNext ==
    \/ \E o \in GcObjects :
        \/ cork_gc_alloc(o) \/ GcCopy(o) \/ GcDrop(o)
        \/ \E k \in 1..GcFields[o] : GcClear(o, k) \/ \E c \in GcObjects : GcStore(o, k, c)
    \/ cork_gc_done

-----------------------------------------------------------------------------
\* The objects the program can still get at.
RECURSIVE Reached(_, _)
Reached(h, S) ==
    LET T == S \union UNION {Range(Children(h, o)) : o \in S}
    IN  IF T = S THEN S ELSE Reached(h, T)

Wanted == Reached(gcHeap, {o \in GcObjects : gcHeld[o] > 0})

\* The references to an object; one that is released has given up its own.
References(o) ==
    gcHeld[o] + Cardinality({f \in UNION {{p} \X (1..GcFields[p]) : p \in GcObjects} :
                                gcHeap.obj[f[1]].count > 0 /\ gcHeap.obj[f[1]].fields[f[2]] = o})

\* Collection is exact: an object in use is never freed and keeps the right
\* count, no freed object is written, an object whose count is 0 is freed or
\* waits in the buffer of roots, and after cork_gc_done with no roots left
\* nothing that is out of reach remains, cycles included.
CollectorExact ==
    /\ ~gcHeap.bad
    /\ \A o \in Wanted : gcHeap.obj[o].state = "live" /\ gcHeap.obj[o].count = References(o)
    /\ gcHeap.roots = <<>> =>
        \A o \in GcObjects \ Wanted : gcHeap.obj[o].state # "live"
=============================================================================
