---------------------------- MODULE GenericList -----------------------------
(***************************************************************************)
(* The intrusive lists of utils/generic_list.h, pointer by pointer.        *)
(*                                                                         *)
(* mem is what the next and prev pointers of all list_head objects hold.   *)
(* Every operation is the sequence of its assignments: what one writes the *)
(* next may read, and two of the pointers may be the same object.          *)
(*                                                                         *)
(* list_del leaves an entry with null pointers; the callers (soft_timer.c) *)
(* add it to another list next.                                            *)
(***************************************************************************)
EXTENDS Integers, Sequences, FiniteSets

CONSTANTS ListHeads, Entries, Null

ASSUME NodesAssumption ==
    /\ ListHeads \intersect Entries = {} /\ Null \notin ListHeads \union Entries
    /\ IsFiniteSet(ListHeads \union Entries)

Nodes == ListHeads \union Entries

VARIABLES
    mem,
    call        \* history: the last call and its arguments

pointerVars == <<mem, call>>

(* n->next = v, n->prev = v *)
SetNext(m, n, v) == [m EXCEPT !.next[n] = v]
SetPrev(m, n, v) == [m EXCEPT !.prev[n] = v]

(* INIT_LIST_HEAD *)
InitHead(m, n) == SetPrev(SetNext(m, n, n), n, n)

(* __list_add *)
LinkBetween(m, new, prev, next) ==
    SetNext(SetPrev(SetNext(SetPrev(m, next, new), new, next), new, prev), prev, new)

(* list_add, list_add_tail *)
ListAdd(m, new, head) == LinkBetween(m, new, head, m.next[head])
ListAddTail(m, new, head) == LinkBetween(m, new, m.prev[head], head)

DelEntryOneWay(m, e) == \* mutant: next->prev = prev is left out
    SetNext(m, m.prev[e], m.next[e])

(* __list_del_entry *)
DelEntry(m, e) == SetNext(SetPrev(m, m.next[e], m.prev[e]), m.prev[e], m.next[e])

(* list_del_init, list_del *)
DelInit(m, e) == InitHead(DelEntry(m, e), e)
ListDel(m, e) == SetPrev(SetNext(DelEntry(m, e), e, Null), e, Null)

(* list_replace: new->next is read again once new is linked. *)
ListReplace(m, old, new) ==
    LET m1 == SetNext(m, new, m.next[old])
        m2 == SetPrev(m1, m1.next[new], new)
        m3 == SetPrev(m2, new, m2.prev[old])
    IN  SetNext(m3, m3.prev[new], new)

(* list_empty, list_is_singular *)
ListEmpty(m, h) == m.next[h] = h
ListIsSingular(m, h) == ~ListEmpty(m, h) /\ m.next[h] = m.prev[h]

(* list_cut_position *)
ListCutPosition(m, list, head, entry) ==
    IF ListEmpty(m, head) \/ (ListIsSingular(m, head) /\ m.next[head] # entry /\ head # entry) THEN m
    ELSE IF entry = head THEN InitHead(m, list)
    ELSE LET m1 == SetNext(m, list, m.next[head])
             m2 == SetPrev(m1, m1.next[list], list)
             m3 == SetNext(SetPrev(m2, list, entry), entry, list)
         IN  SetPrev(SetNext(m3, head, m.next[entry]), m.next[entry], head)

(* __list_splice *)
SpliceBetween(m, list, prev, next) ==
    LET m1 == SetNext(SetPrev(m, m.next[list], prev), prev, m.next[list])
    IN  SetPrev(SetNext(m1, m.prev[list], next), next, m.prev[list])

(* list_splice_init, list_splice_tail_init *)
ListSpliceInit(m, list, head) ==
    IF ListEmpty(m, list) THEN m ELSE InitHead(SpliceBetween(m, list, head, m.next[head]), list)
ListSpliceTailInit(m, list, head) ==
    IF ListEmpty(m, list) THEN m ELSE InitHead(SpliceBetween(m, list, m.prev[head], head), list)

(* list_rotate_left *)
ListRotateLeft(m, h) ==
    IF ListEmpty(m, h) THEN m ELSE LET e == m.next[h] IN ListAddTail(DelEntry(m, e), e, h)

-----------------------------------------------------------------------------
(* Walking a list as list_for_each does: the entries met before the head.  *)
(* A walk that does not come back to the head is cut off.                  *)
ListOf(m, h) ==
    LET max == Cardinality(Nodes)
        at[i \in 1..max] ==
            IF i = 1 THEN m.next[h] ELSE IF at[i - 1] = Null THEN Null ELSE m.next[at[i - 1]]
        back == {i \in 1..max : at[i] = h}
        n == IF back = {} THEN max ELSE (CHOOSE i \in back : \A j \in back : i <= j) - 1
    IN  [i \in 1..n |-> at[i]]

Linked(e) == mem.next[e] \notin {e, Null}

(* Every list_head starts as INIT_LIST_HEAD leaves it. *)
ListInit ==
    /\ mem = [next |-> [n \in Nodes |-> n], prev |-> [n \in Nodes |-> n]]
    /\ call = <<"none">>

AddCalls(e, h) ==
    /\ ~Linked(e)
    /\ \/ call' = <<"add", e, h>> /\ mem' = ListAdd(mem, e, h)
       \/ call' = <<"add_tail", e, h>> /\ mem' = ListAddTail(mem, e, h)

(* list_move, list_move_tail *)
MoveCalls(e, h) ==
    /\ Linked(e)
    /\ \/ call' = <<"move", e, h>> /\ mem' = ListAdd(DelEntry(mem, e), e, h)
       \/ call' = <<"move_tail", e, h>> /\ mem' = ListAddTail(DelEntry(mem, e), e, h)

(* list_del_init is called for un-linked entries too: twice, or never added. *)
DelCalls(e) ==
    /\ call' = <<"del", e>>
    /\ \/ mem.next[e] # Null /\ mem' = DelInit(mem, e)
       \/ Linked(e) /\ mem' = ListDel(mem, e)

(* list_replace_init: of an entry, or of a head that may be empty. *)
ReplaceCalls(old, new) ==
    /\ \/ old \in Entries /\ Linked(old) /\ new \in Entries /\ ~Linked(new)
       \/ old \in ListHeads /\ new \in ListHeads \ {old} /\ ListEmpty(mem, new)
    /\ call' = <<"replace", old, new>>
    /\ mem' = InitHead(ListReplace(mem, old, new), old)

RotateCall(h) == call' = <<"rotate_left", h>> /\ mem' = ListRotateLeft(mem, h)

SpliceCalls(g, h) ==
    /\ g # h
    /\ \/ call' = <<"splice", g, h>> /\ mem' = ListSpliceInit(mem, g, h)
       \/ call' = <<"splice_tail", g, h>> /\ mem' = ListSpliceTailInit(mem, g, h)

(* The entry at which g is cut is the n-th, or g itself.  (Other entries   *)
(* are refused if g has only one.)                                         *)
CutCalls(g, h) ==
    /\ g # h /\ ListEmpty(mem, h)
    /\ \E n \in 0..Len(ListOf(mem, g)) :
        /\ call' = <<"cut", g, n, h>>
        /\ mem' = ListCutPosition(mem, h, g, IF n = 0 THEN g ELSE ListOf(mem, g)[n])

ListNext ==
    \/ \E e \in Entries : DelCalls(e) \/ \E h \in ListHeads : AddCalls(e, h) \/ MoveCalls(e, h)
    \/ \E old, new \in Nodes : ReplaceCalls(old, new)
    \/ \E g, h \in ListHeads : SpliceCalls(g, h) \/ CutCalls(g, h)
    \/ \E h \in ListHeads : RotateCall(h)

ListSpec == ListInit /\ [][ListNext]_pointerVars

-----------------------------------------------------------------------------
(* Properties. *)

(* The lists are the sequences their callers take them for: every call     *)
(* does to them what its comment says, on empty lists, on lists of one     *)
(* entry, and on neighbours.                                               *)
Lists == [h \in ListHeads |-> ListOf(mem, h)]
AsSequences == INSTANCE ListSeqs WITH lists <- Lists
ImplementsLists == AsSequences!ListsSpec
=============================================================================
