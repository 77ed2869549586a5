------------------------------ MODULE ListSeqs ------------------------------
(***************************************************************************)
(* What the linked lists promise: each head stands for a sequence of       *)
(* entries, an entry is in one of them at most, and every call changes     *)
(* them as its comment says.                                               *)
(***************************************************************************)
EXTENDS Integers, Sequences, Sublists

CONSTANTS ListHeads, Entries

VARIABLES
    lists,
    call        \* the last call and its arguments

listsVars == <<lists, call>>

Contents(h) == {lists[h][i] : i \in DOMAIN lists[h]}
Free(e) == \A h \in ListHeads : e \notin Contents(h)
Without(e) == [h \in ListHeads |-> Sublist(lists[h], Entries \ {e})]

Add(e, h) ==
    /\ \/ call' = <<"add", e, h>> /\ lists' = [lists EXCEPT ![h] = <<e>> \o @]
       \/ call' = <<"add_tail", e, h>> /\ lists' = [lists EXCEPT ![h] = Append(@, e)]
    /\ Free(e)

Delete(e) == call' = <<"del", e>> /\ lists' = Without(e)

Move(e, h) ==
    /\ \/ call' = <<"move", e, h>> /\ lists' = [Without(e) EXCEPT ![h] = <<e>> \o @]
       \/ call' = <<"move_tail", e, h>> /\ lists' = [Without(e) EXCEPT ![h] = Append(@, e)]
    /\ ~Free(e)

(* f takes e's place. *)
Replace(e, f) ==
    /\ call' = <<"replace", e, f>>
    /\ Free(f) /\ ~Free(e)
    /\ lists' = [h \in ListHeads |-> [i \in DOMAIN lists[h] |-> IF lists[h][i] = e THEN f ELSE lists[h][i]]]

(* A head is moved: h takes over what g had. *)
ReplaceHead(g, h) ==
    /\ call' = <<"replace", g, h>>
    /\ lists[h] = <<>>
    /\ lists' = [lists EXCEPT ![h] = lists[g], ![g] = <<>>]

RotateLeft(h) ==
    /\ call' = <<"rotate_left", h>>
    /\ lists' = IF lists[h] = <<>> THEN lists ELSE [lists EXCEPT ![h] = Append(Tail(@), Head(@))]

(* The first n entries of g go to h. *)
Cut(g, n, h) ==
    /\ call' = <<"cut", g, n, h>>
    /\ lists[h] = <<>>
    /\ lists' = [lists EXCEPT ![h] = SubSeq(lists[g], 1, n), ![g] = SubSeq(@, n + 1, Len(@))]

Splice(g, h) ==
    \/ call' = <<"splice", g, h>> /\ lists' = [lists EXCEPT ![h] = lists[g] \o @, ![g] = <<>>]
    \/ call' = <<"splice_tail", g, h>> /\ lists' = [lists EXCEPT ![h] = @ \o lists[g], ![g] = <<>>]

ListsInit == lists = [h \in ListHeads |-> <<>>] /\ call = <<"none">>

ListsNext ==
    \/ \E e \in Entries :
        \/ Delete(e)
        \/ \E h \in ListHeads : Add(e, h) \/ Move(e, h)
        \/ \E f \in Entries : Replace(e, f)
    \/ \E g, h \in ListHeads :
        \/ RotateLeft(g)
        \/ g # h /\ (ReplaceHead(g, h) \/ Splice(g, h) \/ \E n \in 0..Len(lists[g]) : Cut(g, n, h))

ListsSpec == ListsInit /\ [][ListsNext]_listsVars
=============================================================================
