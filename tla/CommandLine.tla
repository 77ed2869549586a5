---------------------------- MODULE CommandLine ----------------------------
(***************************************************************************)
(* What the command line promises its user: keys are interpreted in the    *)
(* order they were pressed, each once, by a line editor with room for      *)
(* MaxLine characters.  A full line takes nothing but Enter.               *)
(***************************************************************************)
EXTENDS Integers, Sequences

CONSTANTS Chars, Enter, Rub, MaxLine

VARIABLES
    keys,   \* pressed, not interpreted
    line,   \* the line being edited
    ran     \* the last line executed

vars == <<keys, line, ran>>

Init == keys = <<>> /\ line = <<>> /\ ran = <<>>

Press ==
    /\ \E k \in Chars \union {Enter, Rub} : keys' = Append(keys, k)
    /\ UNCHANGED <<line, ran>>

Edit(k) ==
    IF Len(line) = MaxLine THEN line
    ELSE IF k # Rub THEN Append(line, k)
    ELSE IF line = <<>> THEN line ELSE SubSeq(line, 1, Len(line) - 1)

Interpret ==
    /\ keys # <<>>
    /\ keys' = Tail(keys)
    /\ IF Head(keys) = Enter
       THEN ran' = line /\ line' = <<>>
       ELSE line' = Edit(Head(keys)) /\ UNCHANGED ran

(* The session is over, or a new one begins. *)
HangUp == keys' = <<>> /\ line' = <<>> /\ ran' = <<>>

Next == Press \/ Interpret \/ HangUp

Spec == Init /\ [][Next]_vars /\ WF_vars(Interpret)
=============================================================================
