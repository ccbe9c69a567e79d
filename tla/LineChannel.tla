---------------------------- MODULE LineChannel -----------------------------
(***************************************************************************)
(* What a coordinator and its partitioner expect of the pipes between      *)
(* them: whole lines, each once and in order.  Only a sender that dies may *)
(* leave its last line cut, and then nothing follows it.                   *)
(***************************************************************************)
EXTENDS Sequences, SequencesExt

CONSTANT Lines   \* the lines there are

VARIABLES
    sent,      \* the lines sent so far
    received,  \* the lines received so far
    dead       \* the sender has died

vars == <<sent, received, dead>>

Init == sent = <<>> /\ received = <<>> /\ dead = FALSE

Send ==
    /\ ~ dead
    /\ \E line \in Lines : sent' = Append(sent, line)
    /\ UNCHANGED <<received, dead>>

Die ==
    /\ dead' = TRUE
    /\ UNCHANGED <<sent, received>>

Intact == \A i \in DOMAIN received : received[i] = sent[i]

Receive ==
    /\ Intact
    /\ Len(received) < Len(sent)
    /\ \/ received' = Append(received, sent[Len(received) + 1])
       \/ /\ dead
          /\ Len(received) + 1 = Len(sent)
          /\ \E k \in 1 .. Len(sent[Len(sent)]) - 1 :
                received' = Append(received, SubSeq(sent[Len(sent)], 1, k))
    /\ UNCHANGED <<sent, dead>>

Next == Send \/ Die \/ Receive

Spec == Init /\ [][Next]_vars
=============================================================================
