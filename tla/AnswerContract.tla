--------------------------- MODULE AnswerContract ---------------------------
(***************************************************************************)
(* What an HTTP/1.1 connection promises its client, whatever produces the   *)
(* answers: requests are taken one at a time, each gets one answer, answers *)
(* are neither interleaved nor spliced into one another, and nothing counts *)
(* after the answer that says close, or after the connection is dropped.    *)
(***************************************************************************)
EXTENDS Integers

CONSTANT Conns

VARIABLES
    asked,  \* requests taken, per connection
    begun,  \* answers begun
    ended,  \* answers complete
    shut    \* the closing answer is complete, or the connection was dropped

vars == <<asked, begun, ended, shut>>

Init ==
    /\ asked = [c \in Conns |-> 0]
    /\ begun = [c \in Conns |-> 0]
    /\ ended = [c \in Conns |-> 0]
    /\ shut = [c \in Conns |-> FALSE]

More(f, c) == [f EXCEPT ![c] = @ + 1]

\* Any step may also be the connection's last.
MayShut(c) == shut' \in {shut, [shut EXCEPT ![c] = TRUE]}

\* The next request is taken, its predecessor being answered in full.
Take(c) ==
    /\ asked[c] = ended[c]
    /\ asked' = More(asked, c)
    /\ UNCHANGED <<begun, ended>>

\* The request taken gets the first part of its answer.
Begin(c) ==
    /\ begun[c] = ended[c] /\ asked[c] = begun[c] + 1
    /\ begun' = More(begun, c)
    /\ UNCHANGED <<asked, ended>>

\* The answer under way gets its last part.
End(c) ==
    /\ begun[c] = ended[c] + 1
    /\ ended' = More(ended, c)
    /\ UNCHANGED <<asked, begun>>

\* The request taken is answered in one piece.
Answer(c) ==
    /\ begun[c] = ended[c] /\ asked[c] = begun[c] + 1
    /\ begun' = More(begun, c)
    /\ ended' = More(ended, c)
    /\ asked' = asked

\* A request is taken and answered at once.
TakeAndAnswer(c) ==
    /\ begun[c] = ended[c] /\ asked[c] = ended[c]
    /\ asked' = More(asked, c)
    /\ begun' = More(begun, c)
    /\ ended' = More(ended, c)

Drop(c) == UNCHANGED <<asked, begun, ended>>

Next ==
    \E c \in Conns :
       /\ ~shut[c]
       /\ MayShut(c)
       /\ Take(c) \/ Begin(c) \/ End(c) \/ Answer(c) \/ TakeAndAnswer(c) \/ Drop(c)

Spec == Init /\ [][Next]_vars
=============================================================================
