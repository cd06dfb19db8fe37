---------------------------- MODULE MCAnswerPath ----------------------------
(* Instances of AnswerPath for TLC. *)
EXTENDS AnswerPath

CONSTANT c1

OneConn == {c1}
TwoReqs == 1 .. 2

AllAnswers == {"full", "file", "stream"}
\* Whole requests answered in every way; uploads whose handler takes the
\* request out of reqLoc_ with its first call.
Mixed == {[kinds |-> {"get", "head", "static", "refuse", "part", "rest"}, answers |-> AllAnswers],
          [kinds |-> {"get", "upload", "end", "junk"}, answers |-> {"full", "file"}]}
Trouble == {[kinds |-> {"upload", "end", "over"}, answers |-> AllAnswers],
            [kinds |-> {"head", "upload", "over"}, answers |-> {"full", "file"}]}
Uploads == {[kinds |-> {"get", "upload", "end", "junk"}, answers |-> AllAnswers]}
=============================================================================
