--------------------------- MODULE MCCallMarshal ----------------------------
EXTENDS CallMarshal, TLC

\* A method with a word besides the thread, and one with a wide parameter before
\* a word. The index of the latter's word, when it is left behind by a call that
\* failed, is the number of no method: the core takes it and does nothing.
MCParams == 0 :> <<"thread", "word">> @@ 1 :> <<"thread", "wide", "word">>
MCResult == 0 :> "word" @@ 1 :> "void"

=============================================================================
