------------------------------- MODULE MCPrompt -------------------------------
EXTENDS Prompt

\* The regions of the code, to scale: the on-screen keyboard takes rows from the bottom.
Tops     == [osk |-> 1, full |-> 1, window |-> 0]
Bots     == [osk |-> 1, full |-> 2, window |-> 1]
Widths   == [osk |-> 1, full |-> 2, window |-> 1]
FewLines == {<<>>, <<"a">>, <<"b">>, <<"a", "b">>}
ThePlaces == {"osk", "full", "window"}
=============================================================================
