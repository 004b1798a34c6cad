----------------------------- MODULE MCLz4Frame -----------------------------
EXTENDS Lz4Frame

\* No dictionary, a short one, and one longer than the window.
MCDictionaries == {<<>>, <<"a">>, <<"a", "b", "b">>}
=============================================================================
