------------------------------ MODULE MCConsole -------------------------------
(***************************************************************************)
(* Console for TLC: what is written at once.                               *)
(***************************************************************************)
EXTENDS Console

\* No text, a word, one longer than every buffer, and mixtures with the
\* characters that move the cursor.
MCTexts == {<<>>, <<"x", "x">>, <<"x", "newline", "x", "tab", "x">>,
            <<"backspace", "x", "tab">>}

\* Zero, the least number of one byte, and one with a zero among its digits.
MCNumbers == {0, -128, 107}
=============================================================================
