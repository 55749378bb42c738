------------------------------ MODULE MCFilter ------------------------------
(***************************************************************************)
(* An instance of Filter for TLC.                                          *)
(***************************************************************************)
EXTENDS Filter

Letters == {"a", "."}

Strings(chars, n) == UNION {[1..i -> chars] : i \in 1..n}

\* Every name of three characters.
ShortNames == Strings(Letters, 3)

\* Every entry of two characters, and of three those that put stars at the
\* ends, inside, twice and thrice next to a name they overlap with.
MixedEntries ==
    Strings(Letters \cup {"*"}, 2)
        \cup {<<"a", ".", "a">>, <<"a", "*", "a">>, <<"a", ".", "*">>,
              <<"*", ".", "a">>, <<"*", ".", "*">>, <<"*", "*", "*">>}
=============================================================================
