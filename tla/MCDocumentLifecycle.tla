------------------------ MODULE MCDocumentLifecycle ------------------------
(* The parameters of DocumentLifecycle for TLC. *)
EXTENDS DocumentInvariant, TLC

CONSTANTS c1, c2

\* What parsing may return, by nature of the document: always the same text;
\* nothing; text that a second reading cuts differently; a backend that answers
\* one time and fails the other.
Stable   == {{c1, c2}}
Broken   == {{}}
Unstable == {{c1}, {c2}}
Flaky(c) == {{}, {c}}

AllProfiles      == {Stable, Broken, Unstable}
StableOrUnstable == {Stable, Unstable}
OneChunkOrFlaky  == {{{c1}}, Flaky(c1)}
OnlyUnstable     == {Unstable}
OnlyStable       == {Stable}

\* Nothing is promised of a contended document, so a search for a broken promise
\* need not go on from there when there is one document.
Uncontended == contended = {}

Symmetry == Permutations(Worker)
=============================================================================
