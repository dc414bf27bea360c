------------------------------ MODULE MCMicrorl ------------------------------
EXTENDS Microrl

\* Two commands of the letter that is typed, one the beginning of the other, and one
\* of a letter that is not.
MCCommands == {<<65, 65, 65, 65>>, <<65, 65>>, <<66>>}
=============================================================================
