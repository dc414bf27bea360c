--------------------------- MODULE MCMicrorlHistory ---------------------------
\* Lines of every length up to one that never fits, blanks at their ends and in
\* their middle.  A letter has the code 7, which is no length in so small a ring.
EXTENDS MicrorlHistory
EnteredLines == {<<7>>, <<7, 8>>, <<7, 0, 8>>, <<8, 8, 7, 0>>, <<7, 8, 7, 8, 7>>, <<7, 7, 7, 7, 7, 7>>,
                 <<7, 7, 7, 7, 7, 7, 8>>}
=============================================================================
