------------------------------ MODULE MCDomTree ------------------------------
EXTENDS DomTree

\* Two nodes in the root, a third in the first of them
Documents == {<<Root, Root, 1>>}

\* Two changes of the document, or one and a failure, and what they lead to
FewChanges == changes + faults <= 2

=============================================================================
