--------------------------- MODULE MCChapterWindow ---------------------------
(* ChapterWindow for TLC.                                                    *)
EXTENDS ChapterWindow

\* One list of five chapters.
Five == {<<1, 2, 3, 4, 5>>}

\* The list of the book gains a chapter at its front.
Refreshed == {<<1, 2>>, <<3, 1, 2>>}
=============================================================================
