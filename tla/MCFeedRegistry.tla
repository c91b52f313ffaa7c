--------------------------- MODULE MCFeedRegistry ---------------------------
(* Instances of FeedRegistry for TLC; the bounds are in the .cfg files.      *)
EXTENDS FeedRegistry

\* One feed in two versions of its script; the second writes its storage while
\* it loads, so that it does not load before the storage is attached.
Scripts == {[feed |-> "f", version |-> 1, body |-> "plain"],
            [feed |-> "f", version |-> 2, body |-> "early"]}
=============================================================================
