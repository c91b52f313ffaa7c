------------------------------- MODULE MCParts ------------------------------
(* The parts of the system that run on their own, each checked in the         *)
(* behaviours that are its: those of AppParts, and the lists of a feed, the   *)
(* boundary to the scripts, a document that a script takes apart, and what it *)
(* encodes and signs.                                                         *)
EXTENDS AppParts, ScriptBridge

CONSTANTS Id, PageCursor, MaxPages, MaxItems,            \* FeedPages
          Selector, Safe, HexOf, Pairs, Broken, Anything, Tag, MaxNodes,               \* HtmlTree
          Numbers, FieldNumbers, Payloads, MaxFields, MaxField, MaxSafeInteger, MaxMessage,
          SampleBytes, MaxBytes, SmallBytes, MaxData, BlockSize, MaxExpansion          \* ScriptCodecs

VARIABLES
    reader, operation, step, auth, fetched, ahead, takenItems, delivered, failure, output,
    tree, document, locked, selected, nodes, array, builds, asked,
    codec, message, written, torn, job

\* Two feeds; every book is of the first.
TwoFeeds == {"f", "g"}
OfFirst == [b \in Book |-> CHOOSE f \in TwoFeeds : TRUE]
Lists == INSTANCE FeedPages WITH taken <- takenItems

On(rule) == [rule |-> rule, enabled |-> TRUE]
Off(rule) == [rule |-> rule, enabled |-> FALSE]
SomeEntries == {
    <<On([kind |-> "dedup"]), On([kind |-> "delete", pattern |-> "traditional", titles |-> TRUE])>>,
    <<On([kind |-> "convert"]), Off([kind |-> "indent", spaces |-> 9])>>,
    <<On([kind |-> "replace", pattern |-> "broken", titles |-> FALSE]), On([kind |-> "split"])>>}
Par(kind, id, ad) == [kind |-> kind, id |-> id, path |-> <<>>, ad |-> ad, script |-> "simplified", indent |-> 0]
SomeChapters == {<<Par("title", 1, TRUE), Par("text", 2, TRUE), Par("title", 3, FALSE), Par("text", 4, FALSE)>>}

SomeLeaves == {Bare(k) : k \in {"undefined", "null", "bigint", "function", "symbol"}}
              \cup {Val("int", "1"), Val("float", "1"), Val("float", "0.5"), Val("float", "NaN"),
                    Val("string", "a"), Val("string", "long"), Val("bytes", "a")}

SomeSelectors == {[tag |-> "p", below |-> Anything], [tag |-> Anything, below |-> "p"]}
Hex == [c \in {"&", "=", "%"} |-> <<CASE c = "&" -> "2" [] c = "=" -> "3" [] c = "%" -> "0", "x">>]
Texts == SeqOf({"a", "&", "%"}, 1)
SomePairs == {<<>>, <<<<<<"a">>>>>>} \cup {<<<<x, y>>>> : x, y \in Texts} \cup {<<<<x, y>>, <<<<>>, <<>>>>>> : x, y \in Texts}
Html == INSTANCE HtmlTree WITH stage <- builds, pending <- selected

SomePayloads == {<<>>, <<9>>, <<8, 1>>, <<8, 1, 9>>}
Codecs == INSTANCE ScriptCodecs

SomeParagraphs == [kind : {"text"}, lines : {0, 1, 3, 7}, badge : BOOLEAN]
                  \cup [kind : {"title"}, lines : {1, 5}, badge : BOOLEAN]
                  \cup {[kind |-> "image", lines |-> 1, badge |-> FALSE]}
SomeHosts == {<<"b", "a">>, <<"b", ".", "a">>, <<"a", ".">>, <<"b", ".", "a", ".">>}
SomeDomains == {[wild |-> FALSE, name |-> <<"b">>], [wild |-> TRUE, name |-> <<"a">>]}

listVars == <<reader, operation, step, auth, fetched, ahead, takenItems, delivered, failure, output>>
htmlVars == <<tree, document, locked, selected, nodes, array, builds, asked>>
codecVars == <<codec, message, written, torn, job>>
vars == <<appVars, listVars, bridgeVars, htmlVars, codecVars>>

Part == {"search", "thread", "shelf", "pages", "http", "lists", "settings", "bridge", "html", "progress", "marks", "codecs"}
Init == /\ part \in Part
        /\ AppInit /\ BridgeInit
        /\ Lists!PagesInit /\ (part # "lists" => reader = "app" /\ operation = "search")
        /\ IF part = "html" THEN Html!HtmlInit
           ELSE tree = [up |-> <<>>, tag |-> <<"html">>, kids |-> <<<<>>>>] /\ Html!HtmlIdle
        /\ Codecs!CodecInit /\ (part # "codecs" => codec = "pairs")
Next ==
    \/ AppNext /\ UNCHANGED <<listVars, bridgeVars, htmlVars, codecVars>>
    \/ part = "lists" /\ Lists!PagesNext /\ UNCHANGED <<appVars, bridgeVars, htmlVars, codecVars>>
    \/ part = "bridge" /\ BridgeNext /\ UNCHANGED <<appVars, listVars, htmlVars, codecVars>>
    \/ part = "html" /\ Html!HtmlNext /\ UNCHANGED <<appVars, listVars, bridgeVars, codecVars>>
    \/ part = "codecs" /\ Codecs!CodecNext /\ UNCHANGED <<appVars, listVars, bridgeVars, htmlVars>>
Spec == Init /\ [][Next]_vars

\* Lists are what the pages of the feed hold, chapters what the rules make of them.
ContentTrue == /\ part = "lists" => Lists!ListsTrue
               /\ part = "settings" => Settings!ChapterTransformed
\* Values cross to the scripts and back unharmed, and a document reads as it is.
ScriptsTrue == /\ part = "bridge" => BridgeTrue
               /\ part = "html" => Html!TraversalTrue
               /\ part = "codecs" => Codecs!CodecsTrue
=============================================================================
