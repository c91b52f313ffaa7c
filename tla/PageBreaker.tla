----------------------------- MODULE PageBreaker ----------------------------
(* Pages of a chapter (page_breaker.dart): a resumable job that lays out one *)
(* paragraph after the other. A paragraph is so many lines; where a page     *)
(* ends it is split between two lines. An action is an iteration of the      *)
(* layout loop. The pages are one sequence of items, each with its page and  *)
(* its place on it.                                                          *)
EXTENDS Integers, Sequences, FiniteSets

CONSTANTS
    Paragraphs,    \* paragraphs: [kind, lines, badge]
    MaxLength,     \* bound on the paragraphs of a chapter
    PageHeights,   \* heights of a page, less its 4 pixels of grace
    LineHeight, ImageHeight,
    Spacing,       \* paragraphSpacing
    Tolerance,     \* what the last line may overhang: half a pixel
    BadgeRise,     \* what a badge adds to the last line
    BadgeSlack     \* held back from stretching for each badge on a page

Kind == {"title", "text", "image"}
ASSUME Measures == /\ PageHeights \subseteq Nat \ {0} /\ LineHeight \in Nat \ {0}
                   /\ ImageHeight \in Nat /\ Spacing \in Nat /\ Tolerance \in Nat
                   /\ BadgeRise \in Nat /\ BadgeSlack \in Nat /\ MaxLength \in Nat
ASSUME ParagraphsAre == Paragraphs \subseteq [kind : Kind, lines : Nat, badge : BOOLEAN]
ASSUME Sized == \A p \in Paragraphs : /\ p.kind = "title" => p.lines > 0
                                      /\ p.kind = "image" => p.lines = 1 /\ ~p.badge

VARIABLES
    items, pageHeight,   \* the chapter, and the page it is laid out for
    chunks,   \* PageItems in order: [par, from, to, rest, page, top, height, badge]
    extra,    \* what each closed page is stretched by
    page,     \* the page being filled
    used,     \* pageHeight less the remaining space
    par, from,   \* the paragraph and the line the layout has got to
    tail,     \* characters without a line are left of the paragraph
    done

input == <<items, pageHeight>>
pageVars == <<input, chunks, extra, page, used, par, from, tail, done>>

PageInit == /\ items \in UNION {[1..n -> Paragraphs] : n \in 0..MaxLength}
            /\ pageHeight \in PageHeights
            /\ chunks = <<>> /\ extra = <<>> /\ page = 1 /\ used = 0
            /\ par = 1 /\ from = 0 /\ tail = FALSE /\ done = FALSE

Laying == ~done /\ par <= Len(items)
P == items[par]
Empty == \A i \in DOMAIN chunks : chunks[i].page # page
Gap == IF Empty THEN 0 ELSE Spacing
Space == pageHeight - used - Gap      \* space

\* The first k of the lines that are left, and the most that a page takes of
\* them: the last of them may overhang by the tolerance.
Height(k) == k * LineHeight + (IF P.badge /\ from + k = P.lines THEN BadgeRise ELSE 0)
Rest == P.lines - from
Fits(k) == Height(k) <= Space + Tolerance
IsFit(k) == Fits(k) /\ (k = Rest \/ ~Fits(k + 1))
\* A badged rest is measured afresh near the end of a page, where it may wrap
\* into one line more.
RestHeights == {Height(Rest)} \cup
    (IF P.badge /\ from > 0 /\ Height(Rest) <= Space + Height(1) THEN {Height(Rest) + LineHeight} ELSE {})

-----------------------------------------------------------------------------
OnPage == {i \in DOMAIN chunks : chunks[i].page = page}
Badges == {i \in OnPage : chunks[i].badge}
Chunk(to, rest, height) == [par |-> par, from |-> from, to |-> to, rest |-> rest, page |-> page,
                            top |-> used + Gap, height |-> height, badge |-> rest /\ P.badge]
Put(c) == chunks' = Append(chunks, c)

\* Mutant: the next paragraph begins where the last one was left.
NextParagraphKept == par' = par + 1 /\ from' = from /\ tail' = FALSE

NextParagraph == par' = par + 1 /\ from' = 0 /\ tail' = FALSE
NewPage == page' = page + 1 /\ used' = 0

\* closeJustified: what is left over goes into the gaps between the items, but
\* for what their badges may need.
Stretch(left, count) == IF count > 1 /\ left > 0 THEN left ELSE 0
CloseJustified(left, count) ==
    extra' = Append(extra, Stretch(left - Cardinality(Badges) * BadgeSlack, count))
ClosePlain == extra' = Append(extra, 0)

\* Images, and titles that a page can hold, are kept whole.
Whole == P.kind = "image" \/ (P.kind = "title" /\ from = 0 /\ Height(Rest) <= pageHeight)
WholeHeight == IF P.kind = "image" THEN ImageHeight ELSE Height(Rest)
KeepWhole ==
    LET c == Chunk(P.lines, TRUE, WholeHeight)
    IN  /\ Laying /\ Whole
        /\ IF Space < WholeHeight /\ ~Empty
           THEN Put([c EXCEPT !.page = page + 1, !.top = 0]) /\ ClosePlain
                /\ page' = page + 1 /\ used' = WholeHeight
           ELSE Put(c) /\ used' = used + Gap + WholeHeight /\ UNCHANGED <<extra, page>>
        /\ NextParagraph /\ UNCHANGED <<input, done>>

\* _layoutText, one iteration of its loop.
LayingText == Laying /\ ~Whole /\ ~tail
EmptyText == /\ LayingText /\ P.lines = 0
             /\ NextParagraph /\ UNCHANGED <<input, chunks, extra, page, used, done>>
PutTail == /\ Laying /\ tail
           /\ Put(Chunk(P.lines, TRUE, 0)) /\ ClosePlain /\ NewPage
           /\ NextParagraph /\ UNCHANGED <<input, done>>
PutRest == /\ LayingText /\ P.lines > 0
           /\ \E h \in RestHeights : /\ h <= Space /\ Put(Chunk(P.lines, TRUE, h))
                                     /\ used' = used + Gap + h
           /\ NextParagraph /\ UNCHANGED <<input, extra, page, done>>

Overflows == LayingText /\ P.lines > 0 /\ \E h \in RestHeights : h > Space
\* How many lines stay on this page. The last line of a badged paragraph goes
\* with its badge, and the others are measured without the tolerance.
Kept(k) == IF P.badge THEN /\ k < Rest /\ Fits(k) /\ k * LineHeight <= Space
                           /\ k + 1 = Rest \/ ~Fits(k + 1) \/ (k + 1) * LineHeight > Space
           ELSE IsFit(k)
BreakPage == /\ Overflows /\ ~Empty
             /\ Space < Height(1) \/ Kept(0)
             /\ CloseJustified(pageHeight - used, Cardinality(OnPage)) /\ NewPage
             /\ UNCHANGED <<input, chunks, par, from, tail, done>>
\* A single line with its badge that no page can hold.
Oversize == /\ Overflows /\ Empty /\ P.badge /\ Rest = 1
            /\ \E h \in RestHeights : /\ h > Space /\ Put(Chunk(P.lines, TRUE, h))
                                      /\ used' = used + h
            /\ NextParagraph /\ UNCHANGED <<input, extra, page, done>>
\* The paragraph is split behind its k-th line; on an empty page there is at
\* least one. Characters hung behind the last line may still be left.
Split(k) ==
    LET lines == IF k = 0 THEN 1 ELSE k
    IN  /\ Overflows /\ (Empty \/ (k > 0 /\ Space >= Height(1)))
        /\ Kept(k) /\ (P.badge => Rest > 1)
        /\ Put(Chunk(from + lines, FALSE, lines * LineHeight))
        /\ \E fit \in 0..Rest : IsFit(fit) /\ CloseJustified(Space - Height(fit), Cardinality(OnPage) + 1)
        /\ NewPage
        /\ \/ from + lines = P.lines /\ NextParagraph
           \/ /\ par' = par /\ from' = from + lines
              /\ tail' = (from + lines = P.lines)
        /\ UNCHANGED <<input, done>>

\* The last page ends where its content does.
Finish == /\ ~done /\ par > Len(items) /\ done' = TRUE
          /\ IF Empty THEN UNCHANGED <<extra, page>> ELSE ClosePlain /\ page' = page + 1
          /\ UNCHANGED <<input, chunks, used, par, from, tail>>

PageNext == \/ KeepWhole \/ EmptyText \/ PutTail \/ PutRest \/ BreakPage \/ Oversize \/ Finish
            \/ LayingText /\ \E k \in 0..Rest : Split(k)

-----------------------------------------------------------------------------
(* Restoring: pageForPosition over the closed pages. *)
FirstOf(q) == CHOOSE i \in DOMAIN chunks : chunks[i].page = q
                       /\ \A j \in DOMAIN chunks : chunks[j].page = q => i <= j
Pages == 1..Len(extra)
Starts(q, p, offset) == chunks[FirstOf(q)].par = p /\ chunks[FirstOf(q)].from = offset
First(S) == CHOOSE q \in S : \A r \in S : q <= r

\* Mutant: the offset is ignored: the first page that the paragraph begins.
PageForParagraph(p, offset) ==
    LET near  == {q \in Pages : chunks[FirstOf(q)].par = p}
    IN  IF near # {} THEN First(near) ELSE Len(extra)

PageForPosition(p, offset) ==
    LET exact == {q \in Pages : Starts(q, p, offset)}
        near  == {q \in Pages : chunks[FirstOf(q)].par = p}
        any   == {chunks[i].page : i \in {j \in DOMAIN chunks : chunks[j].par = p}} \cap Pages
    IN  IF exact # {} THEN First(exact) ELSE IF near # {} THEN First(near)
        ELSE IF any # {} THEN First(any) ELSE Len(extra)

-----------------------------------------------------------------------------
\* The pages are the chapter: every line of every paragraph once and in order,
\* up to where the layout has got, and each paragraph shows its badge once.
Follows(c, d) == \/ d.par = c.par /\ d.from = c.to /\ ~c.rest
                 \/ /\ d.par > c.par /\ d.from = 0 /\ c.to = items[c.par].lines
                    /\ \A q \in c.par + 1 .. d.par - 1 : items[q].lines = 0
Here == [par |-> par, from |-> from]
Contiguous ==
    /\ \A i \in 1..Len(chunks) - 1 : Follows(chunks[i], chunks[i + 1])
    /\ chunks # <<>> => /\ \A q \in 1..chunks[1].par - 1 : items[q].lines = 0
                        /\ chunks[1].from = 0
                        /\ Follows(chunks[Len(chunks)], Here)
    /\ chunks = <<>> => from = 0 /\ \A q \in 1..par - 1 : items[q].lines = 0
BadgesShown == \A q \in 1..par - 1 : items[q].badge /\ items[q].lines > 0 =>
    Cardinality({i \in DOMAIN chunks : chunks[i].par = q /\ chunks[i].badge}) = 1

\* What is put on a page stays on it, stretched or not, but for something that
\* cannot be split and is alone on its page.
Bottom(c) == c.top + c.height + (IF c.page <= Len(extra) THEN extra[c.page] ELSE 0)
PageFits == \A i \in DOMAIN chunks : LET c == chunks[i] IN
    Bottom(c) > pageHeight + Tolerance => c.top = 0 /\ (c.rest \/ c.to = c.from + 1)

\* A chapter is shown on its pages whole, in order, badged and in sight.
PagesAreChapter == Contiguous /\ BadgesShown /\ PageFits

\* A position that was saved on a page restores to that page.
RestoresExactly == \A q \in Pages :
    PageForPosition(chunks[FirstOf(q)].par, chunks[FirstOf(q)].from) = q
=============================================================================
