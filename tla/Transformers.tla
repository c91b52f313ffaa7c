----------------------------- MODULE Transformers ---------------------------
(* The transformer settings and the chapters read through them. The settings  *)
(* live in the database, one value for the application and all books; the app *)
(* shows a copy, imports an older copy from its preferences once, and saves   *)
(* the whole value from its pages (transformers.rs, transformer_settings.dart)*)
(* A chapter query takes the rules of its book when it begins and runs each   *)
(* paragraph through the chain as it arrives (transform/*.rs, feed_actor.rs). *)
EXTENDS Integers, Sequences, SequencesExt

CONSTANTS Engine, Page,      \* Flutter engines, in the order they start; settings pages
          EntryLists,        \* what the pages may save: sequences of [rule, enabled]
          Chapters,          \* chapters of the book: sequences of paragraphs
          Absent, MaxActive, MaxIndent,
          MaxSaves           \* bound of the model

VARIABLES
    stored,     \* meta row reader.transformers: a configuration, or Absent
    legacy,     \* the older copy in the preferences, or Absent
    engine,     \* the Flutter engine that runs
    shown,      \* what its provider holds, or Absent
    loads,      \* per engine: where its load stands
    saves,      \* per page: the save it waits for
    saveCount,
    lapsed,     \* history: two saves, or a save and a start, overlapped
    confirmed,  \* history: the last configuration the app was told is saved
    older,      \* history: the older copy the app began with
    first,      \* history: the configuration that was stored first
    query       \* a chapter as it was read

settingsVars == <<stored, legacy, engine, shown, loads, saves, saveCount, lapsed, confirmed, older, first, query>>

\* A configuration: the entries of the application, and of the one book or Absent.
Default == [application |-> <<[rule |-> [kind |-> "dedup"], enabled |-> TRUE],
                              [rule |-> [kind |-> "indent", spaces |-> 2], enabled |-> TRUE]>>,
            book |-> Absent]
Configuration == [application : EntryLists \cup {Default.application},
                  book : {Absent} \cup [inherit : BOOLEAN, rules : EntryLists]]
ActiveRules(entries) == LET on == SelectSeq(entries, LAMBDA e : e.enabled) IN [i \in DOMAIN on |-> on[i].rule]
\* effective_rules, for a book without settings of its own or with them.
EffectiveRules(c, book) ==
    (IF book = Absent THEN ActiveRules(c.application)
     ELSE IF book.inherit THEN ActiveRules(c.application) ELSE <<>>)
    \o (IF book = Absent THEN <<>> ELSE ActiveRules(book.rules))
RulesForBook(c) == EffectiveRules(c, c.book)
\* build_transform_chain and into_transform: what they refuse.
Builds(rules) == /\ Len(rules) <= MaxActive
                 /\ \A i \in DOMAIN rules : /\ rules[i].kind = "indent" => rules[i].spaces <= MaxIndent
                                            /\ rules[i].kind \in {"replace", "delete"} => rules[i].pattern # "broken"
Validate(c) == Builds(EffectiveRules(c, Absent)) /\ Builds(EffectiveRules(c, c.book))

NoLoad == [phase |-> "none", imported |-> Absent]
NoSave == [phase |-> "none", next |-> Absent]
NoQuery == [rules |-> <<>>, chapter |-> <<>>, out |-> <<>>]
Running(e) == e = engine
SavesIdle == UNCHANGED <<saves, saveCount, confirmed>>

SettingsInit ==
    /\ stored = Absent /\ shown = Absent /\ engine = 1
    /\ \E l \in EntryLists : legacy \in {Absent, [application |-> l, book |-> Absent]}
    /\ loads = [e \in Engine |-> NoLoad] /\ saves = [p \in Page |-> NoSave]
    /\ saveCount = 0 /\ lapsed = FALSE /\ confirmed = Absent /\ query = NoQuery
    /\ older = legacy /\ first = Absent

-----------------------------------------------------------------------------
ToLoad(e, phase) == loads' = [loads EXCEPT ![e].phase = phase]

\* TransformerSettingsRepository.load: a stored configuration is used as it is.
LoadRead(e) ==
    /\ Running(e) /\ loads[e].phase = "none" /\ shown = Absent
    /\ IF stored # Absent THEN shown' = stored /\ ToLoad(e, "done")
       ELSE /\ loads' = [loads EXCEPT ![e] = [phase |-> "check", imported |-> legacy]]
            /\ UNCHANGED shown
    /\ SavesIdle /\ UNCHANGED <<stored, legacy, engine, lapsed, older, first, query>>
\* initialize reads once more, and validates what would be written.
InitializeCheck(e) ==
    /\ loads[e].phase = "check"
    /\ LET c == IF loads[e].imported = Absent THEN Default ELSE loads[e].imported
       IN IF stored # Absent THEN loads' = [loads EXCEPT ![e] = [phase |-> "answered", imported |-> stored]]
          ELSE IF Validate(c) THEN loads' = [loads EXCEPT ![e] = [phase |-> "write", imported |-> c]]
          ELSE loads' = [loads EXCEPT ![e] = NoLoad]     \* an error; the reader offers a retry
    /\ SavesIdle /\ UNCHANGED <<stored, legacy, engine, shown, lapsed, older, first, query>>

\* Mutant: an init that comes late replaces the instance.
InitializeTxOver(e) ==
    /\ loads[e].phase = "write"
    /\ stored' = loads[e].imported
    /\ first' = IF first = Absent THEN stored' ELSE first
    /\ loads' = [loads EXCEPT ![e] = [phase |-> "answered", imported |-> stored']]
    /\ SavesIdle /\ UNCHANGED <<legacy, engine, shown, lapsed, older, query>>
\* The write transaction: existing settings win.
InitializeTx(e) ==
    /\ loads[e].phase = "write"
    /\ stored' = IF stored = Absent THEN loads[e].imported ELSE stored
    /\ first' = IF first = Absent THEN stored' ELSE first
    /\ loads' = [loads EXCEPT ![e] = [phase |-> "answered", imported |-> stored']]
    /\ SavesIdle /\ UNCHANGED <<legacy, engine, shown, lapsed, older, query>>
\* The preferences are cleared only now.
ImportDone(e) ==
    /\ Running(e) /\ loads[e].phase = "answered"
    /\ legacy' = Absent /\ shown' = loads[e].imported /\ ToLoad(e, "done")
    /\ SavesIdle /\ UNCHANGED <<stored, engine, lapsed, older, first, query>>

Restart ==
    /\ engine + 1 \in Engine
    /\ engine' = engine + 1 /\ shown' = Absent
    /\ lapsed' = (lapsed \/ \E p \in Page : saves[p].phase # "none")
    /\ saves' = [p \in Page |-> IF saves[p].phase = "written" THEN NoSave ELSE saves[p]]
    /\ UNCHANGED <<stored, legacy, loads, saveCount, confirmed, older, first, query>>

-----------------------------------------------------------------------------
\* save: the rules of one scope, put into what the provider holds now.
WithEntries(c, scope, entries, inherit) ==
    IF scope = "application" THEN [c EXCEPT !.application = entries]
    ELSE [c EXCEPT !.book = [inherit |-> inherit, rules |-> entries]]
BeginSave(p, scope, entries, inherit) ==
    /\ shown # Absent /\ saves[p].phase = "none" /\ saveCount < MaxSaves
    /\ saveCount' = saveCount + 1
    /\ saves' = [saves EXCEPT ![p] = [phase |-> "begun", next |-> WithEntries(shown, scope, entries, inherit)]]
    /\ lapsed' = (lapsed \/ \E other \in Page : saves[other].phase # "none")
    /\ UNCHANGED <<stored, legacy, engine, shown, loads, confirmed, older, first, query>>
SaveTx(p) ==
    /\ saves[p].phase = "begun"
    /\ IF Validate(saves[p].next)
       THEN stored' = saves[p].next /\ saves' = [saves EXCEPT ![p].phase = "written"]
       ELSE saves' = [saves EXCEPT ![p] = NoSave] /\ UNCHANGED stored
    /\ UNCHANGED <<legacy, engine, shown, loads, saveCount, lapsed, confirmed, older, first, query>>
SaveShown(p) ==
    /\ saves[p].phase = "written"
    /\ shown' = saves[p].next /\ confirmed' = saves[p].next
    /\ saves' = [saves EXCEPT ![p] = NoSave]
    /\ UNCHANGED <<stored, legacy, engine, loads, saveCount, lapsed, older, first, query>>

-----------------------------------------------------------------------------
Texts(rule) == {"text"} \cup (IF rule.kind = "convert" \/ rule.titles THEN {"title"} ELSE {})
\* The paragraphs one transform makes of p; seen says whether it met a title.
Transformed(rule, p, seen) ==
    CASE rule.kind = "dedup" -> IF p.kind = "title" /\ seen THEN <<>> ELSE <<p>>
      [] rule.kind = "indent" -> <<IF p.kind = "text" THEN [p EXCEPT !.indent = rule.spaces] ELSE p>>
      [] rule.kind = "convert" -> <<IF p.kind \in Texts(rule) THEN [p EXCEPT !.script = "traditional"] ELSE p>>
      [] rule.kind = "replace" ->
            <<IF p.kind \in Texts(rule) /\ p.script = rule.pattern THEN [p EXCEPT !.ad = FALSE] ELSE p>>
      [] rule.kind = "delete" ->
            IF p.kind \in Texts(rule) /\ p.script = rule.pattern /\ p.ad THEN <<>> ELSE <<p>>
      \* what the trait allows beyond the rules of the app: more than one child
      [] rule.kind = "split" -> <<p, p>>
\* TransformChain.apply: an only child keeps the identity, others extend it.
Children(ps, parent) ==
    [i \in DOMAIN ps |-> IF Len(ps) = 1 THEN [ps[i] EXCEPT !.path = parent.path]
                         ELSE [ps[i] EXCEPT !.path = Append(parent.path, i - 1)]]
MetTitle(rule, p, seen) == seen \/ (rule.kind = "dedup" /\ p.kind = "title")
\* One stage of the chain, on the paragraphs that reach it, in order.
Stage(rule, ps, seen) ==
    FoldLeft(LAMBDA acc, p : [out |-> acc.out \o Children(Transformed(rule, p, acc.seen), p),
                              seen |-> MetTitle(rule, p, acc.seen)],
             [out |-> <<>>, seen |-> seen], ps)

\* Mutant: every paragraph gets an initial context of its own.
ChainFresh(rules, p, seen) ==
    FoldLeft(LAMBDA acc, i : [out |-> Stage(rules[i], acc.out, FALSE).out, seen |-> seen],
             [out |-> <<p>>, seen |-> seen], [i \in DOMAIN rules |-> i])
Chain(rules, p, seen) ==
    FoldLeft(LAMBDA acc, i : LET s == Stage(rules[i], acc.out, seen[i])
                             IN [out |-> s.out, seen |-> Append(acc.seen, s.seen)],
             [out |-> <<p>>, seen |-> <<>>], [i \in DOMAIN rules |-> i])

(* paragraphs(): the rules of the book as stored when the query begins, or    *)
(* the default's, make one chain, which every paragraph runs through.         *)
OpenChapter(chapter) ==
    /\ query = NoQuery
    /\ LET rules == RulesForBook(IF stored = Absent THEN Default ELSE stored)
           read == FoldLeft(LAMBDA acc, p : LET c == Chain(rules, p, acc.seen)
                                            IN [out |-> acc.out \o c.out, seen |-> c.seen],
                            [out |-> <<>>, seen |-> [i \in DOMAIN rules |-> FALSE]], chapter)
       IN query' = [rules |-> rules, chapter |-> chapter, out |-> read.out]
    /\ SavesIdle /\ UNCHANGED <<stored, legacy, engine, shown, loads, lapsed, older, first>>

SettingsNext ==
    \/ \E e \in Engine : LoadRead(e) \/ InitializeCheck(e) \/ InitializeTx(e) \/ ImportDone(e)
    \/ Restart
    \/ \E p \in Page : \/ SaveTx(p) \/ SaveShown(p)
                       \/ \E entries \in EntryLists, scope \in {"application", "book"}, inherit \in BOOLEAN :
                            BeginSave(p, scope, entries, inherit)
    \/ \E chapter \in Chapters : OpenChapter(chapter)

-----------------------------------------------------------------------------
\* Reference: the transforms in order, each on the whole list.
Whole(rules, ps) == FoldLeft(LAMBDA list, rule : Stage(rule, list, FALSE).out, ps, rules)

(* The settings on screen are those of the database once nothing is under way,*)
(* and what was saved last: no import ever takes their place, whichever start *)
(* of the app it belongs to. The older copy is kept until it is stored, and is*)
(* the first that is.                                                         *)
(* Whatever is stored builds, for the book and for books without an entry     *)
(* (initialize, save, validate; transformer_settings.dart). But for saves     *)
(* that overlap: each writes the whole value it made from what was on screen. *)
SettingsTrue ==
    /\ ~lapsed /\ shown # Absent /\ (\A p \in Page : saves[p].phase = "none")
         => shown = stored /\ confirmed \in {Absent, stored}
    /\ shown # Absent => stored # Absent
    /\ legacy # older => first = older
    /\ first # Absent => first = IF older = Absent THEN Default ELSE older
    /\ stored # Absent => Validate(stored)

(* A chapter is read through one chain, the rules that were stored when it    *)
(* began, whatever is saved meanwhile: paragraph by paragraph it becomes what *)
(* each rule in turn makes of the whole chapter. No identity comes twice, and *)
(* each continues the one the feed gave (transform/mod.rs, dedup_title.rs).   *)
ChapterTransformed ==
    LET ids == [i \in DOMAIN query.out |-> <<query.out[i].id, query.out[i].path>>] IN
    /\ query.out = Whole(query.rules, query.chapter)
    /\ IsInjective(ids)

=============================================================================
