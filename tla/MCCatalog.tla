----------------------------- MODULE MCCatalog -----------------------------
(* Small instances of Catalog for TLC.                                      *)
EXTENDS Catalog

\* Two published problems and a draft; the slugs of two of them are those that
\* one title is given in turn.
MCSeed == <<[slug |-> <<"a">>, visibility |-> "published", tags |-> {"t1"},
             languages |-> {"go"}, hidden |-> FALSE],
            [slug |-> <<"a", "-", "1">>, visibility |-> "draft", tags |-> {"t1", "t2"},
             languages |-> {"go", "py"}, hidden |-> TRUE],
            [slug |-> <<"b">>, visibility |-> "published", tags |-> {},
             languages |-> {}, hidden |-> FALSE]>>
MCTitles == {<<"A">>, <<"a", " ", "1">>, <<"!">>}
MCEdits == {[slug |-> NoSlug, visibility |-> "published"],
            [slug |-> NoSlug, visibility |-> "draft"],
            [slug |-> <<"a", "-", "2">>, visibility |-> "archived"]}
MCTagLists == {<<>>, <<"t1">>, <<"t2">>, <<"t1", "t2">>, <<"t2", "t1">>, <<"t2", "t2">>, <<"t3">>}
MCLanguageLists == {<<"py">>, <<"go", "py">>, <<"py", "go", "py">>, <<"c">>}
MCFilters == {[canUnpublished |-> FALSE, visibility |-> "", tags |-> {}],
              [canUnpublished |-> FALSE, visibility |-> "draft", tags |-> {}],
              [canUnpublished |-> TRUE, visibility |-> "", tags |-> {"t1"}]}
=============================================================================
