--------------------------- MODULE MCCorpusWatcher ---------------------------
(***************************************************************************)
(* Finite instances of CorpusWatcher for TLC.                              *)
(***************************************************************************)
EXTENDS CorpusWatcher, TLC

CONSTANTS s1, s2, g1, g2, r1, r2

OneSlug == s1 :> g1
OneSlugEach == s1 :> g1 @@ s2 :> g2

\* The second write names a model that only the second price table lists.
RefusedUntilRepriced == {<<2, 1>>}
=============================================================================
