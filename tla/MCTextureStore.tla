--------------------------- MODULE MCTextureStore ---------------------------
EXTENDS TextureStore, TLC

A(k, n) == [kind |-> k, n |-> n]
MCBases == {"a", "b", "c"}
MCAssets == {[a |-> A("still", 1), b |-> A("clip", 2), c |-> A("clip", 3)],
             [a |-> A("still", 1), b |-> A("stream", 3), c |-> A("clip", 3)],
             [a |-> A("still", 1), b |-> A("icon", 1), c |-> A("icon", 2)],
             [a |-> A("still", 1), b |-> A("refused", 2), c |-> A("refused", 3)]}
MCRefused == {[a |-> A("still", 1), b |-> A("refused", 2), c |-> A("still", 1)]}
MCScenes == {[bg |-> "a", speaker |-> "b"]}
SymJobs == Permutations(Jobs)
MCIds == 1 .. 12
=============================================================================
