--------------------------- MODULE MCConclusiveMiss ---------------------------
EXTENDS ConclusiveMiss

CONSTANTS pre, bare, song, webp, png, here, there, sprite, music

(* A sprite asked for under a prefixed and a bare name, and a track named   *)
(* in full that the server of another origin holds.                        *)
MCSpellings == [c \in {sprite} |-> <<pre, bare>>]
MCUrl       == [c \in {music} |-> <<song, png>>]
MCOriginOf  == [c \in {sprite, music} |-> IF c = sprite THEN here ELSE there]
Both        == {webp, png}
MCLists     == {{webp}, {webp, png}}
JustWebp    == {webp}
Cold        == {<<>>}
ComesBack   == {<<>>, <<webp>>}
SongPng     == {<<song, png>>}
OnePack     == {{<<bare, png>>}}
TrackPack   == {{<<song, png>>}}
Nothing     == {}
=============================================================================
