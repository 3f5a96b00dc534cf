--------------------------- MODULE MCJukeboxQueue ---------------------------
(* Small instances of JukeboxQueue for TLC; the values are in the cfgs.    *)
EXTENDS JukeboxQueue, TLC

CONSTANTS t1, t2, t3, metal, folk

OneGenre == [t \in Tracks |-> metal]
TwoGenres == [t \in Tracks |-> IF t = t1 THEN folk ELSE metal]

\* Sessions and requests are interchangeable, and so are the tracks of a run in
\* which all of them are steady, popular and of one genre.
RequestSymmetry == Permutations(Requests)
AllSymmetry == Permutations(Tracks) \cup Permutations(Sessions)
                   \cup Permutations(Requests)
=============================================================================
