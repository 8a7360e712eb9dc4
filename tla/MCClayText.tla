----------------------------- MODULE MCClayText -----------------------------
EXTENDS ClayText

Pad(x, y) == [x |-> x, y |-> y]
Wide(type, min, max) == [type |-> type, min |-> min, max |-> max, pct |-> 0]
Half == [type |-> "percent", min |-> 0, max |-> 0, pct |-> 50]
Plain == [dir |-> "ltr", pad |-> Both(0), gap |-> 0, clip |-> Both(FALSE), size |-> Both(Fit)]
InX(z) == [Plain EXCEPT !.size = [x |-> z, y |-> Wide("grow", 800, 0)]]

\* Panels: a row and a column, as wide as the window, of fitted height; a row
\* of fixed width with padding and gaps; one that clips.
RowPanel == [Plain EXCEPT !.size = [x |-> Wide("grow", 0, 0), y |-> Fit]]
ColPanel == [RowPanel EXCEPT !.dir = "ttb"]
TightPanel == [RowPanel EXCEPT !.pad = Pad(1600, 1600), !.gap = 800,
                               !.size = [x |-> Wide("grow", 0, 0), y |-> Wide("grow", 0, 0)]]
ClipPanel == [ColPanel EXCEPT !.clip = [x |-> TRUE, y |-> TRUE], !.gap = 800]

\* Few texts over many frames, and many children in one frame.
Short == {<<"x">>, <<"x", "_", "x">>, <<"x", "n", "x">>, <<"_", "x">>}
CacheProgram == [texts |-> Short, wraps |-> {TRUE}, boxes |-> {}, panels |-> {ColPanel},
                 rooms |-> {[x |-> 6400, y |-> 64000]}, kids |-> 2, frames |-> 5]
RowProgram ==
  [texts |-> {<<"x", "x", "_", "x">>, <<"x", "_", "x", "_", "x">>, <<"x", "x", "_", "n", "x">>, <<"n", "x">>, <<>>},
   wraps |-> BOOLEAN,
   boxes |-> {InX(Wide("grow", 0, 0)), InX(Wide("grow", 3200, 8000)), InX(Wide("fixed", 6400, 6400)),
              InX(Half), InX(Wide("fit", 2400, 0))},
   panels |-> {RowPanel, ColPanel, TightPanel, ClipPanel},
   rooms |-> {[x |-> 9600, y |-> 4000], [x |-> 16000, y |-> 40000]}, kids |-> 3, frames |-> 1]
MCPrograms == {CacheProgram, RowProgram}
MCBucket(t) == IF t = <<"_", "x">> THEN 1 ELSE 0
=============================================================================
