---------------------------- MODULE MCScreenText ----------------------------
EXTENDS ScreenText

CheckedDesktop == [w |-> 10, h |-> 6]

Box(x, y, w, text) == [x |-> x, y |-> y, w |-> w, h |-> 1, text |-> text]

(* Two buttons side by side, the same ones lower and apart, and a list     *)
(* that repeats a name.                                                    *)
CheckedPictures ==
  { {Box(1, 1, 2, "ok"), Box(4, 1, 2, "no")},
    {Box(1, 4, 2, "ok"), Box(7, 4, 2, "no")},
    {Box(4, 1, 2, "ok"), Box(4, 4, 2, "ok"), Box(7, 4, 2, "no")} }

Anywhere(click, index, near) ==
  [kind |-> "locate", text |-> "ok", all |-> FALSE, region |-> None, wait |-> FALSE,
   click |-> click, index |-> index, near |-> near, nearDistance |-> 2]

Spot(x, y) == [x |-> x, y |-> y]

Point(at, confirm) ==
  [kind |-> "clickAt", at |-> at, confirm |-> confirm, maxDivergence |-> 3,
   window |-> [w |-> 6, h |-> 6], gap |-> 1]

Lower == [x |-> 3, y |-> 3, w |-> 20, h |-> 20]
Outside == [x |-> 20, y |-> 0, w |-> 2, h |-> 2]

CheckedAsks ==
  { [kind |-> "shot", region |-> None], [kind |-> "shot", region |-> Outside],
    Anywhere(FALSE, FALSE, {}), Anywhere(TRUE, FALSE, {}), Anywhere(TRUE, TRUE, {}),
    Anywhere(TRUE, FALSE, {"no"}),
    [Anywhere(TRUE, FALSE, {}) EXCEPT !.region = Lower, !.wait = TRUE],
    [Anywhere(TRUE, TRUE, {}) EXCEPT !.all = TRUE],
    Point(Spot(3, 1), None), Point(Spot(5, 4), None), Point(Spot(8, 5), None),
    Point(Spot(6, 4), Spot(9, 5)), Point(Spot(2, 4), Spot(8, 4)), Point(Spot(12, 1), None) }

=============================================================================
