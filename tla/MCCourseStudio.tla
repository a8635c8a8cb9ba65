--------------------------- MODULE MCCourseStudio ---------------------------
(* Instances of CourseStudio for TLC.                                        *)
EXTENDS CourseStudio

LiveRow(p, o) == [st |-> "live", parent |-> p, order |-> o, val |-> "a"]

\* Two chapters; the second has two lessons, of which one has two tabs.
TwoChapters ==
  (1 :> LiveRow(Root, 0)) @@ (2 :> LiveRow(Root, 1))
  @@ (4 :> LiveRow(2, 0)) @@ (5 :> LiveRow(2, 1))
  @@ (7 :> LiveRow(5, 0)) @@ (8 :> LiveRow(5, 1))

Chapters == {1, 2, 3, -1}
Lessons == {4, 5, 6, -2}
Tabs == {7, 8, 9, -3}
=============================================================================
