---------------------------- MODULE MCImageCache ----------------------------
(* ImageCache for TLC: archives that take every branch, and interchangeable *)
(* callers.                                                                 *)
EXTENDS ImageCache, TLC

Full(genuine, kind, slip) ==
    [genuine |-> genuine, kind |-> kind, parts |-> Parts, slip |-> slip]

TestArchives ==
    { Full(TRUE, "gz", FALSE), Full(FALSE, "xz", FALSE), Full(TRUE, "tar", FALSE),
      [genuine |-> TRUE, kind |-> "gz", parts |-> {"etc"}, slip |-> FALSE] }

CallerSymmetry == Permutations(Callers)
=============================================================================
