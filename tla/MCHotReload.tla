---------------------------- MODULE MCHotReload ----------------------------
(* Files and settings for the runs of HotReload.                           *)
EXTENDS HotReload

OneList == <<"l1">>
OneSource == <<"s1">>
NoSource == <<>>

\* As many lists as the queue of the bus has places.
TenLists == <<"l1", "l2", "l3", "l4", "l5", "l6", "l7", "l8", "l9", "l10">>

Setting(quiet, fails, stops, n) ==
  [quiet |-> quiet, confErrors |-> fails, engineFails |-> fails,
   stops |-> stops, maxEdits |-> n]

\* Orderly edits; edits at any moment; one of them and a shutdown; reloads that
\* fail, and a shutdown.
MCSettings ==
  {Setting(TRUE, FALSE, FALSE, 3), Setting(FALSE, FALSE, FALSE, 2),
   Setting(FALSE, FALSE, TRUE, 1), Setting(TRUE, TRUE, TRUE, 2)}

QuietSettings == {Setting(TRUE, FALSE, FALSE, 1)}
=============================================================================
