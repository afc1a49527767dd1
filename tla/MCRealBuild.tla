----------------------------- MODULE MCRealBuild -----------------------------
(***************************************************************************)
(* One variant with one shared database and one object of every kind       *)
(* beneath it: twelve keys.                                                *)
(***************************************************************************)
EXTENDS RealBuild

MCThemes == <<"Forest">>
MCSources == <<"Tasks">>
MCHubViews == <<"today">>
MCGuides == <<"guide0">>
MCHomeViews == <<"home_tasks">>
=============================================================================
