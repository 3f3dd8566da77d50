------------------------------- MODULE MCJobs -------------------------------
(***************************************************************************)
(* Values for TLC: jobs as the plugins build them.  data is a DVDdataJob   *)
(* and dvd a DVDJob of Process.py with one title, image is the             *)
(* StickWizardJob of downloader.py.                                        *)
(***************************************************************************)
EXTENDS Jobs, TLC

CONSTANTS data, image, dvd

PluginTasks ==
    data :> <<"check", "tool", "burn">> @@
    image :> <<"tool", "download", "tool">> @@
    dvd :> <<"check", "resident", "tool", "wait", "ask", "burn">>

=============================================================================
