----------------------------- MODULE MCDownload -----------------------------
(* Three -D entries: two that end in the same local path (the same base    *)
(* name twice, or two hosts of one name) and one below it.                 *)
EXTENDS Download, TLC

CONSTANTS e1, e2, e3, h1, h2, logs, logs_app

SamePath == e1 :> logs @@ e2 :> logs @@ e3 :> logs_app
OneHost == e1 :> h1 @@ e2 :> h1 @@ e3 :> h1
TwoHosts == e1 :> h1 @@ e2 :> h2 @@ e3 :> h2
Nested == {<<logs, logs_app>>}
AllTools == {{"rsync", "tar", "gzip"}, {"tar"}, {}}
AnyEarlier == SUBSET {logs, logs_app}
=============================================================================
