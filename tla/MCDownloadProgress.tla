------------------------ MODULE MCDownloadProgress ------------------------
(* DownloadProgress on small instances.                                    *)
EXTENDS DownloadProgress
=============================================================================
