------------------------------ MODULE HostParts ------------------------------
(***************************************************************************)
(* What the page is surrounded with: files, events and logs, as it finds   *)
(* them on the desktop and in the preview in a browser, and the extensions *)
(* that it hosts.  These parts share no state; what they promise together  *)
(* is stated here.                                                         *)
(***************************************************************************)
EXTENDS ArtifactStore, ReplicaStorage, ReplicaDownloads, ReplicaChannels, LogStream, LogView, WailsBridge,
        ExtensionHost, PermissionRequests

HostPartsTypeOK ==
  /\ TypeOK /\ StorageTypeOK /\ ReplicaTypeOK /\ ChannelsTypeOK /\ LogStreamTypeOK
  /\ LogViewTypeOK /\ WailsTypeOK /\ ExtensionsTypeOK /\ PermissionsTypeOK

(* Whoever listens to a backend hears of each event once, in the preview   *)
(* and over the Wails bridge (handle-processes.ts, handle-events.ts); the  *)
(* log that is shown was written, and comes from one stream                *)
(* (use-log-stream.ts, logging.rs); and the search finds in it the places  *)
(* where the text is (use-log-search.ts).                                  *)
MessagesArrive == ExitIsToldOnce /\ WailsDelivers /\ ShownWasWritten /\ OneStream /\ SearchIsCurrent

(* What was searched is marked without losing text (renderer.ts), and the  *)
(* commands about files agree on what is there (placeholder-invoke.ts).    *)
ViewsAgree == SegmentsTile /\ AnswersAgree

(* The page shows as enabled the extensions that have hooks in it; each    *)
(* request for permissions is answered as its own dialog was; and what is  *)
(* sent is within what was allowed (ExtensionLoader.vue,                   *)
(* request-permissions.ts, internet.ts).                                   *)
ExtensionsSettle == ExtensionsAsShown /\ AnsweredAsAsked /\ SentAsAllowed
=============================================================================
