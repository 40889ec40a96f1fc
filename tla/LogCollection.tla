---------------------------- MODULE LogCollection ----------------------------
(***************************************************************************)
(* The collector of cluster logs (assisted_test_infra/download_logs), run  *)
(* again and again over the same destination: a run lists the clusters and *)
(* brings the folder of each one up to date, unless what is in the folder  *)
(* says that nothing is missing.  The service keeps collecting logs and    *)
(* writing events meanwhile.                                               *)
(*                                                                         *)
(* A request that fails with ApiException and a ctrl-C are suppressed in   *)
(* most steps (SuppressAndLog); any other exception leaves the loop over   *)
(* the clusters.  What is in the files, and the censoring of it, is left   *)
(* out: no property is about it.                                           *)
(***************************************************************************)
EXTENDS Naturals, Sequences, FiniteSets

CONSTANTS
    LogClusters,     \* the clusters, in the order the service lists them
    LogRetries,      \* max_retries: 3, or 15 when the masters joined
    MaxEvents        \* bound: events of a cluster

VARIABLES
    lpc,        \* the step of the collector
    listing,    \* what is left of the listing: <<cluster, logs_info>>
    folders,    \* the output folder of each cluster
    service,    \* of each cluster: logs_info and number of events
    byEvents,   \* --update-by-events
    tries,      \* the attempt at the logs archive
    disturbed   \* the clusters whose last collection was interrupted before
                \* the archive was there: by an error, ctrl-C or a kill

logVars == <<lpc, listing, folders, service, byEvents, tries, disturbed>>

LogClusterSet == {LogClusters[i] : i \in 1 .. Len(LogClusters)}

ASSUME LogsAssumption ==
    /\ LogClusters \in Seq(LogClusterSet)
    /\ LogRetries \in Nat /\ MaxEvents \in Nat \ {0}

LogsInfos == {"", "collecting", "completed", "timeout"}
FinalInfos == {"timeout", "completed"}

\* What the service can hand out of the logs of one host and the controller.
Uploaded(info) ==
    CASE info = "" -> {}
      [] info \in {"collecting", "timeout"} -> {"host"}
      [] info = "completed" -> {"host", "controller"}

\* metadata.json is what the folder says of itself; the events file is a
\* number of events.
NoMetadata == "no metadata.json"
NoFile == MaxEvents + 1
NoTar == {"no tar"}
EmptyFolder == [exists |-> TRUE, metadata |-> NoMetadata, events |-> NoFile, tar |-> NoTar]
NoFolder == [EmptyFolder EXCEPT !.exists = FALSE]

current == Head(listing)[1]
folder == folders[current]

LogsInit ==
    /\ lpc = "idle" /\ listing = <<>>
    /\ folders = [c \in LogClusterSet |-> NoFolder]
    /\ service \in [LogClusterSet -> [info : {"", "collecting"}, events : {1}]]
    /\ byEvents \in BOOLEAN
    /\ tries = 0 /\ disturbed = {}

\* The collection of the current cluster is interrupted.
Disturb == disturbed' = disturbed \cup {current}

\* An exception that nothing suppresses ends the loop of main: the clusters
\* after this one are not looked at.
Raise == lpc' = "stopped" /\ listing' = <<>> /\ tries' = 0

NextCluster ==
    /\ listing' = Tail(listing)
    /\ lpc' = IF Len(listing) = 1 THEN "idle" ELSE "check"
    /\ tries' = 0

-----------------------------------------------------------------------------
\* main: the clusters that are in error or degraded and not excluded, as the
\* service lists them now; at are their places in the list.
logs_main ==
    /\ lpc \in {"idle", "stopped"}
    /\ \E n \in 1 .. Len(LogClusters) : \E at \in [1 .. n -> 1 .. Len(LogClusters)] :
         /\ \A i, j \in 1 .. n : i < j => at[i] < at[j]
         /\ listing' = [i \in 1 .. n |-> <<LogClusters[at[i]], service[LogClusters[at[i]]].info>>]
    /\ lpc' = "check" /\ tries' = 0
    /\ UNCHANGED <<folders, service, byEvents, disturbed>>

\* A listing may come without the hosts of a cluster: the request for them
\* ends the loop if it fails, unless the cluster has been deleted.
get_cluster_hosts ==
    /\ lpc = "check" /\ Raise
    /\ UNCHANGED <<folders, service, byEvents, disturbed>>

\* Mutant: any metadata counts as final.
InfoIsFinal_Present(f) == f.metadata # NoMetadata

\* is_update_needed, by what it reads: the metadata of the folder first; the
\* events file only when the collector is told to.  An events request that
\* fails leaves an empty file to compare with.
InfoIsFinal(f) == f.metadata \in FinalInfos \cup {""}

is_update_needed ==
    /\ lpc = "check"
    /\ UNCHANGED <<service, byEvents, disturbed>>
    /\ \/ /\ ~folder.exists \/ (folder.metadata # NoMetadata /\ ~InfoIsFinal(folder))
          /\ lpc' = "recreate" /\ UNCHANGED <<listing, folders, tries>>
       \/ /\ folder.exists /\ folder.metadata = NoMetadata    \* FileNotFoundError
          /\ Raise /\ UNCHANGED folders
       \/ /\ folder.exists /\ InfoIsFinal(folder) /\ ~byEvents
          /\ NextCluster /\ UNCHANGED folders
       \/ /\ folder.exists /\ InfoIsFinal(folder) /\ byEvents
          /\ \E seen \in {service[current].events, 0} :
               \/ folder.events = NoFile /\ Raise /\ UNCHANGED folders    \* filecmp
               \/ folder.events = seen /\ NextCluster /\ UNCHANGED folders
               \/ /\ folder.events \notin {NoFile, seen}
                  /\ folders' = [folders EXCEPT ![current].events = NoFile]
                  /\ lpc' = "recreate" /\ UNCHANGED <<listing, tries>>

\* The old logs go before the new ones are asked for.
recreate_folder ==
    /\ lpc = "recreate" /\ lpc' = "metadata"
    /\ folders' = [folders EXCEPT ![current] = EmptyFolder]
    /\ disturbed' = disturbed \ {current}
    /\ UNCHANGED <<listing, service, byEvents, tries>>

\* The infra-envs and the versions are asked for and the metadata written,
\* with the logs_info of the listing.
write_metadata_file ==
    /\ lpc = "metadata"
    /\ \/ /\ folders' = [folders EXCEPT ![current].metadata = Head(listing)[2]]
          /\ lpc' = "files" /\ UNCHANGED <<listing, tries>>
       \/ Raise /\ UNCHANGED folders
    /\ UNCHANGED <<service, byEvents, disturbed>>

\* The files of the cluster: ignition files, install-config, manifests and the
\* ignition of each host, downloaded and censored.  What is suppressed leaves a
\* file out; a JSONDecodeError of install-config, say, is not suppressed.
download_cluster_files ==
    /\ lpc = "files"
    /\ \/ lpc' = "events" /\ UNCHANGED <<listing, tries, disturbed>>
       \/ Raise /\ Disturb
    /\ UNCHANGED <<folders, service, byEvents>>

\* The events file is opened before the request for the events is made; the
\* files of events that came are parsed and merged.
gather_event_files ==
    /\ lpc = "events"
    /\ \E number \in {service[current].events, 0} :
          folders' = [folders EXCEPT ![current].events = number]
    /\ \/ lpc' = "logs" /\ tries' = 1 /\ UNCHANGED <<listing, disturbed>>
       \/ Raise /\ Disturb
    /\ UNCHANGED <<service, byEvents>>

-----------------------------------------------------------------------------
\* One log per host, and the controller's when the cluster is installed or its
\* masters are being configured.
min_number_of_log_files(controller) == IF controller THEN 2 ELSE 1
verify_logs_uploaded(tar, controller) == Cardinality(tar) >= min_number_of_log_files(controller)

\* One attempt: the old archive is removed, the new one downloaded and
\* verified.  A failed request ends the attempts, an archive that is not
\* verified leads to the next one, if there is one.  An error that is not
\* suppressed, of the request or of verify_logs_uploaded, ends the loop over
\* the clusters; an archive that cannot be opened is none.
download_logs_attempt ==
    /\ lpc = "logs"
    /\ LET tar == Uploaded(service[current].info)
       IN \/ /\ folders' = [folders EXCEPT ![current].tar = tar] /\ UNCHANGED disturbed
             /\ \/ \E controller \in BOOLEAN :
                     \/ /\ verify_logs_uploaded(tar, controller) \/ tries >= LogRetries
                        /\ lpc' = "must_gather" /\ tries' = 0 /\ UNCHANGED listing
                     \/ /\ ~verify_logs_uploaded(tar, controller) /\ tries < LogRetries
                        /\ lpc' = "logs" /\ tries' = tries + 1 /\ UNCHANGED listing
                \/ Raise
          \/ /\ folders' = [folders EXCEPT ![current].tar = NoTar] /\ Disturb
             /\ \/ lpc' = "must_gather" /\ tries' = 0 /\ UNCHANGED listing
                \/ Raise
    /\ UNCHANGED <<service, byEvents>>

\* must-gather, when asked for: the kubeconfig, /etc/hosts, oc and the archive.
\* A failed request is suppressed; an existing directory, or /etc/hosts, is not.
download_must_gather ==
    /\ lpc = "must_gather"
    /\ NextCluster \/ Raise
    /\ UNCHANGED <<folders, service, byEvents, disturbed>>

\* The collector is killed; while the old folder is removed, anything of it may
\* be left.
PartlyRemoved(f) ==
    {NoFolder, EmptyFolder} \cup
    [exists : {f.exists}, metadata : {f.metadata, NoMetadata}, events : {f.events, NoFile}, tar : {f.tar, NoTar}]

logs_killed ==
    /\ lpc \notin {"idle", "stopped"} /\ Raise
    /\ IF lpc = "recreate" THEN \E f \in PartlyRemoved(folder) : folders' = [folders EXCEPT ![current] = f]
                           ELSE UNCHANGED folders
    /\ IF lpc \in {"recreate", "files", "events", "logs"} THEN Disturb ELSE UNCHANGED disturbed
    /\ UNCHANGED <<service, byEvents>>

\* External: the logs arrive in order, events are added.
service_collects ==
    \E c \in LogClusterSet :
      /\ \/ service[c].info = "" /\ service' = [service EXCEPT ![c].info = "collecting"]
         \/ /\ service[c].info = "collecting"
            /\ \E info \in FinalInfos : service' = [service EXCEPT ![c].info = info]
         \/ service[c].events < MaxEvents /\ service' = [service EXCEPT ![c].events = @ + 1]
      /\ UNCHANGED <<lpc, listing, folders, byEvents, tries, disturbed>>

LogsNext ==
    \/ logs_main \/ get_cluster_hosts \/ is_update_needed \/ recreate_folder \/ write_metadata_file
    \/ download_cluster_files \/ gather_event_files \/ download_logs_attempt
    \/ download_must_gather \/ logs_killed \/ service_collects

-----------------------------------------------------------------------------
FolderType ==
    [exists : BOOLEAN, metadata : LogsInfos \cup {NoMetadata}, events : 0 .. NoFile,
     tar : SUBSET {"host", "controller", "no tar"}]

\* Every variable holds a value of its type.
LogsTypeOK ==
    /\ lpc \in {"idle", "stopped", "check", "recreate", "metadata", "files", "events", "logs", "must_gather"}
    /\ listing \in Seq(LogClusterSet \X LogsInfos)
    /\ folders \in [LogClusterSet -> FolderType]
    /\ service \in [LogClusterSet -> [info : LogsInfos, events : 1 .. MaxEvents]]
    /\ byEvents \in BOOLEAN
    /\ tries \in Nat
    /\ disturbed \subseteq LogClusterSet

\* A folder that the check passes over has the whole archive, or its last
\* collection was interrupted.
SkippedIsWhole ==
    lpc = "check" /\ listing' # listing /\ lpc' # "stopped" /\ folder.metadata # "" =>
         folder.tar = Uploaded(service[current].info) \/ current \in disturbed

\* When is_update_needed decides that a folder is left alone, the archive in it
\* is the whole of what the service will ever hand out, unless the cluster had
\* no logs_info when it was listed or its last collection was interrupted before
\* the archive came.  The logs_info that is recorded is older than the archive,
\* never newer, and whatever interrupted earlier collections, or ended the loop
\* at another cluster, is made up for by the next one.
SkippedIsComplete == [][SkippedIsWhole]_logVars

\* The collector is at a cluster of its listing.
CollectorPlace == lpc \notin {"idle", "stopped"} => listing # <<>>

\* A final logs_info stays: what was listed or recorded as final is so.
FinalStays ==
    /\ \A i \in 1 .. Len(listing) : listing[i][2] \in FinalInfos => service[listing[i][1]].info = listing[i][2]
    /\ \A c \in LogClusterSet : folders[c].metadata \in FinalInfos => service[c].info = folders[c].metadata

\* The archive of a folder that says it is final is the whole one, or still to
\* be downloaded, or the collection of the cluster was interrupted.
ArchiveIsWhole ==
    \A c \in LogClusterSet : folders[c].metadata \in FinalInfos =>
        \/ folders[c].tar = Uploaded(service[c].info)
        \/ c \in disturbed
        \/ lpc \in {"files", "events", "logs"} /\ c = current

LogsIInv == LogsTypeOK /\ CollectorPlace /\ FinalStays /\ ArchiveIsWhole
=============================================================================
