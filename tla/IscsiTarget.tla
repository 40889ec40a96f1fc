---------------------------- MODULE IscsiTarget ----------------------------
(***************************************************************************)
(* IscsiTargetController: the iSCSI targets that the machine serves to its *)
(* nodes.  The class is a singleton, but __init__ runs for every call of   *)
(* the class and empties _target_configs.  Every command is run with       *)
(* targetcli and raises when it fails, except the deletion of the default  *)
(* portal.                                                                 *)
(***************************************************************************)
EXTENDS Integers, Sequences, SequencesExt

CONSTANTS
    TargetDisks,     \* names of the disks of targets
    MaxIscsiFaults   \* bound on commands that fail

ASSUME IscsiAssumption == MaxIscsiFaults \in Nat

VARIABLES
    tgtPc, tgtDisk,  \* the next step of create_target, and its disk
    tgtConfigs,      \* _target_configs
    tgtFiles,        \* /tmp/<disk> files: "blank" or "copied" (absent: no entry)
    tgtServed,       \* the disks of backstores/fileio
    tgtReady,        \* the disks with a target, a LUN, portals and access lists
    tgtForgotten,    \* history: disks that a new __init__ dropped from the list
    tgtFaults

tgtVars == <<tgtPc, tgtDisk, tgtConfigs, tgtFiles, tgtServed, tgtReady, tgtForgotten, tgtFaults>>

IscsiTypeOK ==
    /\ tgtPc \in {"none", "idle", "file", "fileio", "target", "copy", "raised", "uncleaned"}
    /\ tgtDisk \in TargetDisks
    /\ tgtConfigs \in Seq(TargetDisks)
    /\ tgtFiles \in [TargetDisks -> {"absent", "blank", "copied"}]
    /\ tgtServed \subseteq TargetDisks /\ tgtReady \subseteq TargetDisks
    /\ tgtForgotten \subseteq TargetDisks
    /\ tgtFaults \in 0..MaxIscsiFaults

IscsiInit ==
    /\ tgtPc = "none" /\ tgtDisk \in TargetDisks /\ tgtConfigs = <<>>
    /\ tgtFiles = [d \in TargetDisks |-> "absent"]
    /\ tgtServed = {} /\ tgtReady = {} /\ tgtForgotten = {} /\ tgtFaults = 0
-----------------------------------------------------------------------------
\* The fixture of a test: __new__ returns the one instance, __init__ runs again.
iscsi_init ==
    /\ tgtPc \in {"none", "idle", "raised", "uncleaned"}
    /\ tgtPc' = "idle"
    /\ tgtForgotten' = tgtForgotten \cup Range(tgtConfigs)
    /\ tgtConfigs' = <<>>
    /\ UNCHANGED <<tgtDisk, tgtFiles, tgtServed, tgtReady, tgtFaults>>

\* create_target: an optional clearconfig, the configuration is noted for the
\* cleanup, and the old file of that name is removed.
create_target(clear_config) ==
    /\ tgtPc = "idle" /\ Len(tgtConfigs) < 2
    /\ \E d \in TargetDisks :
          /\ tgtDisk' = d
          /\ tgtConfigs' = Append(tgtConfigs, d)
          /\ tgtFiles' = [tgtFiles EXCEPT ![d] = "absent"]
    /\ tgtServed' = IF clear_config THEN {} ELSE tgtServed
    /\ tgtReady' = IF clear_config THEN {} ELSE tgtReady
    /\ tgtPc' = "file"
    /\ UNCHANGED <<tgtForgotten, tgtFaults>>

\* A command that fails raises out of create_target.
IscsiFails ==
    /\ tgtPc \in {"file", "fileio", "target", "copy"}
    /\ tgtFaults < MaxIscsiFaults /\ tgtFaults' = tgtFaults + 1
    /\ tgtPc' = "raised"
    /\ UNCHANGED <<tgtDisk, tgtConfigs, tgtFiles, tgtServed, tgtReady, tgtForgotten>>

create_file_disk ==
    /\ tgtPc = "file"
    /\ tgtFiles' = [tgtFiles EXCEPT ![tgtDisk] = "blank"]
    /\ tgtPc' = "fileio"
    /\ UNCHANGED <<tgtDisk, tgtConfigs, tgtServed, tgtReady, tgtForgotten, tgtFaults>>

\* targetcli refuses a second backstore of the same name.
create_file_io ==
    /\ tgtPc = "fileio"
    /\ tgtPc' = IF tgtDisk \in tgtServed THEN "raised" ELSE "target"
    /\ tgtServed' = tgtServed \cup {tgtDisk}
    /\ UNCHANGED <<tgtDisk, tgtConfigs, tgtFiles, tgtReady, tgtForgotten, tgtFaults>>

\* create_iqn, create_lun, create_portal, the access lists and save_config.
create_iqn_to_save_config ==
    /\ tgtPc = "target"
    /\ tgtReady' = tgtReady \cup {tgtDisk}
    /\ tgtPc' = "copy"
    /\ UNCHANGED <<tgtDisk, tgtConfigs, tgtFiles, tgtServed, tgtForgotten, tgtFaults>>

copy_to_created_disk ==
    /\ tgtPc = "copy"
    /\ tgtFiles' = [tgtFiles EXCEPT ![tgtDisk] = "copied"]
    /\ tgtPc' = "idle"
    /\ UNCHANGED <<tgtDisk, tgtConfigs, tgtServed, tgtReady, tgtForgotten, tgtFaults>>

\* The teardown: the files of the list are removed, then all of the targets.
clean_target ==
    /\ tgtPc \in {"idle", "raised"}
    /\ tgtFiles' = [d \in TargetDisks |-> IF d \in Range(tgtConfigs) THEN "absent" ELSE tgtFiles[d]]
    /\ tgtServed' = {} /\ tgtReady' = {}
    /\ tgtPc' = "none"
    /\ UNCHANGED <<tgtDisk, tgtConfigs, tgtForgotten, tgtFaults>>

\* The first n files are removed, then a command of the teardown fails.
clean_target_fails ==
    /\ tgtPc \in {"idle", "raised"}
    /\ tgtFaults < MaxIscsiFaults /\ tgtFaults' = tgtFaults + 1
    /\ \E n \in 0..Len(tgtConfigs) :
          tgtFiles' = [d \in TargetDisks |->
                         IF \E i \in 1..n : tgtConfigs[i] = d THEN "absent" ELSE tgtFiles[d]]
    /\ tgtPc' = "uncleaned"
    /\ UNCHANGED <<tgtDisk, tgtConfigs, tgtServed, tgtReady, tgtForgotten>>

IscsiNext ==
    \/ iscsi_init \/ (\E clear \in BOOLEAN : create_target(clear)) \/ create_file_disk
    \/ create_file_io \/ create_iqn_to_save_config \/ copy_to_created_disk
    \/ IscsiFails \/ clean_target \/ clean_target_fails
-----------------------------------------------------------------------------
\* After clean_target has returned nothing is served, and the only disk files left are those
\* that another __init__ had dropped from the list, however create_target ended.
IscsiLeftIsExplained ==
    tgtPc = "none" =>
        /\ tgtServed = {}
        /\ \A d \in TargetDisks : tgtFiles[d] # "absent" => d \in tgtForgotten
-----------------------------------------------------------------------------
\* The controller has noted every disk file that exists, and the disk that
\* create_target is about, or a new __init__ has dropped it.
FilesAreNoted ==
    /\ \A d \in TargetDisks : tgtFiles[d] # "absent" => d \in tgtForgotten \cup Range(tgtConfigs)
    /\ tgtPc \in {"file", "fileio", "target", "copy"} => tgtDisk \in Range(tgtConfigs)
IscsiIInv == IscsiTypeOK /\ FilesAreNoted /\ IscsiLeftIsExplained
=============================================================================
