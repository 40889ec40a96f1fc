------------------------------ MODULE OciNodes ------------------------------
(***************************************************************************)
(* OciApiController: the nodes of a cluster in the Oracle cloud, made by a *)
(* stack that boots an ISO from a bucket, and the list of cleanup calls.   *)
(*                                                                         *)
(* _cleanup_resources is an attribute of the class: one list serves every  *)
(* controller of the process and is never emptied.  Only a new process     *)
(* starts with an empty one, and then destroy_all_nodes asks the cloud for *)
(* what the cluster has.  A test may also leave its nodes (no teardown),   *)
(* and a controller may be made for a cluster of an earlier process.       *)
(***************************************************************************)
EXTENDS Integers, Sequences, SequencesExt

CONSTANTS
    OciClusters,     \* cluster ids
    MaxOciFaults     \* bound on the calls of the cloud that fail

ASSUME OciAssumption == MaxOciFaults \in Nat

VARIABLES
    ociCloud,        \* resources that exist: <<kind, cluster>>
    ociList,         \* _cleanup_resources, oldest first
    ociPc, ociCur,   \* where the current test is, and its cluster
    ociNext,         \* how many cleanup calls are still to run
    ociFailed,       \* history: resources whose cleanup call was refused
    ociLost,         \* history: stacks that exist although their creation raised
    ociFaults

ociVars == <<ociCloud, ociList, ociPc, ociCur, ociNext, ociFailed, ociLost, ociFaults>>

\* In the order of creation; "nodes" stands for what the apply job makes.
OciKinds == {"bucket", "object", "preauth", "stack", "nodes"}
OciResource == OciKinds \X OciClusters
Mine(kind) == <<kind, ociCur>>

OciTypeOK ==
    /\ ociCloud \subseteq OciResource
    /\ ociList \in Seq(OciResource)
    /\ ociPc \in OciKinds \cup {"idle", "ready", "raised", "cleaning", "destroyed"}
    /\ ociCur \in OciClusters
    /\ ociNext \in 0..Len(ociList)
    /\ ociFailed \cup ociLost \subseteq OciResource
    /\ ociFaults \in 0..MaxOciFaults

OciInit ==
    /\ ociCloud = {} /\ ociList = <<>> /\ ociPc = "idle" /\ ociNext = 0
    /\ ociCur \in OciClusters
    /\ ociFailed = {} /\ ociLost = {} /\ ociFaults = 0
-----------------------------------------------------------------------------
OciFault == ociFaults < MaxOciFaults /\ ociFaults' = ociFaults + 1

\* A call that creates a resource and then registers its removal, or raises.
CreateAndRegister(kind, next) ==
    /\ ociPc = kind
    /\ \/ /\ ociCloud' = ociCloud \cup {Mine(kind)}
          /\ ociList' = Append(ociList, Mine(kind))
          /\ ociPc' = next
          /\ UNCHANGED ociFaults
       \/ OciFault /\ ociPc' = "raised" /\ UNCHANGED <<ociCloud, ociList>>
    /\ UNCHANGED <<ociCur, ociNext, ociFailed, ociLost>>

\* A test begins with a cluster that nobody has prepared yet.
oci_prepare_nodes ==
    /\ ociPc \in {"idle", "destroyed"}
    /\ \E c \in OciClusters :
          /\ \A k \in OciKinds : <<k, c>> \notin ociCloud \cup Range(ociList)
          /\ ociCur' = c
    /\ ociPc' = "bucket"
    /\ UNCHANGED <<ociCloud, ociList, ociNext, ociFailed, ociLost, ociFaults>>

create_bucket == CreateAndRegister("bucket", "object")
upload_file_to_bucket == CreateAndRegister("object", "preauth")
create_pre_authenticated == CreateAndRegister("preauth", "stack")

\* The stack is registered when it has become ACTIVE: if the wait times out
\* the stack exists and the list does not know it.
create_stack ==
    \/ CreateAndRegister("stack", "nodes")
    \/ /\ ociPc = "stack"
       /\ OciFault
       /\ ociCloud' = ociCloud \cup {Mine("stack")}
       /\ ociLost' = ociLost \cup {Mine("stack")}
       /\ ociPc' = "raised"
       /\ UNCHANGED <<ociList, ociCur, ociNext, ociFailed>>

\* Mutant: the destroy job is registered only when the apply job succeeded.
apply_job_from_stack_Late ==
    /\ ociPc = "nodes"
    /\ ociCloud' = ociCloud \cup {Mine("nodes")}
    /\ \/ ociPc' = "ready" /\ ociList' = Append(ociList, Mine("nodes")) /\ UNCHANGED ociFaults
       \/ ociPc' = "raised" /\ OciFault /\ UNCHANGED ociList
    /\ UNCHANGED <<ociCur, ociNext, ociFailed, ociLost>>

\* The destroy job is registered before the apply job runs.  The job may fail,
\* after it has made some nodes or none, or give no manifest.
apply_job_from_stack ==
    /\ ociPc = "nodes"
    /\ ociList' = Append(ociList, Mine("nodes"))
    /\ \/ ociPc' = "ready" /\ ociCloud' = ociCloud \cup {Mine("nodes")} /\ UNCHANGED ociFaults
       \/ ociPc' = "raised" /\ OciFault /\ ociCloud' \in {ociCloud, ociCloud \cup {Mine("nodes")}}
    /\ UNCHANGED <<ociCur, ociNext, ociFailed, ociLost>>

\* TEST_TEARDOWN is off: the nodes stay for the user.
oci_no_teardown ==
    /\ ociPc \in {"ready", "raised"}
    /\ ociPc' = "idle"
    /\ UNCHANGED <<ociCloud, ociList, ociCur, ociNext, ociFailed, ociLost, ociFaults>>

\* The process dies at any point; the next one has an empty list and may be
\* asked to destroy a cluster that exists.
oci_new_process ==
    /\ ociList # <<>>
    /\ ociList' = <<>> /\ ociNext' = 0
    /\ ociCur' \in OciClusters
    /\ ociPc' = IF \E k \in OciKinds : <<k, ociCur'>> \in ociCloud THEN "raised" ELSE "idle"
    /\ UNCHANGED <<ociCloud, ociFailed, ociLost, ociFaults>>
-----------------------------------------------------------------------------

\* _generate_cleanup_resources for the current cluster.  A stack that does not
\* exist is registered too (its id is None, and the calls fail later).
Generated ==
    LET found(k) == IF Mine(k) \in ociCloud THEN <<Mine(k)>> ELSE <<>>
    IN  <<Mine("stack"), Mine("bucket")>> \o found("preauth") \o found("object")
        \o <<Mine("nodes")>>

\* An empty list is filled from the cloud; listing a bucket that is gone raises.
oci_destroy_all_nodes ==
    /\ ociPc \in {"ready", "raised"}
    /\ \/ ociList # <<>> /\ ociPc' = "cleaning" /\ ociNext' = Len(ociList) /\ UNCHANGED ociList
       \/ /\ ociList = <<>> /\ Mine("bucket") \in ociCloud
          /\ ociPc' = "cleaning" /\ ociNext' = Len(Generated) /\ ociList' = Generated
       \/ /\ ociList = <<>> /\ Mine("bucket") \notin ociCloud
          /\ ociPc' = "idle" /\ UNCHANGED <<ociNext, ociList>>
    /\ UNCHANGED <<ociCloud, ociCur, ociFailed, ociLost, ociFaults>>

\* What the cloud accepts: a bucket is deleted when it is empty, a destroy job
\* needs its stack, and a stack can be deleted whatever it has made.
Deletable(r) ==
    CASE r[1] = "bucket" -> /\ r \in ociCloud
                            /\ <<"object", r[2]>> \notin ociCloud
                            /\ <<"preauth", r[2]>> \notin ociCloud
      [] r[1] = "nodes"  -> <<"stack", r[2]>> \in ociCloud
      [] OTHER           -> r \in ociCloud

CleanupTarget == ociList[ociNext]

\* CleanupResource.__call__ logs every exception, so the next one always runs.
run_cleanup ==
    /\ ociPc = "cleaning"
    /\ \/ /\ ociNext > 0
          /\ ociNext' = ociNext - 1
          /\ \/ /\ Deletable(CleanupTarget)
                /\ ociCloud' = ociCloud \ {CleanupTarget}
                /\ UNCHANGED <<ociFailed, ociFaults>>
             \/ ~Deletable(CleanupTarget) /\ UNCHANGED <<ociCloud, ociFailed, ociFaults>>
             \/ /\ Deletable(CleanupTarget) /\ OciFault
                /\ ociFailed' = ociFailed \cup {CleanupTarget}
                /\ UNCHANGED ociCloud
          /\ UNCHANGED ociPc
       \/ ociNext = 0 /\ ociPc' = "destroyed" /\ UNCHANGED <<ociNext, ociCloud, ociFailed, ociFaults>>
    /\ UNCHANGED <<ociList, ociCur, ociLost>>

OciNext ==
    \/ oci_prepare_nodes \/ create_bucket \/ upload_file_to_bucket \/ create_pre_authenticated
    \/ create_stack \/ apply_job_from_stack \/ oci_no_teardown \/ oci_new_process
    \/ oci_destroy_all_nodes \/ run_cleanup
-----------------------------------------------------------------------------
\* After destroy_all_nodes of a cluster the list knows of, whatever is left of
\* it is explained: its own removal was refused in a teardown, it is a bucket
\* that was not empty, or a stack whose creation had raised.  In particular a
\* failed or half-made apply job leaves no nodes behind.
OciLeftIsExplained ==
    ociPc = "destroyed" /\ (\E k \in OciKinds : Mine(k) \in Range(ociList)) =>
        \A k \in OciKinds : Mine(k) \in ociCloud =>
            \/ Mine(k) \in ociFailed \cup ociLost
            \/ k = "bucket" /\ {Mine("object"), Mine("preauth")} \cap ociCloud # {}
-----------------------------------------------------------------------------
\* The kinds that a test makes from a step on.
From(kind) ==
    CASE kind = "bucket"  -> OciKinds
      [] kind = "object"  -> OciKinds \ {"bucket"}
      [] kind = "preauth" -> {"preauth", "stack", "nodes"}
      [] kind = "stack"   -> {"stack", "nodes"}
      [] kind = "nodes"   -> {"nodes"}
      [] OTHER            -> {}

\* A bucket that still has something in it cannot be deleted.
Full(r) == r[1] = "bucket" /\ {<<"object", r[2]>>, <<"preauth", r[2]>>} \cap ociCloud # {}

\* What the current test has not made yet is not there, its first resource is
\* registered, and its nodes are made by a stack that is there.
NotYetMade ==
    /\ \A k \in From(ociPc) : Mine(k) \notin ociCloud \cup Range(ociList)
    /\ ociPc \in OciKinds \ {"bucket"} => ociList # <<>>
    /\ ociPc = "nodes" => Mine("stack") \in ociCloud

\* The cleanup calls of a cluster are in an order that the cloud accepts.
Before(r, q) ==
    /\ r[2] = q[2]
    /\ \/ r[1] = "stack" /\ q[1] = "nodes"
       \/ r[1] = "bucket" /\ q[1] \in {"object", "preauth"}
InOrder(list) == \A i, j \in 1..Len(list) : Before(list[i], list[j]) => i < j
ListInOrder == InOrder(ociList)

\* Nodes can be removed: their stack is there, unless their removal was refused
\* before, and a list that has a stack has its nodes too.
NodesHaveStack ==
    \A c \in OciClusters : <<"nodes", c>> \in ociCloud \ ociFailed =>
        /\ <<"stack", c>> \in ociCloud
        /\ <<"stack", c>> \in Range(ociList) => <<"nodes", c>> \in Range(ociList)

\* The list has what the current cluster has, and what a cleanup call has been
\* made for is gone, refused, or a bucket that is not empty.
ListIsComplete ==
    ociPc # "idle" /\ ociList # <<>> =>
        \A k \in OciKinds : Mine(k) \in ociCloud => Mine(k) \in Range(ociList) \cup ociLost
CleanedIsGone ==
    /\ ociPc = "destroyed" => ociNext = 0
    /\ ociPc \in {"cleaning", "destroyed"} =>
         \A j \in ociNext + 1..Len(ociList) :
            ociList[j] \in ociCloud => ociList[j] \in ociFailed \/ Full(ociList[j])
OciIInv ==
    /\ OciTypeOK /\ NotYetMade /\ ListInOrder /\ NodesHaveStack
    /\ ListIsComplete /\ CleanedIsGone
=============================================================================
