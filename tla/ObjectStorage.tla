---------------------------- MODULE ObjectStorage ----------------------------
(***************************************************************************)
(* The S3 bucket of pkg/objectstorage/client.go as the upload service uses *)
(* it: finished objects, multipart uploads that are still open, and the    *)
(* presigned URLs clients hold.  S3 itself is not in the repository; what  *)
(* a call does there is what the client's callers rely on.                 *)
(***************************************************************************)
EXTENDS Repository

VARIABLES
    objects,    \* object key -> content
    multiparts, \* open multipart uploads: upload_id -> numbers of the uploaded parts
    urls        \* presigned URLs: <<f, 0>> PUTs the object, <<f, n>> uploads part n

bucket == <<objects, multiparts, urls>>

CreateMultipartUpload(f) ==
    /\ multiparts' = Put(multiparts, f, {})
    /\ UNCHANGED <<objects, urls>>

PresignPutObject(f) ==
    /\ urls' = urls \cup {<<f, 0>>}
    /\ UNCHANGED <<objects, multiparts>>

PresignUploadPart(f, numbers) ==
    /\ urls' = urls \cup ({f} \X numbers)
    /\ UNCHANGED <<objects, multiparts>>

(* ListUploadedParts and CompleteMultipartUpload fail on an upload that is *)
(* not open (never opened, aborted, or completed before).                  *)
IsOpen(u) == u \in DOMAIN multiparts

CompleteMultipartUpload(u, numbers) ==
    /\ objects' = Put(objects, u, numbers)
    /\ multiparts' = Drop(multiparts, {u})
    /\ UNCHANGED urls

AbortMultipartUpload(u) ==
    /\ multiparts' = Drop(multiparts, {u})
    /\ UNCHANGED <<objects, urls>>

DeleteObject(f) ==
    /\ objects' = Drop(objects, {f})
    /\ UNCHANGED <<multiparts, urls>>

-----------------------------------------------------------------------------
(***************************************************************************)
(* What a client does with its URLs, without the service: at any time, as  *)
(* often as it likes, also after the file is completed or deleted.         *)
(***************************************************************************)
ClientPutObject(f, content) ==
    /\ <<f, 0>> \in urls
    /\ objects' = Put(objects, f, content)
    /\ UNCHANGED <<multiparts, urls>>

ClientUploadPart(f, n) ==
    /\ <<f, n>> \in urls
    /\ IsOpen(f)
    /\ multiparts' = [multiparts EXCEPT ![f] = @ \cup {n}]
    /\ UNCHANGED <<objects, urls>>

-----------------------------------------------------------------------------
StorageInit ==
    /\ objects = Empty
    /\ multiparts = Empty
    /\ urls = {}

StorageTypeOK ==
    /\ DOMAIN objects \subseteq FileIDs
    /\ \A f \in DOMAIN objects : objects[f] \in Content
    /\ DOMAIN multiparts \subseteq FileIDs
    /\ \A u \in DOMAIN multiparts : multiparts[u] \subseteq PartNo
    /\ urls \subseteq FileIDs \X (0..MaxPart)
=============================================================================
