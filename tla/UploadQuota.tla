----------------------------- MODULE UploadQuota -----------------------------
(***************************************************************************)
(* The daily quotas of uploads (generateUploadUrl of media.service.ts):    *)
(* the number and the bytes of one owner's uploads are read in redis, the  *)
(* row of the upload is saved in Postgres, and only then are they counted. *)
(* What becomes of the upload is Media.tla.                                *)
(***************************************************************************)
EXTENDS Integers, FiniteSets, FiniteSetsExt

CONSTANTS
    Upload,      \* calls of generateUploadUrl of one owner
    Size,        \* the size that each gives
    MaxSize,     \* the largest of them
    CountLimit,  \* MEDIA_DAILY_COUNT_LIMIT
    BytesLimit   \* MEDIA_DAILY_BYTES_LIMIT

VARIABLES
    uploads,     \* redis quota:count:<owner>
    bytes,       \* redis quota:bytes:<owner>
    upload,      \* where each call stands
    together     \* history: the most calls that were between the check and the count at once

quotaVars == <<uploads, bytes, upload, together>>

ASSUME QuotaAssumption ==
    /\ IsFiniteSet(Upload)
    /\ MaxSize \in Nat /\ Size \in [Upload -> 0 .. MaxSize]
    /\ CountLimit \in Nat /\ BytesLimit \in Nat

UploadStep == {"new", "save", "count", "done", "error"}

UploadQuotaTypeOK ==
    /\ uploads \in Nat /\ bytes \in Nat /\ together \in Nat
    /\ upload \in [Upload -> UploadStep]

UploadQuotaInit ==
    /\ uploads = 0 /\ bytes = 0 /\ together = 0
    /\ upload = [u \in Upload |-> "new"]

Uncounted == {u \in Upload : upload[u] \in {"save", "count"}}

\* A slip: the size of the upload itself is left out.
ChecksBefore(u) == uploads < CountLimit /\ bytes < BytesLimit

\* checkQuotas
WithinQuota(u) == uploads < CountLimit /\ bytes + Size[u] <= BytesLimit

UploadCheck(u) ==
    /\ upload[u] = "new"
    /\ \/ /\ WithinQuota(u)
          /\ upload' = [upload EXCEPT ![u] = "save"]
          /\ together' = IF Cardinality(Uncounted) < together THEN together
                         ELSE Cardinality(Uncounted) + 1
       \/ /\ ~WithinQuota(u)
          /\ upload' = [upload EXCEPT ![u] = "error"]
          /\ UNCHANGED together
    /\ UNCHANGED <<uploads, bytes>>

\* The addresses are signed and the row is saved; or that throws, and the call is
\* never counted.
UploadSave(u) ==
    /\ upload[u] = "save"
    /\ upload' \in {[upload EXCEPT ![u] = "count"], [upload EXCEPT ![u] = "error"]}
    /\ UNCHANGED <<uploads, bytes, together>>

\* The pipeline of INCRBY, INCR and EXPIRE.
UploadCount(u) ==
    /\ upload[u] = "count"
    /\ uploads' = uploads + 1 /\ bytes' = bytes + Size[u]
    /\ upload' = [upload EXCEPT ![u] = "done"]
    /\ UNCHANGED together

\* A day without an upload: each counter has a time to live of its own.
QuotaExpires ==
    /\ \/ uploads > 0 /\ uploads' = 0 /\ UNCHANGED bytes
       \/ bytes > 0 /\ bytes' = 0 /\ UNCHANGED uploads
    /\ UNCHANGED <<upload, together>>

UploadQuotaNext ==
    \/ \E u \in Upload : UploadCheck(u) \/ UploadSave(u) \/ UploadCount(u)
    \/ QuotaExpires

UploadQuotaSpec == UploadQuotaInit /\ [][UploadQuotaNext]_quotaVars
-----------------------------------------------------------------------------
\* Uploads asked for together can pass the quotas together: the number by less than
\* there ever were under way at once, and the bytes by no more than the largest size
\* for each of them but one.  Uploads that come one after the other never pass them.
QuotaBound ==
    LET Pending == MapThenSumSet(LAMBDA u : Size[u], Uncounted)
    IN  uploads + bytes + Cardinality(Uncounted) > 0 =>
            /\ uploads + Cardinality(Uncounted) < CountLimit + together
            /\ bytes + Pending <= BytesLimit + (together - 1) * MaxSize
=============================================================================
