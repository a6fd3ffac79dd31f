----------------------------- MODULE MCBlobCache -----------------------------
(* Instance of BlobCache; the cfg gives callers and keys. *)
EXTENDS BlobCache
=============================================================================
