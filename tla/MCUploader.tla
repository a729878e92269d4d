------------------------------ MODULE MCUploader ------------------------------
(* Three snapshots, two workers, a channel of one and two attempts.        *)
EXTENDS Uploader
================================================================================
