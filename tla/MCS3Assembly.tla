---------------------------- MODULE MCS3Assembly ----------------------------
(* S3Assembly for TLC: the constants are given in the configuration.       *)
EXTENDS S3Assembly
============================================================================
